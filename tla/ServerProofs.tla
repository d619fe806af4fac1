---------------------------- MODULE ServerProofs ----------------------------
(***************************************************************************)
(* A daemon, for any number of processes, connections, projects and scans.  *)
(* As a process: one daemon per lock that the others can find, a watcher    *)
(* that keeps to its limits, no project deleted before its time.  As a      *)
(* server: the registry is as clients asked for it, the watched directory   *)
(* is known for what it is, the log of tool calls loses no record, the BM25 *)
(* cache serves no stale index, and a search that an indexing pass          *)
(* overtakes still finds what it should.                                    *)
(***************************************************************************)
EXTENDS Daemon, WatchLimits, Projects, ParentWatcher, ReplayLog, Searcher, SetLemmas

-----------------------------------------------------------------------------
(* Daemons *)

(* There are more inodes than processes: a lock file can always be made.     *)
LEMMA FreshInode ==
    ASSUME fh \in [Procs -> Inodes \cup {NoInode}]
    PROVE  Min(Inodes \ {fh[x] : x \in Procs}) \in Inodes
<1> DEFINE used == {fh[x] : x \in Procs}
<1>1. Inodes \ used # {}
  <2> SUFFICES ASSUME Inodes \subseteq used PROVE FALSE
    OBVIOUS
  <2> DEFINE owner == [i \in Inodes |-> CHOOSE x \in Procs : fh[x] = i]
  <2>1. \A i \in Inodes : owner[i] \in Procs /\ fh[owner[i]] = i
    OBVIOUS
  <2>2. IsFiniteSet(Inodes) /\ Cardinality(Inodes) = MaxInode
    BY FS_Interval, FS_CardinalityType, DaemonAssumption DEF Inodes
  <2>3. Cardinality(Procs) < Cardinality(Inodes)
    BY <2>2, FS_CardinalityType, DaemonAssumption
  <2>4. owner \in [Inodes -> Procs]
    BY <2>1
  <2> HIDE DEF owner
  <2>5. \E i, j \in Inodes : i # j /\ owner[i] = owner[j]
    BY <2>2, <2>3, <2>4, FS_PigeonHole, DaemonAssumption
  <2> QED
    BY <2>1, <2>5
<1>2. Inodes \subseteq Nat
  BY DEF Inodes
<1> QED
  BY <1>1, <1>2, MinIsLeast

(* A process that is gone takes its lock with it and disturbs no other.      *)
LEMMA GoneKeeps ==
    ASSUME LockInv, NEW p \in Procs, Gone(p),
           cli' \in [at : {"idle", "wait", "sweep", "sweep_lock"}, pid : Procs \cup {Nobody}],
           cli'.at = "wait" => cli'.pid \in Procs
    PROVE  LockInv'
BY DEF LockInv, DaemonTypeOK, RunningIsFindable, Gone, Holding, Serving, Phases

(* A start, up to server.info. *)
LEMMA StartsKeep == ASSUME LockInv, NEW p \in Procs, Starts(p) PROVE LockInv'
<1> USE DEF LockInv, DaemonTypeOK, RunningIsFindable, Holding, Serving, Phases, Go
<1>1. CASE OpenLockFile(p)
  <2> DEFINE i == IF path # NoInode THEN path ELSE Min(Inodes \ {fh[x] : x \in Procs})
  <2>1. i \in Inodes /\ i # NoInode
    BY FreshInode, DaemonAssumption DEF Inodes
  <2>2. /\ Go(p, "stores", "opened") /\ path' = i /\ fh' = [fh EXCEPT ![p] = i]
        /\ UNCHANGED <<held, info, robbed, port, group, cli>>
    BY <1>1 DEF OpenLockFile
  <2>3. path # NoInode => i = path
    OBVIOUS
  <2> HIDE DEF i
  <2> QED
    BY <2>1, <2>2, <2>3 DEF group
<1>2. CASE acquire(p)
  BY <1>2 DEF acquire, HeldByOther, group
<1>3. CASE bind_pair(p)
  BY <1>3 DEF bind_pair, lockfiles, group
<1>4. CASE write_server_info(p)
  BY <1>4 DEF write_server_info, Tasks
<1> QED
  BY <1>1, <1>2, <1>3, <1>4 DEF Starts

(* The way out, from the deletion of server.info to that of the lock file.   *)
LEMMA UnwindsKeep == ASSUME LockInv, NEW p \in Procs, Unwinds(p) PROVE LockInv'
<1>1. CASE delete_server_info(p)
  BY <1>1 DEF delete_server_info, group, LockInv, DaemonTypeOK, RunningIsFindable, Holding, Serving, Phases, Go
<1>2. CASE _close_sockets(p)
  BY <1>2 DEF _close_sockets, lockfiles, group, LockInv, DaemonTypeOK, RunningIsFindable, Holding, Serving, Phases, Go
<1>3. CASE release(p)
  BY <1>3 DEF release, group, LockInv, DaemonTypeOK, RunningIsFindable, Holding, Serving, Phases, Go
<1>4. CASE ReleaseUnlinks(p)
  BY <1>4 DEF ReleaseUnlinks, UnlinkPath, group, LockInv, DaemonTypeOK, RunningIsFindable, Holding, Serving, Phases, Go
<1>5. CASE Exit(p)
  BY <1>5, GoneKeeps DEF Exit, LockInv, DaemonTypeOK
<1> QED
  BY <1>1, <1>2, <1>3, <1>4, <1>5 DEF Unwinds

(* Steps that touch neither lock nor server.info, and start no daemon.       *)
LEMMA RunningKeeps ==
    ASSUME LockInv, UNCHANGED <<fh, held, path, info, robbed, cli>>,
           tasks' \in [Procs -> SUBSET Tasks], phase' \in [Procs -> Phases],
           \A p \in Procs : phase'[p] = phase[p] \/ (phase[p] = "run" /\ phase'[p] = "delete")
    PROVE  LockInv'
BY DEF LockInv, DaemonTypeOK, RunningIsFindable, Holding, Serving, Phases

(* The children of a running daemon's task group. *)
LEMMA RunsKeep ==
    ASSUME LockInv, NEW p \in Procs,
           Runs(p) \/ FsWatcherEnds(p) \/ TransportFails(p) \/ request_shutdown(p) \/ _cmd_reload
    PROVE  LockInv'
<1> USE DEF lockfiles
<1>0. phase \in [Procs -> Phases] /\ tasks \in [Procs -> SUBSET Tasks]
  BY DEF LockInv, DaemonTypeOK
<1>1. ASSUME NEW t, Ends(p, t) PROVE LockInv'
  BY <1>0, <1>1, RunningKeeps DEF Ends
<1>2. CASE _reload_watcher(p) \/ request_shutdown(p) \/ _cmd_reload
  BY <1>0, <1>2, RunningKeeps DEF _reload_watcher, request_shutdown, _cmd_reload
<1>3. CASE GroupEnds(p) \/ TransportFails(p)
  BY <1>0, <1>3, RunningKeeps DEF GroupEnds, TransportFails, Go, group, Phases
<1> QED
  BY <1>1, <1>2, <1>3 DEF Runs, FsWatcherEnds, _shutdown_watcher, HttpStops

(* `longctx stop`: the signals, and the sweep that may rob a lock. *)
LEMMA StopKeeps == ASSUME LockInv, _cmd_stop \/ StopWorks PROVE LockInv'
<1> USE DEF lockfiles, group
<1>1. CASE _cmd_stop
  <2>1. info \in Procs /\ cli' = [at |-> "wait", pid |-> info] /\ Sigterm(info)
    BY <1>1 DEF _cmd_stop, read_server_info, LockInv, DaemonTypeOK
  <2>2. CASE HandlersOn(info)
    BY <2>1, <2>2 DEF Sigterm, LockInv, DaemonTypeOK, RunningIsFindable, Holding, Serving
  <2>3. CASE ~HandlersOn(info)
    BY <2>1, <2>3, GoneKeeps DEF Sigterm
  <2> QED
    BY <2>2, <2>3
<1>2. CASE StopSeesExit
  BY <1>2 DEF StopSeesExit, LockInv, DaemonTypeOK, RunningIsFindable, Holding, Serving
<1>3. CASE StopKills
  <2>1. cli'.at # "wait" /\ cli.pid \in Procs
        /\ cli' \in [at : {"idle", "wait", "sweep", "sweep_lock"}, pid : Procs \cup {Nobody}]
    BY <1>3 DEF StopKills, LockInv, DaemonTypeOK
  <2> QED
    BY <1>3, <2>1, GoneKeeps DEF StopKills
<1>4. CASE SweepInfo
  BY <1>4 DEF SweepInfo, LockInv, DaemonTypeOK, RunningIsFindable, Holding, Serving
<1>5. CASE SweepLock
  BY <1>5, DaemonAssumption
     DEF SweepLock, UnlinkPath, Quiet, LockInv, DaemonTypeOK, RunningIsFindable, Holding, Serving
<1> QED
  BY <1>1, <1>2, <1>3, <1>4, <1>5 DEF StopWorks

(* Every step of any process preserves the invariant. *)
LEMMA LockStep == LockInv /\ [DaemonNext]_dvars => LockInv'
<1> SUFFICES ASSUME LockInv, [DaemonNext]_dvars PROVE LockInv'
  OBVIOUS
<1>1. CASE UNCHANGED dvars
  BY <1>1 DEF dvars, LockInv, DaemonTypeOK, RunningIsFindable, Holding, Serving
<1>2. ASSUME NEW p \in Procs, _cmd_serve(p) PROVE LockInv'
  BY <1>2 DEF _cmd_serve, Go, lockfiles, group, LockInv, DaemonTypeOK, RunningIsFindable, Holding, Serving, Phases
<1>3. ASSUME NEW p \in Procs, Kill(p) PROVE LockInv'
  BY <1>3, GoneKeeps DEF Kill, LockInv, DaemonTypeOK
<1>4. CASE _cmd_reload
  <2>1. PICK p \in Procs : info = p
    BY <1>4 DEF _cmd_reload, LockInv, DaemonTypeOK
  <2> QED
    BY <1>4, <2>1, RunsKeep
<1> QED
  BY <1>1, <1>2, <1>3, <1>4, StartsKeep, RunsKeep, UnwindsKeep, StopKeeps DEF DaemonNext

(* Until a lock file is unlinked under a process that has it open, at most   *)
(* one daemon serves, and a daemon that runs is the one server.info names:   *)
(* for any number of processes, kills and restarts.                          *)
THEOREM OneDaemonForAll == DaemonSpec => []OneDaemonFindable
<1>1. DaemonInit => LockInv
  BY DEF DaemonInit, LockInv, DaemonTypeOK, RunningIsFindable, Holding, Serving, Phases, Quiet, Tasks
<1>2. LockInv => OneDaemonFindable
  BY DEF LockInv, OneDaemonFindable, OneDaemonUnlessRobbed, OneDaemon, Holding
<1> QED
  BY <1>1, <1>2, LockStep, PTL DEF DaemonSpec

-----------------------------------------------------------------------------
(* The cleanup tick *)

(* The worker's steps and the bucket's leave the tiers alone. *)
LEMMA WorkerLeavesTier == LimitsNext => UNCHANGED tier
BY DEF LimitsNext, Second, stop, _shutdown, WorkerSteps, _maybe_self_throttle, _drain_now,
       NextBatch, Acquire, Apply, Enqueue, Expire

(* A tick's look at the root keeps the stamp behind the time since the root  *)
(* was seen, and lets a project go only after the whole grace period.        *)
LEMMA TierOneKeeps ==
    ASSUME NEW t \in TierStates, t.missing <= t.seen
    PROVE  /\ TierOne(t) \in TierStates
           /\ TierOne(t).missing <= TierOne(t).seen
           /\ TierOne(t).stored = t.stored
           /\ Dropped(t) => ~t.root /\ t.seen >= Grace
<1> DEFINE m == IF t.root THEN Never ELSE IF t.missing = Never THEN 0 ELSE t.missing
           s == IF t.root THEN 0 ELSE t.seen
<1>1. TierOne(t) = [t EXCEPT !.missing = m, !.seen = s]
  BY DEF TierOne
<1>2. t.missing \in 0..Grace \cup {Never} /\ t.seen \in 0..Grace /\ Grace \in Nat
  BY LimitsAssumption DEF TierStates
<1>3. m \in 0..Grace \cup {Never} /\ s \in 0..Grace /\ m <= s
  BY <1>2 DEF Never
<1> HIDE DEF m, s
<1>4. /\ TierOne(t) \in TierStates /\ TierOne(t).stored = t.stored
      /\ TierOne(t).missing = m /\ TierOne(t).seen = s
  BY <1>1, <1>3 DEF TierStates
<1>5. Dropped(t) => ~t.root /\ t.seen >= Grace
  BY <1>2, <1>4 DEF Dropped, Never, m
<1> QED
  BY <1>3, <1>4, <1>5

(* A day more: the stamp and the time since the root was seen stop at the    *)
(* grace period together.                                                    *)
LEMMA DayKeeps ==
    ASSUME NEW t \in TierStates, t.missing <= t.seen, NEW aged,
           aged = [t EXCEPT !.idle = Min({IdlePause, @ + 1}), !.seen = Min({Grace, @ + 1}),
                            !.missing = IF @ = Never THEN @ ELSE Min({Grace, @ + 1})]
    PROVE  aged \in TierStates /\ aged.missing <= aged.seen /\ aged.stored = t.stored
<1> DEFINE i == Min({IdlePause, t.idle + 1})
           s == Min({Grace, t.seen + 1})
           m == IF t.missing = Never THEN Never ELSE Min({Grace, t.missing + 1})
<1>1. aged = [t EXCEPT !.idle = i, !.seen = s, !.missing = m]
  BY DEF TierStates
<1>2. /\ t.missing \in 0..Grace \cup {Never} /\ t.seen \in 0..Grace /\ Grace \in Nat
      /\ t.idle \in 0..IdlePause /\ IdlePause \in Nat
  BY LimitsAssumption DEF TierStates
<1>3. /\ i = IF IdlePause <= t.idle + 1 THEN IdlePause ELSE t.idle + 1
      /\ s = IF Grace <= t.seen + 1 THEN Grace ELSE t.seen + 1
  <2>1. t.idle + 1 \in Int /\ t.seen + 1 \in Int
    BY <1>2
  <2> QED
    BY <1>2, <2>1, MinOfTwo
<1>4. m = IF t.missing = Never THEN Never ELSE IF Grace <= t.missing + 1 THEN Grace ELSE t.missing + 1
  <2>1. t.missing + 1 \in Int
    BY <1>2 DEF Never
  <2> QED
    BY <1>2, <2>1, MinOfTwo
<1> HIDE DEF i, s, m
<1>5. i \in 0..IdlePause /\ s \in 0..Grace
  BY <1>2, <1>3
<1>6. m \in 0..Grace \cup {Never} /\ m <= s
  BY <1>2, <1>3, <1>4 DEF Never
<1> QED
  BY <1>1, <1>5, <1>6 DEF TierStates

(* Every change of a project's tier keeps the stamp behind the time since    *)
(* the root was seen, and deletes only what has been missing long enough.    *)
LEMMA TierStep ==
    ASSUME GraceInv, TierNext
    PROVE  /\ GraceInv'
           /\ \A p \in Watched : tier[p].stored /\ ~tier'[p].stored
                 => ~tier[p].root /\ tier[p].seen >= Grace
<1> DEFINE Deletes(t, u) == t.stored /\ ~u.stored => ~t.root /\ t.seen >= Grace
<1>1. \A p \in Watched : tier[p] \in TierStates /\ tier[p].missing <= tier[p].seen
  BY DEF GraceInv
<1>2. CASE Day
  <2> DEFINE aged(t) == [t EXCEPT !.idle = Min({IdlePause, @ + 1}), !.seen = Min({Grace, @ + 1}),
                                  !.missing = IF @ = Never THEN @ ELSE Min({Grace, @ + 1})]
  <2>1. tier' = [p \in Watched |-> aged(tier[p])]
    BY <1>2 DEF Day
  <2>2. \A p \in Watched : /\ aged(tier[p]) \in TierStates /\ aged(tier[p]).missing <= aged(tier[p]).seen
                            /\ aged(tier[p]).stored = tier[p].stored
    BY <1>1, DayKeeps
  <2> HIDE DEF aged
  <2> QED
    BY <2>1, <2>2 DEF GraceInv
<1>3. ASSUME NEW p \in Watched, NEW t \in TierStates, Tier(p, t),
             t.missing <= t.seen, Deletes(tier[p], t)
      PROVE  GraceInv' /\ \A o \in Watched : Deletes(tier[o], tier'[o])
  BY <1>1, <1>3 DEF Tier, GraceInv
<1>4. ASSUME NEW p \in Watched, RootChanges(p) \/ QueueChanges(p) \/ note_query(p) \/ add_project(p)
      PROVE  \E t \in TierStates : Tier(p, t) /\ t.missing <= t.seen /\ (tier[p].stored => t.stored)
  <2> USE <1>1
  <2>0. 0 \in 0..Grace /\ 0 \in 0..IdlePause /\ \A n \in 0..Grace : 0 <= n /\ Never <= n
    BY LimitsAssumption DEF Never
  <2>1. CASE RootChanges(p) \/ QueueChanges(p)
    <3>1. /\ [tier[p] EXCEPT !.root = ~@] \in TierStates
          /\ [tier[p] EXCEPT !.busy = ~@] \in TierStates
      BY DEF TierStates
    <3> QED
      BY <2>1, <3>1 DEF RootChanges, QueueChanges, TierStates
  <2>2. CASE note_query(p)
    <3>1. [tier[p] EXCEPT !.idle = 0, !.paused = FALSE] \in TierStates
      BY <2>0 DEF TierStates
    <3> QED
      BY <2>2, <3>1 DEF note_query, TierStates
  <2>3. CASE add_project(p)
    <3>1. /\ Fresh \in TierStates
          /\ [tier[p] EXCEPT !.missing = Never, !.paused = FALSE, !.seen = 0] \in TierStates
      BY <2>0 DEF TierStates, Fresh
    <3> QED
      BY <2>0, <2>3, <3>1 DEF add_project, TierStates, Fresh
  <2> QED
    BY <1>4, <2>1, <2>2, <2>3
<1>5. ASSUME NEW p \in Watched, Ticks(p)
      PROVE  \E t \in TierStates : Tier(p, t) /\ t.missing <= t.seen /\ Deletes(tier[p], t)
  <2>1. PICK deleted \in BOOLEAN : _cleanup_tick(p, deleted)
    BY <1>5 DEF Ticks
  <2> DEFINE t == TierOne(tier[p])
  <2>2. /\ t \in TierStates /\ t.missing <= t.seen /\ t.stored = tier[p].stored
        /\ Dropped(tier[p]) => ~tier[p].root /\ tier[p].seen >= Grace
    BY <1>1, TierOneKeeps
  <2> HIDE DEF t
  <2>3. CASE Dropped(tier[p])
    <3> DEFINE u == [t EXCEPT !.on = FALSE, !.stored = @ /\ ~deleted]
    <3>1. u \in TierStates /\ u.missing <= u.seen
      BY <2>2 DEF TierStates
    <3> QED
      BY <2>1, <2>2, <2>3, <3>1 DEF _cleanup_tick, t
  <2>4. CASE ~Dropped(tier[p])
    <3>1. TierTwo(t) \in TierStates /\ TierTwo(t).missing <= TierTwo(t).seen /\ TierTwo(t).stored = t.stored
      BY <2>2 DEF TierTwo, TierStates
    <3> QED
      BY <2>1, <2>2, <2>4, <3>1 DEF _cleanup_tick, t
  <2> QED
    BY <2>3, <2>4
<1> QED
  <2> SUFFICES ASSUME ~Day PROVE GraceInv' /\ \A o \in Watched : Deletes(tier[o], tier'[o])
    BY <1>2 DEF Day
  <2>1. PICK p \in Watched : RootChanges(p) \/ QueueChanges(p) \/ Ticks(p) \/ note_query(p) \/ add_project(p)
    BY DEF TierNext
  <2>2. PICK t \in TierStates : Tier(p, t) /\ t.missing <= t.seen /\ Deletes(tier[p], t)
    BY <1>4, <1>5, <2>1
  <2> QED
    BY <1>3, <2>2

(* No cleanup tick deletes a project whose root is there, or was seen within *)
(* the grace period: for every length of it, and for any number of projects. *)
THEOREM GraceForAll == LimitsSpec => GraceRespected
<1>1. LimitsInit => GraceInv
  <2>1. 0 \in 0..Grace /\ 0 \in 0..IdlePause /\ Never <= 0
    BY LimitsAssumption DEF Never
  <2>2. Fresh \in TierStates /\ Fresh.missing <= Fresh.seen
    BY <2>1 DEF TierStates, Fresh
  <2> QED
    BY <2>2 DEF LimitsInit, GraceInv
<1>2. GraceInv /\ [LimitsNext \/ TierNext]_limvars => GraceInv'
  BY WorkerLeavesTier, TierStep DEF GraceInv, limvars
<1>3. GraceInv /\ [LimitsNext \/ TierNext]_limvars
        => [\A p \in Watched : tier[p].stored /\ ~tier'[p].stored
              => ~tier[p].root /\ tier[p].seen >= Grace]_limvars
  BY WorkerLeavesTier, TierStep DEF limvars
<1> QED
  BY <1>1, <1>2, <1>3, PTL DEF LimitsSpec, GraceRespected

-----------------------------------------------------------------------------
(* The worker and its bucket *)

Batches == Watched \X (0..MostAtOnce)

(* No queue, and no burst, is larger than MostAtOnce. *)
LEMMA MostAtOnceIs ==
    /\ MostAtOnce \in Nat /\ Burst <= MostAtOnce
    /\ \A p \in Watched : MaxQueued[p] <= MostAtOnce
    /\ Burst \in Nat \ {0} /\ Baseline \in Nat \ {0}
<1> DEFINE sizes == {MaxQueued[p] : p \in Watched}
           f == [p \in Watched |-> MaxQueued[p]]
<1>1. Burst \in Nat \ {0} /\ Baseline \in Nat \ {0} /\ sizes \subseteq Nat
  BY LimitsAssumption
<1>2. f \in Surjection(Watched, sizes)
  BY DEF Surjection
<1>3. IsFiniteSet(sizes)
  BY <1>2, FS_Surjection, LimitsAssumption
<1>4. IsFiniteSet({Burst} \cup sizes)
  BY <1>3, FS_Singleton, FS_Union
<1>5. {Burst} \cup sizes \subseteq Nat /\ {Burst} \cup sizes # {}
  BY <1>1
<1>6. MostAtOnce \in {Burst} \cup sizes /\ \A y \in {Burst} \cup sizes : y <= MostAtOnce
  BY <1>4, <1>5, MaxIsGreatest DEF MostAtOnce
<1> QED
  BY <1>1, <1>5, <1>6

(* TakenFor is the size of the project's batch, or zero without one. *)
LEMMA TakenForIs ==
    ASSUME NEW r \in Seq(Batches), EachOnce(r), NEW p \in Watched
    PROVE  /\ \A i \in DOMAIN r : r[i][1] = p => TakenFor(p, r) = r[i][2]
           /\ (\A i \in DOMAIN r : r[i][1] # p) => TakenFor(p, r) = 0
<1> DEFINE its == {b \in ToSet(r) : b[1] = p}
<1>1. its = {r[i] : i \in {j \in DOMAIN r : r[j][1] = p}}
  BY DEF ToSet
<1>2. TakenFor(p, r) = IF its = {} THEN 0 ELSE (CHOOSE b \in its : TRUE)[2]
  BY DEF TakenFor
<1> HIDE DEF its
<1>3. ASSUME NEW i \in DOMAIN r, r[i][1] = p PROVE TakenFor(p, r) = r[i][2]
  <2>1. its = {r[i]}
    BY <1>1, <1>3 DEF EachOnce
  <2> QED
    BY <1>2, <2>1
<1> QED
  BY <1>1, <1>2, <1>3

(* What a drain takes. *)
Drained(d, o) == {<<p, o[p]>> : p \in d}

(* A drain takes every queue that is due, once and as it stands. *)
LEMMA DrainIs ==
    ASSUME NEW d, d \subseteq Watched, NEW o \in [Watched -> Nat],
           \A p \in Watched : o[p] <= MostAtOnce, NEW r, r = SetToSeq(Drained(d, o))
    PROVE  /\ r \in Seq(Batches) /\ EachOnce(r)
           /\ \A p \in Watched : TakenFor(p, r) = IF p \in d THEN o[p] ELSE 0
<1> DEFINE S == Drained(d, o)
<1> USE DEF Drained
<1>1. IsFiniteSet(d)
  BY FS_Subset, LimitsAssumption
<1>2. IsFiniteSet(S)
  <2> DEFINE f == [p \in d |-> <<p, o[p]>>]
  <2>1. f \in Surjection(d, S)
    BY DEF Surjection
  <2> QED
    BY <1>1, <2>1, FS_Surjection
<1>3. \A x \in S : x \in Batches /\ x[1] \in d /\ x = <<x[1], o[x[1]]>>
  BY MostAtOnceIs DEF Batches
<1>4. \A p \in d : <<p, o[p]>> \in S
  OBVIOUS
<1> HIDE DEF S
<1>5. /\ r \in Seq(S)
      /\ \A i, j \in DOMAIN r : r[i] = r[j] => i = j
      /\ \A x \in S : \E i \in DOMAIN r : r[i] = x
  BY <1>2, SetToSeqIs DEF S
<1>6. r \in Seq(Batches)
  BY <1>3, <1>5
<1>7. \A i \in DOMAIN r : r[i] \in S
  BY <1>5
<1>8. EachOnce(r)
  <2> SUFFICES ASSUME NEW i \in DOMAIN r, NEW j \in DOMAIN r, r[i][1] = r[j][1] PROVE i = j
    BY DEF EachOnce
  <2>1. r[i] = <<r[i][1], o[r[i][1]]>> /\ r[j] = <<r[j][1], o[r[j][1]]>>
    BY <1>3, <1>7
  <2> HIDE <1>3
  <2>2. r[i] = r[j]
    BY <2>1
  <2> QED
    BY <1>5, <2>2
<1>9. ASSUME NEW p \in Watched PROVE TakenFor(p, r) = IF p \in d THEN o[p] ELSE 0
  <2>1. CASE p \in d
    <3>1. PICK i \in DOMAIN r : r[i] = <<p, o[p]>>
      BY <1>4, <1>5, <2>1
    <3> QED
      BY <1>6, <1>8, <2>1, <3>1, TakenForIs
  <2>2. CASE p \notin d
    <3>1. \A i \in DOMAIN r : r[i][1] # p
      BY <1>3, <1>7, <2>2
    <3> QED
      BY <1>6, <1>8, <2>2, <3>1, TakenForIs
  <2> QED
    BY <2>1, <2>2
<1> QED
  BY <1>6, <1>8, <1>9

(* The first batch is its project's only one. *)
LEMMA TailIs ==
    ASSUME NEW r \in Seq(Batches), EachOnce(r), r # <<>>
    PROVE  /\ Tail(r) \in Seq(Batches) /\ EachOnce(Tail(r)) /\ Head(r) \in Batches
           /\ \A p \in Watched : TakenFor(p, r) = TakenFor(p, Tail(r)) +
                                    (IF p = Head(r)[1] THEN Head(r)[2] ELSE 0)
<1> DEFINE t == Tail(r)
<1>1. /\ t \in Seq(Batches) /\ Head(r) = r[1] /\ Head(r) \in Batches /\ 1 \in DOMAIN r
      /\ \A i \in DOMAIN t : i + 1 \in DOMAIN r /\ t[i] = r[i + 1] /\ i + 1 # 1
      /\ \A i \in DOMAIN r : i # 1 => i - 1 \in DOMAIN t /\ r[i] = t[i - 1]
  OBVIOUS
<1> HIDE DEF t
<1>2. EachOnce(t)
  <2> SUFFICES ASSUME NEW i \in DOMAIN t, NEW j \in DOMAIN t, t[i][1] = t[j][1] PROVE i = j
    BY DEF EachOnce
  <2>1. i + 1 = j + 1
    BY <1>1 DEF EachOnce
  <2>2. i \in Int /\ j \in Int
    BY <1>1
  <2> QED
    BY <2>1, <2>2
<1>3. ASSUME NEW p \in Watched
      PROVE  TakenFor(p, r) = TakenFor(p, t) + (IF p = Head(r)[1] THEN Head(r)[2] ELSE 0)
  <2>1. CASE p = Head(r)[1]
    <3>1. \A i \in DOMAIN t : t[i][1] # p
      BY <1>1, <2>1 DEF EachOnce
    <3>2. TakenFor(p, t) = 0 /\ TakenFor(p, r) = Head(r)[2]
      BY <1>1, <1>2, <2>1, <3>1, TakenForIs
    <3> QED
      BY <1>1, <2>1, <3>2 DEF Batches
  <2>2. CASE p # Head(r)[1]
    <3>1. CASE \E i \in DOMAIN t : t[i][1] = p
      <4>1. PICK i \in DOMAIN t : t[i][1] = p
        BY <3>1
      <4>2. TakenFor(p, t) = t[i][2] /\ TakenFor(p, r) = t[i][2] /\ t[i] \in Batches
        BY <1>1, <1>2, <4>1, TakenForIs
      <4> QED
        BY <2>2, <4>2 DEF Batches
    <3>2. CASE \A i \in DOMAIN t : t[i][1] # p
      <4>1. \A i \in DOMAIN r : r[i][1] # p
        BY <1>1, <2>2, <3>2
      <4>2. TakenFor(p, t) = 0 /\ TakenFor(p, r) = 0
        BY <1>1, <1>2, <3>2, <4>1, TakenForIs
      <4> QED
        BY <2>2, <4>2
    <3> QED
      BY <3>1, <3>2
  <2> QED
    BY <2>1, <2>2
<1> QED
  BY <1>1, <1>2, <1>3 DEF t

(* The bucket and the hand when time passes. *)
LEMMA SecondKeeps == ASSUME LimitsInv, Second PROVE LimitsInv'
<1>1. /\ hand' = [hand EXCEPT !.left = Max({0, @ - 1})] /\ Max({0, hand.left - 1}) \in Nat
      /\ Max({0, hand.left - 1}) >= hand.left - 1
  <2>1. hand.left \in Nat /\ hand.left - 1 \in Int
    BY DEF LimitsInv, HandInv
  <2>2. Max({0, hand.left - 1}) = IF 0 >= hand.left - 1 THEN 0 ELSE hand.left - 1
    BY <2>1, MaxOfTwo
  <2>3. hand' = [hand EXCEPT !.left = Max({0, @ - 1})]
    BY DEF Second
  <2> QED
    BY <2>1, <2>2, <2>3
<1>2. HandInv'
  BY <1>1 DEF LimitsInv, HandInv
<1>3. QueueInv'
  BY <1>1 DEF Second, LimitsInv, HandInv, QueueInv, EventsAccounted, InHand
<1>4. BucketInv'
  <2> DEFINE age == Min({Burst, bucket.age + 1})
             more == Min({MostAtOnce, allow + Baseline})
             left == Max({0, hand.left - 1})
             R == Baseline
  <2>1. /\ bucket.age \in 0..Burst /\ bucket.tokens \in 0..Burst /\ bucket.rate \in 1..Baseline
        /\ allow \in 0..MostAtOnce /\ hand.left \in Nat
        /\ R \in Nat \ {0} /\ Burst \in Nat \ {0} /\ MostAtOnce \in Nat /\ Burst <= MostAtOnce
        /\ allow >= Burst \/ allow >= bucket.tokens + bucket.age * R
    BY MostAtOnceIs DEF LimitsInv, HandInv, BucketInv
  <2>2. /\ bucket' = [bucket EXCEPT !.age = age] /\ allow' = more
        /\ hand'.left = left /\ hand'.pc = hand.pc /\ hand'.ready = hand.ready
    BY <1>1 DEF Second, LimitsInv, HandInv
  <2>3. /\ age = IF Burst <= bucket.age + 1 THEN Burst ELSE bucket.age + 1
        /\ more = IF MostAtOnce <= allow + R THEN MostAtOnce ELSE allow + R
        /\ left \in Nat /\ left >= hand.left - 1
    <3>1. bucket.age + 1 \in Int /\ allow + R \in Int
      BY <2>1
    <3> QED
      BY <1>1, <2>1, <3>1, MinOfTwo
  <2> HIDE DEF age, more, left, R
  <2>4. age \in 0..Burst /\ more \in 0..MostAtOnce /\ age <= bucket.age + 1
    BY <2>1, <2>3
  <2>5. age * R <= bucket.age * R + R /\ age * R \in Nat /\ bucket.age * R \in Nat
    <3>1. (bucket.age + 1) * R = bucket.age * R + R
      BY <2>1
    <3> QED
      BY <2>1, <2>4, <3>1, TimesMono
  <2>6. more >= Burst \/ more >= bucket.tokens + age * R
    BY <2>1, <2>3, <2>5
  <2>7. ASSUME hand.pc = "asleep" PROVE more + left * R >= Head(hand.ready)[2]
    <3> DEFINE n == Head(hand.ready)[2]
    <3>1. n \in 0..MostAtOnce /\ allow + hand.left * R >= n
      BY <2>7, TailIs DEF LimitsInv, HandInv, BucketInv, Batches, R
    <3> HIDE DEF n
    <3>2. left * R \in Nat /\ hand.left * R <= left * R + R /\ hand.left * R \in Nat
      <4>1. (left + 1) * R = left * R + R
        BY <2>1, <2>3
      <4> QED
        BY <2>1, <2>3, <4>1, TimesMono
    <3> QED
      BY <2>1, <2>3, <3>1, <3>2 DEF n
  <2>8. bucket' \in [rate : 1..Baseline, tokens : 0..Burst, age : 0..Burst]
    BY <2>2, <2>4 DEF LimitsInv, BucketInv
  <2>9. bucket'.age = age /\ bucket'.tokens = bucket.tokens
    BY <2>2 DEF LimitsInv, BucketInv
  <2> QED
    BY <2>2, <2>4, <2>6, <2>7, <2>8, <2>9 DEF BucketInv, R
<1> QED
  BY <1>2, <1>3, <1>4 DEF LimitsInv

(* acquire: a batch is let through only when it is allowed, and a sleep is   *)
(* long enough to earn what is missing, at whatever rate.                    *)
LEMMA AcquireKeeps == ASSUME LimitsInv, Acquire PROVE LimitsInv'
<1> DEFINE n == Head(hand.ready)[2]
           R == Baseline
           earned == bucket.tokens + bucket.age * bucket.rate
<1>1. /\ hand.ready # <<>> /\ (TakeTokens(n) \/ Woke(n))
      /\ UNCHANGED <<queued, due, throttled, stopped, unapplied, tier>>
  BY DEF Acquire
<1>2. /\ bucket.age \in 0..Burst /\ bucket.tokens \in 0..Burst /\ bucket.rate \in 1..R
      /\ allow \in 0..MostAtOnce /\ hand.left \in Nat
      /\ R \in Nat \ {0} /\ Burst \in Nat \ {0} /\ MostAtOnce \in Nat /\ Burst <= MostAtOnce
      /\ allow >= Burst \/ allow >= bucket.tokens + bucket.age * R
      /\ hand.pc = "asleep" => allow + hand.left * R >= n
  BY MostAtOnceIs DEF LimitsInv, HandInv, BucketInv
<1>3. n \in 0..MostAtOnce
  <2>1. hand.ready \in Seq(Batches) /\ EachOnce(hand.ready)
    BY DEF LimitsInv, HandInv, Batches
  <2>2. Head(hand.ready) \in Batches
    BY <1>1, <2>1, TailIs
  <2> QED
    BY <2>2 DEF Batches
<1> HIDE DEF n, R
<1>4. earned \in Nat /\ earned <= bucket.tokens + bucket.age * R
  <2>1. bucket.age * bucket.rate \in Nat /\ bucket.age * bucket.rate <= bucket.age * R
    BY <1>2, TimesMono
  <2> QED
    BY <1>2, <2>1
<1>5. Filled = IF Burst <= earned THEN Burst ELSE earned
  BY <1>2, <1>4, MinOfTwo DEF Filled
<1> HIDE DEF earned
<1>6. Filled \in 0..Burst /\ Filled <= allow
  <2>1. bucket.age * R \in Nat
    BY <1>2
  <2> QED
    BY <1>2, <1>4, <1>5, <2>1
<1> DEFINE Ok(tokens, more) == tokens \in 0..Burst /\ more \in 0..MostAtOnce /\ more >= tokens
<1>7. ASSUME NEW tokens, Ok(tokens, allow'),
             bucket' = [bucket EXCEPT !.tokens = tokens, !.age = 0],
             hand' \in [pc : {"apply", "asleep"}, ready : {hand.ready}, left : Nat],
             hand'.pc = "asleep" => allow' + hand'.left * R >= n
      PROVE  LimitsInv'
  <2>1. HandInv'
    <3>1. hand'.ready = hand.ready /\ hand'.pc \in {"apply", "asleep"}
      BY <1>7
    <3>2. hand' \in [pc : {"top", "wait", "next", "acquire", "asleep", "apply", "out"},
                    ready : Seq(Watched \X (0..MostAtOnce)), left : Nat]
      BY <1>7 DEF LimitsInv, HandInv
    <3> QED
      BY <1>1, <3>1, <3>2 DEF LimitsInv, HandInv
  <2>2. QueueInv'
    BY <1>1, <1>7 DEF LimitsInv, HandInv, QueueInv, EventsAccounted, InHand
  <2>3. bucket' \in [rate : 1..Baseline, tokens : 0..Burst, age : 0..Burst]
        /\ bucket'.tokens = tokens /\ bucket'.age = 0
    <3>1. bucket \in [rate : 1..Baseline, tokens : 0..Burst, age : 0..Burst]
      BY DEF LimitsInv, BucketInv
    <3>2. tokens \in 0..Burst /\ 0 \in 0..Burst
      BY <1>2, <1>7
    <3>3. bucket' = [bucket EXCEPT !.tokens = tokens, !.age = 0]
      BY <1>7
    <3> QED
      BY <3>1, <3>2, <3>3
  <2>4. tokens + 0 * R = tokens
    BY <1>2, <1>7
  <2>5. BucketInv'
    BY <1>2, <1>7, <2>3, <2>4 DEF BucketInv, R, n
  <2> QED
    BY <2>1, <2>2, <2>5 DEF LimitsInv
<1>8. hand \in [pc : {"acquire", "asleep"}, ready : {hand.ready}, left : Nat]
  BY <1>1 DEF LimitsInv, HandInv, TakeTokens, Woke
<1>9. CASE TakeTokens(n) /\ Filled >= n
  <2>1. Ok(Filled - n, allow')
    BY <1>2, <1>3, <1>6, <1>9 DEF TakeTokens
  <2>2. hand' \in [pc : {"apply"}, ready : {hand.ready}, left : Nat]
    BY <1>8, <1>9 DEF TakeTokens
  <2> QED
    BY <1>7, <1>9, <2>1, <2>2 DEF TakeTokens
<1>10. CASE TakeTokens(n) /\ ~(Filled >= n)
  <2>1. Ok(Filled, allow')
    BY <1>2, <1>3, <1>6, <1>10 DEF TakeTokens
  <2>2. Wait(n) \in Nat /\ Wait(n) * bucket.rate >= n - Filled
    <3>1. n - Filled \in Nat /\ bucket.rate \in Nat \ {0}
      BY <1>2, <1>3, <1>6, <1>10
    <3> QED
      BY <3>1, DivideUp DEF Wait
  <2>3. Wait(n) * R >= Wait(n) * bucket.rate /\ Wait(n) * R \in Nat /\ Wait(n) * bucket.rate \in Nat
    BY <1>2, <2>2, TimesMono
  <2>4. /\ hand' \in [pc : {"asleep"}, ready : {hand.ready}, left : Nat]
        /\ hand'.left = Wait(n)
    BY <1>8, <1>10, <2>2 DEF TakeTokens
  <2>5. allow' + hand'.left * R >= n
    BY <1>2, <1>3, <1>6, <1>10, <2>2, <2>3, <2>4 DEF TakeTokens
  <2> QED
    BY <1>7, <1>10, <2>1, <2>4, <2>5 DEF TakeTokens
<1>11. CASE Woke(n)
  <2> DEFINE tokens == IF n > Burst THEN 0 ELSE Max({0, Filled - n})
  <2>1. Max({0, Filled - n}) = IF 0 >= Filled - n THEN 0 ELSE Filled - n
    <3>1. Filled - n \in Int
      BY <1>3, <1>6
    <3> QED
      BY <3>1, MaxOfTwo
  <2>2. allow >= n
    <3>1. hand.left = 0 /\ 0 * R = 0 /\ hand.pc = "asleep"
      BY <1>2, <1>11 DEF Woke
    <3> QED
      BY <1>2, <1>3, <3>1
  <2>3. Ok(tokens, allow')
    BY <1>2, <1>3, <1>6, <1>11, <2>1, <2>2 DEF Woke
  <2>4. hand' \in [pc : {"apply"}, ready : {hand.ready}, left : Nat]
    BY <1>8, <1>11 DEF Woke
  <2> QED
    BY <1>7, <1>11, <2>3, <2>4 DEF Woke
<1> QED
  BY <1>1, <1>9, <1>10, <1>11

(* Steps that leave the bucket and what the hand holds alone. *)
LEMMA BucketKeeps ==
    ASSUME LimitsInv, UNCHANGED <<bucket, allow>>, hand'.pc # "asleep"
    PROVE  BucketInv'
BY DEF LimitsInv, BucketInv

(* Events come in while the worker waits or works. *)
LEMMA IntakeKeeps ==
    ASSUME LimitsInv, NEW p \in Watched, Enqueue(p) \/ Expire(p) \/ stop PROVE LimitsInv'
<1>1. HandInv' /\ BucketInv'
  BY DEF Enqueue, Expire, stop, LimitsInv, HandInv, BucketInv
<1>2. \A o \in Watched : InHand(o)' = InHand(o)
  BY DEF Enqueue, Expire, stop, InHand
<1>3. CASE Enqueue(p)
  <2>1. \A o \in Watched : InHand(o) = unapplied[o] - queued[o]
    <3>1. ASSUME NEW o \in Watched PROVE InHand(o) \in Nat
      <4>1. hand.ready \in Seq(Batches) /\ EachOnce(hand.ready)
        BY DEF LimitsInv, HandInv, Batches
      <4>2. \A i \in DOMAIN hand.ready : hand.ready[i][2] \in Nat
        BY <4>1, MostAtOnceIs DEF Batches
      <4> QED
        BY <4>1, <4>2, TakenForIs DEF InHand
    <3> QED
      BY <1>3, <3>1 DEF Enqueue, LimitsInv, QueueInv, EventsAccounted
  <2>2. queued \in [Watched -> Nat] /\ unapplied \in [Watched -> Int] /\ MaxQueued \in [Watched -> Nat]
    BY LimitsAssumption DEF LimitsInv, QueueInv
  <2>3. /\ queued' \in [Watched -> Nat] /\ \A o \in Watched : queued'[o] <= MaxQueued[o]
        /\ unapplied' \in [Watched -> Int]
        /\ \A o \in Watched : unapplied'[o] - queued'[o] = unapplied[o] - queued[o]
    BY <1>3, <2>2 DEF Enqueue, LimitsInv, QueueInv
  <2>4. \A o \in Watched : unapplied'[o] = queued'[o] + InHand(o)'
    BY <1>2, <2>1, <2>2, <2>3
  <2>5. QueueInv'
    BY <1>3, <2>3, <2>4 DEF Enqueue, LimitsInv, QueueInv, EventsAccounted
  <2> QED
    BY <1>1, <2>5 DEF LimitsInv
<1>4. CASE Expire(p) \/ stop
  BY <1>1, <1>2, <1>4 DEF Expire, stop, LimitsInv, QueueInv, EventsAccounted
<1> QED
  BY <1>3, <1>4

(* What a drain takes from the queues it has in hand. *)
LEMMA DrainKeeps == ASSUME LimitsInv, _drain_now PROVE LimitsInv'
<1> DEFINE r == SetToSeq(Drained(due, queued))
<1>1. /\ r \in Seq(Batches) /\ EachOnce(r)
      /\ \A p \in Watched : TakenFor(p, r) = IF p \in due THEN queued[p] ELSE 0
  <2>1. \A p \in Watched : queued[p] <= MostAtOnce
    BY MostAtOnceIs, LimitsAssumption DEF LimitsInv, QueueInv
  <2>2. due \subseteq Watched /\ queued \in [Watched -> Nat]
    BY DEF LimitsInv, QueueInv
  <2> QED
    BY <2>1, <2>2, DrainIs
<1>2. /\ hand' = [hand EXCEPT !.pc = "next", !.ready = r] /\ hand.pc = "wait"
      /\ queued' = [p \in Watched |-> IF p \in due THEN 0 ELSE queued[p]] /\ due' = {}
      /\ UNCHANGED <<bucket, throttled, stopped, unapplied, allow, tier>>
  BY DEF _drain_now, Drained
<1> HIDE DEF r
<1>3. hand'.pc = "next" /\ hand'.ready = r /\ HandInv'
  BY <1>1, <1>2 DEF LimitsInv, HandInv, Batches
<1>4. ASSUME NEW p \in Watched PROVE InHand(p) = 0
  <2>1. hand.ready = <<>> /\ <<>> \in Seq(Batches) /\ EachOnce(<<>>) /\ DOMAIN <<>> = {}
    BY <1>2 DEF LimitsInv, HandInv, EachOnce
  <2> QED
    BY <2>1, TakenForIs DEF InHand
<1>5. QueueInv'
  <2>1. queued' \in [Watched -> Nat] /\ \A p \in Watched : queued'[p] <= MaxQueued[p]
    BY <1>2, LimitsAssumption DEF LimitsInv, QueueInv
  <2>2. \A p \in Watched : InHand(p)' = IF p \in due THEN queued[p] ELSE 0
    BY <1>1, <1>3 DEF InHand
  <2>3. ASSUME stopped \in {"run", "asked"}, NEW p \in Watched
        PROVE  unapplied[p] = queued'[p] + InHand(p)'
    <3>1. unapplied[p] = queued[p] + InHand(p) /\ queued[p] \in Nat
      BY <2>3 DEF LimitsInv, QueueInv, EventsAccounted
    <3> QED
      BY <1>2, <1>4, <2>2, <3>1
  <2> QED
    BY <1>2, <2>1, <2>3 DEF LimitsInv, QueueInv, EventsAccounted
<1> QED
  BY <1>2, <1>3, <1>5, BucketKeeps DEF LimitsInv

(* The first batch has been applied. *)
LEMMA AppliedIs ==
    ASSUME LimitsInv, hand.ready # <<>>
    PROVE  /\ Applied \in [Watched -> Int]
           /\ \A p \in Watched : unapplied[p] - InHand(p) = Applied[p] - TakenFor(p, Tail(hand.ready))
<1> DEFINE b == Head(hand.ready)
           t == Tail(hand.ready)
<1>1. hand.ready \in Seq(Batches) /\ EachOnce(hand.ready)
  BY DEF LimitsInv, HandInv, Batches
<1>2. /\ t \in Seq(Batches) /\ EachOnce(t) /\ b \in Batches
      /\ \A p \in Watched : InHand(p) = TakenFor(p, t) + (IF p = b[1] THEN b[2] ELSE 0)
  BY <1>1, TailIs DEF InHand
<1>3. Applied = [unapplied EXCEPT ![b[1]] = @ - b[2]]
  BY DEF Applied
<1> HIDE DEF b, t
<1>4. b[1] \in Watched /\ b[2] \in Nat /\ unapplied \in [Watched -> Int]
  BY <1>2, MostAtOnceIs DEF Batches, LimitsInv, QueueInv
<1>5. ASSUME NEW p \in Watched PROVE TakenFor(p, t) \in Nat
  <2>1. \A i \in DOMAIN t : t[i][2] \in Nat
    BY <1>2, MostAtOnceIs DEF Batches
  <2> QED
    BY <1>2, <2>1, TakenForIs
<1> QED
  BY <1>2, <1>3, <1>4, <1>5 DEF t

LEMMA ApplyKeeps == ASSUME LimitsInv, Apply PROVE LimitsInv'
<1>1. /\ hand.pc = "apply" /\ unapplied' = Applied /\ hand.ready # <<>>
      /\ hand' = [hand EXCEPT !.pc = "next", !.ready = Tail(@)]
      /\ UNCHANGED <<queued, due, bucket, throttled, stopped, allow, tier>>
  BY DEF Apply, LimitsInv, HandInv
<1>2. Tail(hand.ready) \in Seq(Batches) /\ EachOnce(Tail(hand.ready))
  BY <1>1, TailIs DEF LimitsInv, HandInv, Batches
<1>3. hand'.pc = "next" /\ hand'.ready = Tail(hand.ready) /\ HandInv'
  BY <1>1, <1>2 DEF LimitsInv, HandInv, Batches
<1>4. QueueInv'
  <2>1. ASSUME stopped \in {"run", "asked"}, NEW p \in Watched PROVE Applied[p] = queued[p] + InHand(p)'
    <3>1. unapplied[p] = queued[p] + InHand(p) /\ queued[p] \in Nat /\ unapplied[p] \in Int
      BY <2>1 DEF LimitsInv, QueueInv, EventsAccounted
    <3>2. unapplied[p] - InHand(p) = Applied[p] - InHand(p)' /\ Applied[p] \in Int
      BY <1>1, <1>3, AppliedIs DEF InHand
    <3>3. InHand(p) \in Int /\ InHand(p)' \in Int
      <4>1. \A r \in Seq(Batches) : EachOnce(r) => TakenFor(p, r) \in Int
        <5> SUFFICES ASSUME NEW r \in Seq(Batches), EachOnce(r) PROVE TakenFor(p, r) \in Int
          OBVIOUS
        <5>1. \A i \in DOMAIN r : r[i][2] \in Int
          BY MostAtOnceIs DEF Batches
        <5> QED
          BY <5>1, TakenForIs
      <4> QED
        BY <1>2, <1>3, <4>1 DEF InHand, LimitsInv, HandInv, Batches
    <3> QED
      BY <3>1, <3>2, <3>3
  <2> QED
    BY <1>1, <2>1, AppliedIs DEF LimitsInv, QueueInv, EventsAccounted
<1> QED
  BY <1>1, <1>3, <1>4, BucketKeeps DEF LimitsInv

(* _shutdown cancels the worker, and one more drain begins. *)
LEMMA ShutdownKeeps == ASSUME LimitsInv, _shutdown PROVE LimitsInv'
<1>1. /\ stopped' = "final" /\ hand' = [AtTop EXCEPT !.pc = "wait"]
      /\ unapplied' = IF hand.pc = "apply" THEN Applied ELSE unapplied
      /\ UNCHANGED <<queued, due, bucket, throttled, allow, tier>>
  BY DEF _shutdown
<1>2. hand' = [pc |-> "wait", ready |-> <<>>, left |-> 0]
  BY <1>1 DEF AtTop
<1>3. HandInv'
  BY <1>2 DEF HandInv, EachOnce
<1>4. unapplied' \in [Watched -> Int]
  BY <1>1, AppliedIs DEF LimitsInv, HandInv, QueueInv
<1>5. QueueInv'
  BY <1>1, <1>4 DEF LimitsInv, QueueInv, EventsAccounted
<1> QED
  BY <1>1, <1>2, <1>3, <1>5, BucketKeeps DEF LimitsInv

(* The rate never leaves the range from one to the baseline. *)
LEMMA ThrottleKeeps ==
    ASSUME LimitsInv, NEW cpu \in {"high", "between", "low"}, _maybe_self_throttle(cpu)
    PROVE  LimitsInv'
<1>1. /\ hand.pc = "top" /\ hand' = [hand EXCEPT !.pc = "wait"]
      /\ UNCHANGED <<queued, due, stopped, unapplied, allow, tier>>
  BY DEF _maybe_self_throttle
<1> DEFINE rate == CASE cpu = "high" /\ ~throttled -> Max({1, Baseline \div 2})
                     [] cpu = "low" /\ throttled -> Baseline
                     [] OTHER -> bucket.rate
<1>2. bucket' = [bucket EXCEPT !.rate = rate]
  BY DEF _maybe_self_throttle
<1>3. rate \in 1..Baseline
  <2>1. Baseline \in Nat \ {0} /\ bucket.rate \in 1..Baseline
    BY MostAtOnceIs DEF LimitsInv, BucketInv
  <2>2. Baseline \div 2 \in Nat /\ Baseline \div 2 <= Baseline
    BY <2>1
  <2>3. Max({1, Baseline \div 2}) \in 1..Baseline
    BY <2>1, <2>2, MaxOfTwo
  <2>4. Baseline \in 1..Baseline
    BY <2>1
  <2> QED
    BY <2>1, <2>3, <2>4
<1> HIDE DEF rate
<1>4. HandInv' /\ hand'.pc = "wait" /\ hand'.ready = hand.ready
  BY <1>1 DEF LimitsInv, HandInv
<1>5. QueueInv'
  BY <1>1, <1>4 DEF LimitsInv, QueueInv, EventsAccounted, InHand
<1>6. BucketInv'
  BY <1>1, <1>2, <1>3, <1>4 DEF LimitsInv, BucketInv
<1> QED
  BY <1>4, <1>5, <1>6 DEF LimitsInv

LEMMA NextBatchKeeps == ASSUME LimitsInv, NextBatch PROVE LimitsInv'
<1>1. /\ hand.pc = "next" /\ hand'.pc \in {"top", "acquire", "out"} /\ hand'.ready = hand.ready
      /\ HandInv' /\ stopped' \in {stopped, "done"}
      /\ UNCHANGED <<queued, due, bucket, throttled, unapplied, allow, tier>>
  BY DEF NextBatch, AtTop, LimitsInv, HandInv
<1>2. QueueInv'
  BY <1>1 DEF LimitsInv, QueueInv, EventsAccounted, InHand
<1> QED
  BY <1>1, <1>2, BucketKeeps DEF LimitsInv

(* Every step preserves the invariant. *)
LEMMA LimitsStep == LimitsInv /\ [LimitsNext \/ TierNext]_limvars => LimitsInv'
<1> SUFFICES ASSUME LimitsInv, [LimitsNext \/ TierNext]_limvars PROVE LimitsInv'
  OBVIOUS
<1>1. CASE UNCHANGED qvars
  BY <1>1 DEF qvars, LimitsInv, HandInv, QueueInv, BucketInv, EventsAccounted, InHand
<1>2. TierNext => UNCHANGED qvars
  BY DEF TierNext, Day, RootChanges, QueueChanges, Ticks, _cleanup_tick, note_query, add_project, Tier
<1>3. CASE LimitsNext
  <2>1. CASE stop
    <3>1. CASE Watched = {}
      BY <2>1, <3>1 DEF stop, LimitsInv, HandInv, QueueInv, BucketInv, EventsAccounted
    <3> QED
      BY <2>1, <3>1, IntakeKeeps
  <2> QED
    BY <1>3, <2>1, SecondKeeps, ShutdownKeeps, ThrottleKeeps, DrainKeeps, NextBatchKeeps, AcquireKeeps,
       ApplyKeeps, IntakeKeeps DEF LimitsNext, WorkerSteps
<1> QED
  BY <1>1, <1>2, <1>3 DEF limvars, qvars

(* However batches, sleeps and changes of the rate fall: no event is lost    *)
(* between its queue and the indexer, and no more of them get through than   *)
(* the bucket allows.                                                        *)
THEOREM LimitsForAll == LimitsSpec => []LimitsHold
<1>1. LimitsInit => LimitsInv
  <2> SUFFICES ASSUME LimitsInit PROVE LimitsInv
    OBVIOUS
  <2> USE MostAtOnceIs DEF LimitsInit
  <2>1. hand = [pc |-> "top", ready |-> <<>>, left |-> 0]
    BY DEF AtTop
  <2>2. HandInv
    BY <2>1 DEF HandInv, EachOnce
  <2>3. \A p \in Watched : InHand(p) = 0
    <3>1. <<>> \in Seq(Batches) /\ EachOnce(<<>>) /\ DOMAIN <<>> = {} /\ hand.ready = <<>>
      BY <2>1 DEF EachOnce
    <3> HIDE <2>1 DEF LimitsInit
    <3> QED
      BY <3>1, TakenForIs DEF InHand
  <2>4. QueueInv
    BY <2>3, LimitsAssumption DEF QueueInv, EventsAccounted
  <2>5. BucketInv
    BY <2>1 DEF BucketInv
  <2> QED
    BY <2>2, <2>4, <2>5 DEF LimitsInv
<1>2. LimitsInv => LimitsHold
  BY MostAtOnceIs DEF LimitsInv, QueueInv, BucketInv, LimitsHold, RateBounded
<1> QED
  BY <1>1, <1>2, LimitsStep, PTL DEF LimitsSpec

-----------------------------------------------------------------------------
(* The BM25 cache.  With a single writer thread it never serves a stale      *)
(* index once writes have returned, and never takes over a pickle that does  *)
(* not describe the table: for tables of every size.                         *)

(* "Phase 2.0 ships single-writer" (sqlite_store.py). *)
SingleWriter == \A u, v \in Writers : u = v

(* A table is a function from some of the ids to hashes. *)
LEMMA TableLemma ==
    ASSUME NEW f
    PROVE  f \in Table <=> /\ DOMAIN f \subseteq 1..MaxId
                           /\ f \in [DOMAIN f -> Hashes]
<1>1. ASSUME f \in Table
      PROVE  DOMAIN f \subseteq 1..MaxId /\ f \in [DOMAIN f -> Hashes]
  <2>1. PICK ids \in SUBSET (1..MaxId) : f \in [ids -> Hashes]
    BY <1>1 DEF Table
  <2> QED
    BY <2>1
<1>2. ASSUME DOMAIN f \subseteq 1..MaxId, f \in [DOMAIN f -> Hashes]
      PROVE  f \in Table
  BY <1>2 DEF Table
<1> QED
  BY <1>1, <1>2

(* A fresh store satisfies the invariant. *)
LEMMA InitIInv == Init => IInv
<1> SUFFICES ASSUME Init PROVE IInv
  OBVIOUS
<1>1. chunks \in Table
  BY TableLemma DEF Init
<1> QED
  BY <1>1 DEF Init, IInv, TypeOK, CleanMeansCurrent, CacheAgrees, PickleHonest

(* The pickle of an index that agrees with the table is honest: its digest   *)
(* has, for every id, the hash of the text it was built from, or none.       *)
LEMMA PickleLemma ==
    ASSUME NEW b \in Table, chunks \in Table, AgreeWithTable(b)
    PROVE  /\ Pickle(b).corpus = b
           /\ Pickle(b).digest \in [DOMAIN b -> Hashes \cup {NoHash}]
           /\ \A i \in DOMAIN b : Pickle(b).digest[i] \in {b[i], NoHash}
<1>1. \A i \in DOMAIN chunks : chunks[i] \in Hashes
  BY TableLemma
<1> QED
  BY <1>1 DEF Pickle, AgreeWithTable

(* A write of the only writer starts from a current index; afterwards index  *)
(* and table still agree on the ids they share, since ids that exist are     *)
(* never rewritten.                                                          *)
LEMMA WriteStep ==
    ASSUME SingleWriter, IInv, NEW w \in Writers,
           Unlocked, w \notin flagging, flagging' = flagging \cup {w},
           chunks' \in Table,
           \A i \in DOMAIN chunks \cap DOMAIN chunks' : chunks'[i] = chunks[i],
           UNCHANGED <<bm25, dirty, pickle, corpus, open>>
    PROVE  IInv'
<1>1. flagging = {}
  BY DEF SingleWriter, IInv, TypeOK
<1>2. TypeOK'
  BY DEF IInv, TypeOK
<1>3. CleanMeansCurrent'
  BY DEF CleanMeansCurrent
<1>4. CacheAgrees'
  <2>1. ASSUME open, ~dirty, bm25 # None PROVE AgreeWithTable(bm25)'
    <3>1. bm25 = chunks
      BY <1>1, <2>1 DEF IInv, CleanMeansCurrent
    <3> QED
      BY <3>1 DEF AgreeWithTable
  <2> QED
    BY <2>1 DEF CacheAgrees, Unlocked
<1>5. PickleHonest' /\ (~open => flagging = {})'
  BY DEF IInv, PickleHonest, Unlocked
<1> QED
  BY <1>2, <1>3, <1>4, <1>5 DEF IInv

(* Every step of the cache preserves the invariant. *)
LEMMA NextIInv == ASSUME SingleWriter PROVE IInv /\ [Next]_vars => IInv'
<1> SUFFICES ASSUME IInv, [Next]_vars PROVE IInv'
  OBVIOUS
<1>0. chunks \in Table /\ (bm25 # None => bm25 \in Table)
  BY DEF IInv, TypeOK
<1>1. ASSUME NEW w \in Writers, NEW n \in 1..2, NEW hs \in [1..n -> Hashes],
             upsert_chunks(w, n, hs)
      PROVE  IInv'
  <2>1. PICK id \in 1 .. MaxId - n + 1 :
          chunks' = [i \in DOMAIN chunks \cup (id .. id + n - 1) |->
                       IF i \in DOMAIN chunks THEN chunks[i] ELSE hs[i - id + 1]]
    BY <1>1 DEF upsert_chunks
  <2>2. id .. id + n - 1 \subseteq 1..MaxId
    BY MaxIdAssumption
  <2>3. \A i \in id .. id + n - 1 : hs[i - id + 1] \in Hashes
    OBVIOUS
  <2>4. DOMAIN chunks \subseteq 1..MaxId /\ chunks \in [DOMAIN chunks -> Hashes]
    BY <1>0, TableLemma
  <2>5. /\ DOMAIN chunks' \subseteq 1..MaxId /\ chunks' \in [DOMAIN chunks' -> Hashes]
        /\ \A i \in DOMAIN chunks : chunks'[i] = chunks[i]
    BY <2>1, <2>2, <2>3, <2>4
  <2>6. chunks' \in Table
    BY <2>5, TableLemma
  <2> QED
    BY <1>1, <2>5, <2>6, WriteStep DEF upsert_chunks
<1>2. ASSUME NEW w \in Writers, NEW ids \in SUBSET DOMAIN chunks, delete_chunks(w, ids)
      PROVE  IInv'
  <2>1. chunks' = [i \in DOMAIN chunks \ ids |-> chunks[i]]
    BY <1>2 DEF delete_chunks
  <2>2. DOMAIN chunks \subseteq 1..MaxId /\ chunks \in [DOMAIN chunks -> Hashes]
    BY <1>0, TableLemma
  <2>3. DOMAIN chunks' \subseteq 1..MaxId /\ chunks' \in [DOMAIN chunks' -> Hashes]
    BY <2>1, <2>2
  <2>4. chunks' \in Table
    BY <2>3, TableLemma
  <2> QED
    BY <1>2, <2>1, <2>4, WriteStep DEF delete_chunks
<1>3. ASSUME NEW w \in Writers, SetDirty(w)
      PROVE  IInv'
  <2> USE <1>3 DEF SetDirty, IInv
  <2>1. TypeOK'
    BY DEF TypeOK
  <2>2. CleanMeansCurrent' /\ CacheAgrees'
    BY DEF CleanMeansCurrent, CacheAgrees
  <2> QED
    BY <2>1, <2>2 DEF PickleHonest
<1>4. CASE RebuildRead
  <2> USE <1>4 DEF RebuildRead, IInv
  <2>1. TypeOK'
    BY DEF TypeOK
  <2>2. CleanMeansCurrent' /\ CacheAgrees'
    BY DEF CleanMeansCurrent, CacheAgrees, Unlocked, AgreeWithTable
  <2> QED
    BY <2>1, <2>2 DEF PickleHonest
<1>5. CASE RebuildInstall
  <2> USE <1>5 DEF RebuildInstall, IInv
  <2>1. corpus = chunks
    BY DEF CacheAgrees
  <2>2. AgreeWithTable(corpus)
    BY <2>1 DEF AgreeWithTable
  <2>3. bm25' \in {corpus, None} /\ (pickle' = pickle \/ pickle' = Pickle(corpus))
    OBVIOUS
  <2>4. /\ Pickle(corpus).corpus = corpus
        /\ Pickle(corpus).digest \in [DOMAIN corpus -> Hashes \cup {NoHash}]
        /\ \A i \in DOMAIN corpus : Pickle(corpus).digest[i] \in {corpus[i], NoHash}
    BY <1>0, <2>1, <2>2, PickleLemma
  <2>5. TypeOK'
    BY <1>0, <2>1, <2>3, <2>4 DEF TypeOK
  <2>6. CleanMeansCurrent'
    BY <2>1, <2>3 DEF CleanMeansCurrent
  <2>7. CacheAgrees'
    BY <2>1, <2>2, <2>3 DEF CacheAgrees, AgreeWithTable
  <2>8. PickleHonest'
    BY <2>3, <2>4 DEF PickleHonest
  <2> QED
    BY <2>5, <2>6, <2>7, <2>8
<1>6. CASE invalidate_lexical
  <2> USE <1>6 DEF invalidate_lexical, IInv
  <2>1. TypeOK'
    BY DEF TypeOK
  <2>2. CleanMeansCurrent' /\ CacheAgrees'
    BY DEF CleanMeansCurrent, CacheAgrees
  <2> QED
    BY <2>1, <2>2 DEF PickleHonest
<1>7. CASE close
  <2> USE <1>7 DEF close, IInv
  <2>1. ASSUME bm25 # None, ~dirty
        PROVE  /\ pickle' = Pickle(bm25) /\ Pickle(bm25).corpus = bm25
               /\ Pickle(bm25).digest \in [DOMAIN bm25 -> Hashes \cup {NoHash}]
               /\ \A i \in DOMAIN bm25 : Pickle(bm25).digest[i] \in {bm25[i], NoHash}
    <3>1. AgreeWithTable(bm25)
      BY <2>1 DEF CacheAgrees, Unlocked
    <3> QED
      BY <1>0, <2>1, <3>1, PickleLemma
  <2>2. TypeOK'
    BY <1>0, <2>1 DEF TypeOK
  <2>3. CleanMeansCurrent' /\ CacheAgrees'
    BY DEF CleanMeansCurrent, CacheAgrees, Unlocked
  <2>4. PickleHonest'
    BY <2>1 DEF PickleHonest
  <2> QED
    BY <2>2, <2>3, <2>4
<1>8. CASE Crash
  <2> USE <1>8 DEF Crash, IInv
  <2>1. TypeOK'
    BY DEF TypeOK
  <2>2. CleanMeansCurrent' /\ CacheAgrees'
    BY DEF CleanMeansCurrent, CacheAgrees
  <2> QED
    BY <2>1, <2>2 DEF PickleHonest
<1>9. CASE _load_bm25_if_valid
  <2> USE <1>9 DEF _load_bm25_if_valid, IInv
  <2>1. PickleValid => pickle.corpus = chunks
    <3> SUFFICES ASSUME PickleValid PROVE pickle.corpus = chunks
      OBVIOUS
    <3>1. pickle.corpus \in [DOMAIN chunks -> Hashes] /\ chunks \in [DOMAIN chunks -> Hashes]
      BY <1>0, TableLemma DEF PickleValid, TypeOK
    <3>2. \A i \in DOMAIN chunks : chunks[i] \in {pickle.corpus[i], NoHash}
      BY DEF PickleValid, PickleHonest
    <3>3. \A i \in DOMAIN chunks : chunks[i] = pickle.corpus[i]
      BY <3>1, <3>2, NoHashAssumption
    <3> QED
      BY <3>1, <3>3
  <2>2. TypeOK'
    BY <1>0, <2>1 DEF TypeOK
  <2>3. CleanMeansCurrent' /\ CacheAgrees'
    BY <2>1 DEF CleanMeansCurrent, CacheAgrees, AgreeWithTable
  <2> QED
    BY <2>2, <2>3 DEF PickleHonest
<1>10. CASE UNCHANGED vars
  BY <1>10 DEF vars, IInv, TypeOK, CleanMeansCurrent, CacheAgrees, AgreeWithTable, PickleHonest
<1> QED
  BY <1>1, <1>2, <1>3, <1>4, <1>5, <1>6, <1>7, <1>8, <1>9, <1>10 DEF Next

(* With one writer, an index that a search uses as it is describes the       *)
(* table, unless a write is just returning.                                  *)
THEOREM CleanIndexIsCurrent == ASSUME SingleWriter PROVE Spec => []CleanMeansCurrent
<1>1. IInv => CleanMeansCurrent
  BY DEF IInv
<1>2. IInv /\ [Next]_vars => IInv'
  BY NextIInv
<1> QED
  BY InitIInv, <1>1, <1>2, PTL DEF Spec

(* With one writer, a pickle that passes validation describes the table,     *)
(* although close() pairs the index with hashes it reads afterwards.         *)
THEOREM PickleIsCurrent == ASSUME SingleWriter PROVE Spec => []ValidPickleIsCurrent
<1>1. IInv => ValidPickleIsCurrent
  <2> SUFFICES ASSUME IInv, PickleValid PROVE pickle.corpus = chunks
    BY DEF ValidPickleIsCurrent
  <2>1. pickle.corpus \in [DOMAIN chunks -> Hashes] /\ chunks \in [DOMAIN chunks -> Hashes]
    BY TableLemma DEF PickleValid, IInv, TypeOK
  <2>2. \A i \in DOMAIN chunks : chunks[i] \in {pickle.corpus[i], NoHash}
    BY DEF PickleValid, IInv, PickleHonest
  <2>3. \A i \in DOMAIN chunks : chunks[i] = pickle.corpus[i]
    BY <2>1, <2>2, NoHashAssumption
  <2> QED
    BY <2>1, <2>3
<1>2. IInv /\ [Next]_vars => IInv'
  BY NextIInv
<1> QED
  BY InitIInv, <1>1, <1>2, PTL DEF Spec

(* The two together: with one writer, lexical search never trusts an index   *)
(* of another table than the one it serves.                                  *)
THEOREM LexicalStaysCurrent == ASSUME SingleWriter PROVE Spec => []LexicalIsCurrent
BY CleanIndexIsCurrent, PickleIsCurrent, PTL DEF LexicalIsCurrent

-----------------------------------------------------------------------------
(* The watcher of a parent directory *)

(* Every probe, change and batch preserves the invariant. *)
LEMMA WatchStep == KnownInv /\ [WatchNext]_wvars => KnownInv'
<1> SUFFICES ASSUME KnownInv, [WatchNext]_wvars PROVE KnownInv'
  OBVIOUS
<1> USE SubdirsAssumption DEF KnownInv, is_project_root
<1>1. CASE UNCHANGED wvars
  BY <1>1 DEF wvars
<1>2. ASSUME NEW d \in Subdirs, discover_projects(d) PROVE KnownInv'
  BY <1>2 DEF discover_projects
<1>3. ASSUME NEW d \in Subdirs, Touch(d) PROVE KnownInv'
  BY <1>3 DEF Touch
<1>4. ASSUME NEW d \in Subdirs, _reconcile_basename(d) PROVE KnownInv'
  BY <1>4 DEF _reconcile_basename
<1>5. CASE OpenStream
  BY <1>5 DEF OpenStream
<1>6. CASE _affected_basenames
  BY <1>6 DEF _affected_basenames
<1>7. CASE StopWatching
  BY <1>7 DEF StopWatching
<1> QED
  BY <1>1, <1>2, <1>3, <1>4, <1>5, <1>6, <1>7 DEF WatchNext

(* For any directory, any rules of discovery and of the stream, and any order *)
(* of changes and batches: what is settled and not refused is known for what  *)
(* it is on disk.                                                             *)
THEOREM KnownForAll == WatchSpec => []KnownFollowsDisk
<1>1. WatchInit => KnownInv
  BY DEF WatchInit, KnownInv, is_project_root
<1>2. KnownInv => KnownFollowsDisk
  BY DEF KnownInv, KnownFollowsDisk
<1> QED
  BY <1>1, <1>2, WatchStep, PTL DEF WatchSpec

-----------------------------------------------------------------------------
(* The replay log *)

(* The record that comes next is the greatest. *)
LEMMA RecordKeeps == ASSUME LogInv, record PROVE LogInv'
<1>1. /\ written \in Nat /\ active \in Seq(Nat) /\ active' = Append(active, written + 1)
      /\ written' = written + 1 /\ rotating = "no"
      /\ UNCHANGED <<shards, rotating, fp, faults>>
  BY DEF LogInv, record
<1>2. active' \in Seq(Nat) /\ Range(active') = Range(active) \cup {written + 1}
  BY <1>1, AppendRange
<1>3. Range(active) \subseteq 1..written
  BY DEF LogInv, NoRecordLost
<1>4. InOrder(active')
  <2>1. \A i \in DOMAIN active : active[i] \in Nat /\ active[i] < written + 1
    <3> SUFFICES ASSUME NEW i \in DOMAIN active PROVE active[i] \in Nat /\ active[i] < written + 1
      OBVIOUS
    <3>1. active[i] \in 1..written
      BY <1>3 DEF Range
    <3> QED
      BY <1>1, <3>1
  <2>2. \A i \in DOMAIN active' : (i \in DOMAIN active /\ active'[i] = active[i])
                                  \/ (i = Len(active) + 1 /\ active'[i] = written + 1)
    BY <1>1
  <2>3. Len(active) \in Nat /\ \A i \in DOMAIN active : i < Len(active) + 1 /\ i \in Nat
    BY <1>1
  <2>4. InOrder(active)
    BY DEF LogInv, NoRecordLost
  <2> QED
    BY <1>1, <2>1, <2>2, <2>3, <2>4 DEF InOrder
<1>5. 1..(written + 1) = (1..written) \cup {written + 1} /\ written + 1 \in Nat
  BY <1>1
<1>6. Range(active') \cup UNION {Range(s) : s \in Range(shards)} = 1..written'
  BY <1>1, <1>2, <1>5 DEF LogInv, NoRecordLost
<1>7. /\ written' \in Nat /\ shards' = shards /\ shards \in Seq(Seq(Nat)) /\ rotating' = "no"
      /\ \A s \in Range(shards) : InOrder(s)
  BY <1>1, <1>5 DEF LogInv, NoRecordLost
<1> QED
  BY <1>2, <1>4, <1>6, <1>7 DEF LogInv, NoRecordLost

(* The shard is a copy of the file. *)
LEMMA ZipKeeps == ASSUME LogInv, RotateZip PROVE LogInv'
<1>1. /\ shards \in Seq(Seq(Nat)) /\ active \in Seq(Nat) /\ shards' = Append(shards, active)
      /\ rotating' = "zipped" /\ active' = active /\ written' = written
  BY DEF LogInv, RotateZip
<1>2. shards' \in Seq(Seq(Nat)) /\ Range(shards') = Range(shards) \cup {active}
  BY <1>1, AppendRange
<1>3. UNION {Range(s) : s \in Range(shards')} = Range(active) \cup UNION {Range(s) : s \in Range(shards)}
  BY <1>2
<1>4. NoRecordLost'
  BY <1>1, <1>2, <1>3 DEF LogInv, NoRecordLost
<1> QED
  BY <1>1, <1>2, <1>4 DEF LogInv

(* Every step of a rotation, and a crash in it, preserves the invariant.     *)
LEMMA LogStep == LogInv /\ [LogNext]_lvars => LogInv'
<1> SUFFICES ASSUME LogInv, [LogNext]_lvars PROVE LogInv'
  OBVIOUS
<1>1. CASE UNCHANGED lvars
  BY <1>1 DEF lvars, LogInv, NoRecordLost
<1>2. CASE RotateUnlink
  <2>1. active' = <<>> /\ active' \in Seq(Nat) /\ DOMAIN active' = {}
    BY <1>2 DEF RotateUnlink
  <2>2a. Range(active') = {} /\ InOrder(active')
    BY <2>1, Zenon DEF Range, InOrder
  <2>2. Range(active) \subseteq UNION {Range(s) : s \in Range(shards)}
    BY <1>2 DEF RotateUnlink, LogInv
  <2> QED
    BY <1>2, <2>1, <2>2a, <2>2 DEF RotateUnlink, LogInv, NoRecordLost
<1>3. CASE RotateClose \/ RotateFails \/ _open \/ CrashRestart
  BY <1>3 DEF RotateClose, RotateFails, _open, CrashRestart, LogInv, NoRecordLost
<1> QED
  BY <1>1, <1>2, <1>3, RecordKeeps, ZipKeeps DEF LogNext

(* For every size of the log and any crashes: each record that was written   *)
(* is in the file or in a complete shard, in order.                          *)
THEOREM NoRecordLostForAll == LogSpec => []NoRecordLost
<1>1. LogInit => LogInv
  <2> SUFFICES ASSUME LogInit PROVE LogInv
    OBVIOUS
  <2>1. active \in Seq(Nat) /\ shards \in Seq(Seq(Nat)) /\ DOMAIN active = {} /\ DOMAIN shards = {}
    BY DEF LogInit
  <2>2. Range(active) = {} /\ Range(shards) = {} /\ InOrder(active)
    BY <2>1, Zenon DEF Range, InOrder
  <2> QED
    BY <2>1, <2>2 DEF LogInit, LogInv, NoRecordLost
<1>2. LogInv => NoRecordLost
  BY DEF LogInv
<1> QED
  BY <1>1, <1>2, LogStep, PTL DEF LogSpec

-----------------------------------------------------------------------------
(* Projects and sessions *)

(* The names are as many as the roots, at most. *)
LEMMA NamesFinite == IsFiniteSet(Names)
<1> DEFINE f == [r \in Roots |-> NameOf[r]]
<1>1. f \in Surjection(Roots, Names)
  BY DEF Names, Surjection
<1> QED
  BY <1>1, FS_Surjection, ProjectsAssumption

(* A search that names nothing goes where its connection is pinned, or       *)
(* everywhere.                                                               *)
LEMMA SearchesWherePinned ==
    ASSUME NEW indexed, IsFiniteSet(indexed), NEW sticky
    PROVE  _scope_to_filter(SearchScope(Plain, NoCwd, NoProject, sticky, SetToSeq(indexed))) =
             IF sticky # NoProject THEN [all |-> FALSE, projects |-> {sticky}]
             ELSE [all |-> indexed = {}, projects |-> indexed]
<1> DEFINE s == SetToSeq(indexed)
<1>1. s \in Seq(indexed) /\ \A x \in indexed : \E i \in DOMAIN s : s[i] = x
  BY SetToSeqIs
<1> HIDE DEF s
<1>2. Range(s) = indexed
  BY <1>1 DEF Range
<1>3. (s = <<>>) <=> (indexed = {})
  BY <1>1
<1>4. {n \in Range(s) : Mentioned(Plain, n)} = {}
  BY DEF Mentioned, Plain
<1>5. SearchScope(Plain, NoCwd, NoProject, sticky, s) =
        IF sticky # NoProject THEN Decision(sticky, "active_project_sticky", <<sticky>>)
        ELSE Decision(NoProject, "fanout_no_primary", s)
  BY <1>4, Zenon DEF SearchScope, decide_scope
<1>6. ASSUME NEW p, NEW source, NEW fanout
      PROVE  _scope_to_filter(Decision(p, source, fanout)) =
               IF fanout = <<>> THEN [all |-> TRUE, projects |-> {}]
               ELSE [all |-> FALSE, projects |-> Range(fanout)]
  BY DEF _scope_to_filter, Decision
<1>7. CASE sticky # NoProject
  <2>1. <<sticky>> # <<>> /\ Range(<<sticky>>) = {sticky}
    BY DEF Range
  <2>2. SearchScope(Plain, NoCwd, NoProject, sticky, s) =
          Decision(sticky, "active_project_sticky", <<sticky>>)
    BY <1>5, <1>7, Zenon
  <2>3. _scope_to_filter(SearchScope(Plain, NoCwd, NoProject, sticky, s)) =
          [all |-> FALSE, projects |-> {sticky}]
    BY <1>6, <2>1, <2>2, Zenon
  <2> QED
    BY <1>7, <2>3 DEF s
<1>8. CASE sticky = NoProject
  <2>1. SearchScope(Plain, NoCwd, NoProject, sticky, s) = Decision(NoProject, "fanout_no_primary", s)
    BY <1>5, <1>8, Zenon
  <2>2. _scope_to_filter(SearchScope(Plain, NoCwd, NoProject, sticky, s)) =
          IF s = <<>> THEN [all |-> TRUE, projects |-> {}] ELSE [all |-> FALSE, projects |-> indexed]
    BY <1>2, <1>6, <2>1, Zenon
  <2>3. _scope_to_filter(SearchScope(Plain, NoCwd, NoProject, sticky, s)) =
          [all |-> indexed = {}, projects |-> indexed]
    <3>1. CASE indexed = {}
      BY <1>3, <2>2, <3>1
    <3>2. CASE indexed # {}
      BY <1>3, <2>2, <3>2
    <3> QED
      BY <3>1, <3>2
  <2> QED
    BY <1>8, <2>3 DEF s
<1> QED
  BY <1>7, <1>8

(* What a session does to the contexts. *)
LEMMA SessionStep ==
    ASSUME ProjectsInv, NEW c \in Conns
    PROVE  /\ handle_sse(c) => SessionsInv'
           /\ Disconnect(c) => SessionsInv'
           /\ \A n \in Names : _handle_set_active_project(c, n) => SessionsInv'
           /\ \A r \in Roots : _maybe_auto_learn_cwd(c, r) => SessionsInv'
<1> USE DEF SessionsInv, Open
<1> DEFINE Context == [sticky : Names \cup {NoProject}, touched : SUBSET Roots]
<1>0. SessionsInv /\ ctx \in [DOMAIN ctx -> Context]
  BY DEF ProjectsInv
<1> HIDE DEF Context
<1>1. ASSUME handle_sse(c) PROVE SessionsInv'
  <2>1. NoContext \in Context /\ NoContext.sticky = NoProject
    BY DEF NoContext, Context
  <2>2. ctx' = [y \in DOMAIN ctx \cup {c} |-> IF y = c THEN NoContext ELSE ctx[y]] /\ pinned' = pinned /\ c \notin DOMAIN ctx
    BY <1>1 DEF handle_sse, Put
  <2>3. DOMAIN ctx' = DOMAIN ctx \cup {c} /\ ctx' \in [DOMAIN ctx' -> Context]
    BY <1>0, <2>1, <2>2
  <2> QED
    BY <1>0, <2>1, <2>2, <2>3 DEF Context
<1>2. ASSUME Disconnect(c) PROVE SessionsInv'
  BY <1>0, <1>2 DEF Disconnect, Drop, Context
<1>3. ASSUME NEW n \in Names, _handle_set_active_project(c, n) PROVE SessionsInv'
  <2>1. [ctx[c] EXCEPT !.sticky = n] \in Context /\ [ctx[c] EXCEPT !.sticky = n].sticky = n
    BY <1>0, <1>3 DEF _handle_set_active_project, Context
  <2>2. ctx' = [ctx EXCEPT ![c] = [ctx[c] EXCEPT !.sticky = n]] /\ c \in DOMAIN ctx /\ pinned' = [pinned EXCEPT ![c] = n]
    BY <1>3 DEF _handle_set_active_project, _session_state
  <2> QED
    BY <1>0, <2>1, <2>2 DEF Context
<1>4. ASSUME NEW r \in Roots, _maybe_auto_learn_cwd(c, r) PROVE SessionsInv'
  <2> DEFINE new == [ctx[c] EXCEPT !.touched = @ \cup {r}]
  <2>1. new \in Context /\ new.sticky = ctx[c].sticky
    BY <1>0, <1>4 DEF _maybe_auto_learn_cwd, Context
  <2>2. ctx' = [ctx EXCEPT ![c] = new] /\ c \in DOMAIN ctx /\ pinned' = pinned
    BY <1>4 DEF _maybe_auto_learn_cwd, _session_state
  <2> HIDE DEF new
  <2> QED
    BY <1>0, <2>1, <2>2 DEF Context
<1> QED
  BY <1>1, <1>2, <1>3, <1>4

(* Nothing that is no session's step touches the contexts. *)
LEMMA OthersKeepSessions ==
    ASSUME SessionsInv, UNCHANGED <<ctx, pinned>>
    PROVE  SessionsInv'
BY DEF SessionsInv, Open

(* A registration: the record, what was asked for and a scan at its start. *)
LEMMA RegisterKeeps ==
    ASSUME ProjectsInv, NEW r \in Roots, NEW session \in Conns \cup {NoSession},
           NameOf[r] \notin DOMAIN reg, Register(r, session), UNCHANGED <<disk, plan, late>>
    PROVE  TableInv' /\ ScansInv' /\ RegistryAsAsked'
<1> DEFINE n == NameOf[r]
           rec == [root |-> r, session |-> session, scanned |-> FALSE]
           new == [name |-> n, at |-> "start", rec |-> [root |-> n]]
<1>1. n \in Names /\ rec \in ProjectRecord /\ new \in Scan /\ new.at = "start"
      /\ rec.root = r /\ rec.session = session
  BY DEF Names, ProjectRecord, Scan
<1>2. /\ reg' = [y \in DOMAIN reg \cup {n} |-> IF y = n THEN rec ELSE reg[y]]
      /\ asked' = [y \in DOMAIN asked \cup {n} |-> IF y = n THEN [root |-> r, session |-> session] ELSE asked[y]]
      /\ scans' = Append(scans, new) /\ n \notin DOMAIN reg
  BY DEF Register, Put, _launch_full_scan
<1> HIDE DEF n, rec, new
<1>3. TableInv'
  BY <1>1, <1>2 DEF ProjectsInv, TableInv
<1>4. ScansInv'
  <2>1. scans \in Seq(Scan) /\ scans' \in Seq(Scan)
    BY <1>1, <1>2 DEF ProjectsInv, ScansInv
  <2>2. \A i \in DOMAIN scans' : (i \in DOMAIN scans /\ scans'[i] = scans[i]) \/ scans'[i] = new
    BY <1>2, <2>1
  <2>3. \A i \in DOMAIN scans : WritesBackSame(scans[i])'
    BY <1>2, UNCHANGED late DEF ProjectsInv, ScansInv, WritesBackSame
  <2>4. new.at = "start"
    BY <1>1
  <2> QED
    BY <2>1, <2>2, <2>3, <2>4 DEF ScansInv, WritesBackSame
<1>5. RegistryAsAsked'
  BY <1>1, <1>2 DEF ProjectsInv, RegistryAsAsked
<1> QED
  BY <1>3, <1>4, <1>5

(* A removal: from the registry and from what was asked for, and the scans   *)
(* that hold the record are known to be late.                                *)
LEMMA DeleteKeeps ==
    ASSUME ProjectsInv, NEW n \in Names, delete_project(n), UNCHANGED <<disk, scans>>, plan' \subseteq plan
    PROVE  TableInv' /\ ScansInv' /\ RegistryAsAsked'
<1>1. /\ reg' = [y \in DOMAIN reg \ {n} |-> reg[y]] /\ asked' = [y \in DOMAIN asked \ {n} |-> asked[y]]
      /\ late' = IF Scanning(n) THEN late \cup {n} ELSE late \ {n}
  BY DEF delete_project, Drop
<1>2. TableInv'
  BY <1>1 DEF ProjectsInv, TableInv
<1>3. ScansInv'
  <2>1. ASSUME NEW i \in DOMAIN scans PROVE WritesBackSame(scans[i])'
    <3>1. WritesBackSame(scans[i])
      BY DEF ProjectsInv, ScansInv
    <3>2. (scans[i].name = n /\ scans[i].at # "start") => n \in late'
      BY <1>1 DEF Scanning
    <3> QED
      BY <1>1, <3>1, <3>2 DEF WritesBackSame
  <2> QED
    BY <2>1 DEF ProjectsInv, ScansInv
<1>4. RegistryAsAsked'
  BY <1>1 DEF ProjectsInv, RegistryAsAsked
<1> QED
  BY <1>2, <1>3, <1>4

(* A scan that ends leaves the others as they are. *)
LEMMA EndScanKeeps ==
    ASSUME ScansInv, NEW k \in DOMAIN scans, EndScan(k),
           \A old \in Range(scans) : WritesBackSame(old)'
    PROVE  ScansInv'
<1>1. scans \in Seq(Scan) /\ scans' = RemoveAt(scans, k)
  BY DEF ScansInv, EndScan
<1>2. scans' \in Seq(Scan) /\ \A i \in DOMAIN scans' : \E j \in DOMAIN scans : scans'[i] = scans[j]
  BY <1>1, RemoveAtOf
<1>3. \A i \in DOMAIN scans' : scans'[i] \in Range(scans)
  BY <1>2 DEF Range
<1> QED
  BY <1>2, <1>3 DEF ScansInv, WritesBackSame

(* A scan that goes on holds what it read. *)
LEMMA SetScanKeeps ==
    ASSUME ScansInv, NEW k \in DOMAIN scans, NEW scan \in Scan, SetScan(k, scan),
           UNCHANGED <<reg, asked, late>>, WritesBackSame(scan)
    PROVE  ScansInv'
<1>1. scans \in Seq(Scan) /\ scans' = [scans EXCEPT ![k] = scan]
  BY DEF ScansInv, SetScan
<1>2. scans' \in Seq(Scan) /\ DOMAIN scans' = DOMAIN scans
      /\ \A i \in DOMAIN scans : scans'[i] = IF i = k THEN scan ELSE scans[i]
  BY <1>1
<1>3. \A i \in DOMAIN scans : WritesBackSame(scans[i])
  BY DEF ScansInv
<1> QED
  BY <1>2, <1>3 DEF ScansInv, WritesBackSame

(* The steps of a scan. *)
LEMMA ScanKeeps ==
    ASSUME ProjectsInv, NEW k \in DOMAIN scans, ScanStart(k) \/ ScanFiles(k) \/ ScanRaises(k) \/ ScanEnd(k)
    PROVE  TableInv' /\ ScansInv' /\ RegistryAsAsked'
<1>1. /\ TableInv /\ ScansInv /\ RegistryAsAsked /\ scans \in Seq(Scan) /\ scans[k] \in Scan
      /\ \A old \in Range(scans) : WritesBackSame(old)
      /\ scans[k] \in Range(scans)
  BY DEF ProjectsInv, ScansInv, Range
<1> DEFINE scan == scans[k]
<1>2. ASSUME UNCHANGED <<reg, disk, plan, asked, late>>
      PROVE  TableInv' /\ RegistryAsAsked' /\ \A old \in Range(scans) : WritesBackSame(old)'
  BY <1>1, <1>2 DEF TableInv, RegistryAsAsked, WritesBackSame
<1>3. CASE ScanStart(k)
  <2>1. UNCHANGED <<reg, disk, plan, asked, late>> /\ scan.at = "start"
    BY <1>3 DEF ScanStart, table
  <2>2. CASE scan.name \notin DOMAIN reg
    BY <1>1, <1>2, <1>3, <2>1, <2>2, EndScanKeeps DEF ScanStart
  <2>3. CASE scan.name \in DOMAIN reg
    <3> DEFINE next == [scan EXCEPT !.at = "files", !.rec = reg[scan.name]]
    <3>1. SetScan(k, next) /\ reg[scan.name] \in ProjectRecord
      BY <1>1, <1>3, <2>3 DEF ScanStart, TableInv
    <3>2. next \in Scan /\ next.at = "files" /\ next.name = scan.name /\ next.rec = reg[scan.name]
      BY <1>1, <3>1 DEF Scan
    <3> HIDE DEF next, scan
    <3>3. WritesBackSame(next)
      BY <2>3, <3>1, <3>2 DEF WritesBackSame
    <3>4. ScansInv'
      BY <1>1, <2>1, <3>1, <3>2, <3>3, SetScanKeeps
    <3> QED
      BY <1>2, <2>1, <3>4
  <2> QED
    BY <2>2, <2>3
<1>4. CASE ScanFiles(k)
  <2>1. UNCHANGED <<reg, disk, plan, asked, late>> /\ scan.at = "files"
    BY <1>4 DEF ScanFiles, table
  <2>2. CASE EndScan(k)
    BY <1>1, <1>2, <2>1, <2>2, EndScanKeeps
  <2>3. CASE SetScan(k, [scan EXCEPT !.at = "end"])
    <3> DEFINE next == [scan EXCEPT !.at = "end"]
    <3>1. next \in Scan /\ next.at = "end" /\ next.name = scan.name /\ next.rec = scan.rec
      BY <1>1 DEF Scan
    <3>2. WritesBackSame(scan)
      BY <1>1
    <3> HIDE DEF next
    <3>3. WritesBackSame(next)
      BY <2>1, <3>1, <3>2 DEF WritesBackSame
    <3>4. ScansInv'
      BY <1>1, <2>1, <2>3, <3>1, <3>3, SetScanKeeps DEF next
    <3> QED
      BY <1>2, <2>1, <3>4
  <2> QED
    BY <1>4, <2>2, <2>3 DEF ScanFiles
<1>5. CASE ScanEnd(k)
  <2> DEFINE rec == [scan.rec EXCEPT !.scanned = TRUE]
             n == scan.name
  <2>1. /\ reg' = [y \in DOMAIN reg \cup {n} |-> IF y = n THEN rec ELSE reg[y]]
        /\ EndScan(k) /\ UNCHANGED <<disk, plan, asked, late>> /\ scan.at = "end"
    BY <1>5 DEF ScanEnd, Put
  <2>2. n \in Names /\ scan.rec \in ProjectRecord /\ WritesBackSame(scan)
    BY <1>1, <2>1 DEF Scan, WritesBackSame
  <2>3. rec \in ProjectRecord /\ rec.root = scan.rec.root /\ rec.session = scan.rec.session
    BY <2>2 DEF ProjectRecord
  <2>4. n \notin late => n \in DOMAIN reg /\ rec.root = reg[n].root /\ rec.session = reg[n].session
    BY <2>1, <2>2, <2>3 DEF WritesBackSame
  <2> HIDE DEF rec, n, scan
  <2>5. TableInv'
    BY <1>1, <2>1, <2>2, <2>3 DEF TableInv
  <2>6. RegistryAsAsked'
    BY <1>1, <2>1, <2>4 DEF RegistryAsAsked
  <2>7. \A old \in Range(scans) : WritesBackSame(old)'
    BY <1>1, <2>1, <2>4 DEF WritesBackSame
  <2> QED
    BY <1>1, <2>1, <2>5, <2>6, <2>7, EndScanKeeps
<1>6. CASE ScanRaises(k)
  <2>1. EndScan(k) /\ UNCHANGED <<reg, disk, plan, asked, late>>
    BY <1>6 DEF ScanRaises
  <2> QED
    BY <1>1, <1>2, <2>1, EndScanKeeps
<1> QED
  BY <1>3, <1>4, <1>5, <1>6

(* Every step of every connection, scan, cleanup and clean preserves the     *)
(* invariant.                                                                *)
LEMMA ProjectsStep == ProjectsInv /\ [ProjectsNext]_pvars => ProjectsInv'
<1> SUFFICES ASSUME ProjectsInv, [ProjectsNext]_pvars PROVE ProjectsInv'
  OBVIOUS
<1>0. TableInv /\ SessionsInv /\ ScansInv /\ RegistryAsAsked
  BY DEF ProjectsInv
<1>1. ASSUME UNCHANGED <<reg, asked, late, scans>>, disk' \subseteq Roots, plan' \subseteq Names
      PROVE  TableInv' /\ ScansInv' /\ RegistryAsAsked'
  BY <1>0, <1>1 DEF TableInv, ScansInv, RegistryAsAsked, WritesBackSame
<1>2. disk \subseteq Roots /\ plan \subseteq Names
  BY <1>0 DEF TableInv
<1>3. CASE UNCHANGED pvars
  BY <1>0, <1>1, <1>2, <1>3, OthersKeepSessions DEF pvars, table, ProjectsInv
<1>4. ASSUME NEW c \in Conns,
             handle_sse(c) \/ Disconnect(c) \/ \E n \in Names : _handle_set_active_project(c, n)
      PROVE  ProjectsInv'
  <2>1. UNCHANGED <<reg, asked, late, scans, disk, plan>>
    BY <1>4 DEF handle_sse, Disconnect, _handle_set_active_project, table
  <2>2. TableInv' /\ ScansInv' /\ RegistryAsAsked'
    BY <1>1, <1>2, <2>1
  <2> QED
    BY <1>4, <2>2, SessionStep DEF ProjectsInv
<1>5. ASSUME NEW c \in Conns, NEW r \in Roots, _maybe_auto_learn_cwd(c, r) PROVE ProjectsInv'
  <2>1. SessionsInv'
    BY <1>5, SessionStep
  <2>2. CASE NameOf[r] \in DOMAIN reg
    <3>1. UNCHANGED <<reg, asked, late, scans, disk, plan>>
      BY <1>5, <2>2 DEF _maybe_auto_learn_cwd
    <3> QED
      BY <1>1, <1>2, <2>1, <3>1 DEF ProjectsInv
  <2>3. CASE NameOf[r] \notin DOMAIN reg
    <3>1. Register(r, c) /\ UNCHANGED <<disk, plan, late>>
      BY <1>5, <2>3 DEF _maybe_auto_learn_cwd
    <3> QED
      BY <2>1, <2>3, <3>1, RegisterKeeps DEF ProjectsInv
  <2> QED
    BY <2>2, <2>3
<1>6. ASSUME NEW c \in Conns, NEW r \in Roots, NEW persist \in BOOLEAN, _handle_add_project(c, r, persist)
      PROVE  ProjectsInv'
  <2> DEFINE session == IF persist THEN NoSession ELSE c
  <2>1. Register(r, session) /\ session \in Conns \cup {NoSession} /\ NameOf[r] \notin DOMAIN reg
        /\ UNCHANGED <<disk, plan, late>> /\ UNCHANGED <<ctx, pinned>>
    BY <1>6 DEF _handle_add_project
  <2> HIDE DEF session
  <2> QED
    BY <1>0, <2>1, RegisterKeeps, OthersKeepSessions DEF ProjectsInv
<1>7. ASSUME NEW k \in DOMAIN scans, ScanStart(k) \/ ScanFiles(k) \/ ScanRaises(k) \/ ScanEnd(k) PROVE ProjectsInv'
  <2>1. UNCHANGED <<ctx, pinned>>
    BY <1>7 DEF ScanStart, ScanFiles, ScanRaises, ScanEnd
  <2> QED
    BY <1>0, <1>7, <2>1, ScanKeeps, OthersKeepSessions DEF ProjectsInv
<1>8. ASSUME NEW n \in Names, CleanupMissing(n) \/ execute_plan(n) PROVE ProjectsInv'
  <2>1. delete_project(n) /\ UNCHANGED <<disk, scans>> /\ plan' \subseteq plan /\ UNCHANGED <<ctx, pinned>>
    BY <1>8 DEF CleanupMissing, execute_plan
  <2> QED
    BY <1>0, <2>1, DeleteKeeps, OthersKeepSessions DEF ProjectsInv
<1>9. CASE cmd_clean
  <2>1. UNCHANGED <<reg, asked, late, scans, disk, ctx, pinned>> /\ plan' \subseteq DOMAIN reg
    BY <1>9 DEF cmd_clean, table
  <2>2. DOMAIN reg \subseteq Names
    BY <1>0 DEF TableInv
  <2> QED
    BY <1>0, <1>1, <1>2, <2>1, <2>2, OthersKeepSessions DEF ProjectsInv
<1>10. ASSUME NEW r \in Roots, RootVanishes(r) \/ RootReturns(r) PROVE ProjectsInv'
  <2>1. UNCHANGED <<reg, asked, late, scans, plan, ctx, pinned>> /\ disk' \subseteq disk \cup {r}
    BY <1>10 DEF RootVanishes, RootReturns, table
  <2> QED
    BY <1>0, <1>1, <1>2, <2>1, OthersKeepSessions DEF ProjectsInv
<1> QED
  BY <1>3, <1>4, <1>5, <1>6, <1>7, <1>8, <1>9, <1>10 DEF ProjectsNext, ScanSteps

(* For any connections, roots and names, any interleaving of sessions,       *)
(* scans, cleanup and a `longctx clean` that acts on an old plan: a search   *)
(* goes where its own session pinned it, and the registry holds what was     *)
(* asked for, except for names deleted under a running scan.                 *)
THEOREM ProjectsForAll == ProjectsSpec => []ProjectsAsAsked
<1>1. ProjectsInit => ProjectsInv
  BY DEF ProjectsInit, ProjectsInv, TableInv, SessionsInv, ScansInv, RegistryAsAsked, Open
<1>2. ProjectsInv => SessionsIndependent
  <2> SUFFICES ASSUME ProjectsInv, NEW c \in Open
               PROVE  _handle_search_codebase(c) =
                        IF pinned[c] # NoProject THEN [all |-> FALSE, projects |-> {pinned[c]}]
                        ELSE [all |-> DOMAIN reg = {}, projects |-> DOMAIN reg]
    BY DEF SessionsIndependent
  <2>1. c \in Conns /\ pinned[c] = ctx[c].sticky
    BY DEF ProjectsInv, SessionsInv
  <2>2. IsFiniteSet(DOMAIN reg)
    BY NamesFinite, FS_Subset DEF ProjectsInv, TableInv
  <2>3. \A indexed, sticky : IsFiniteSet(indexed) =>
          _scope_to_filter(SearchScope(Plain, NoCwd, NoProject, sticky, SetToSeq(indexed))) =
            IF sticky # NoProject THEN [all |-> FALSE, projects |-> {sticky}]
            ELSE [all |-> indexed = {}, projects |-> indexed]
    BY SearchesWherePinned
  <2>4. _handle_search_codebase(c) =
          IF ctx[c].sticky # NoProject THEN [all |-> FALSE, projects |-> {ctx[c].sticky}]
          ELSE [all |-> DOMAIN reg = {}, projects |-> DOMAIN reg]
    BY <2>2, <2>3, Zenon DEF _handle_search_codebase, _session_state
  <2> QED
    BY <2>1, <2>4, Zenon
<1>3. ProjectsInv => ProjectsAsAsked
  BY <1>2 DEF ProjectsInv, ProjectsAsAsked
<1> QED
  BY <1>1, <1>3, ProjectsStep, PTL DEF ProjectsSpec

-----------------------------------------------------------------------------
(* A search beside the indexer *)

(* What changes a table adds to a function or takes from it. *)
LEMMA WithoutIs ==
    ASSUME NEW g, NEW S
    PROVE  /\ DOMAIN Without(g, S) = DOMAIN g \ S
           /\ \A x \in DOMAIN g \ S : Without(g, S)[x] = g[x]
  BY DEF Without

LEMMA WithIs ==
    ASSUME NEW g, NEW more
    PROVE  /\ DOMAIN With(g, more) = DOMAIN g \cup DOMAIN more
           /\ \A x \in DOMAIN g : With(g, more)[x] = g[x]
           /\ \A x \in DOMAIN more \ DOMAIN g : With(g, more)[x] = more[x]
  BY DEF With

LEMMA TableIs == \A t : t \in Table <=> DOMAIN t \subseteq 1..MaxId /\ t \in [DOMAIN t -> Hashes]
<1> SUFFICES ASSUME NEW t
             PROVE  t \in Table <=> DOMAIN t \subseteq 1..MaxId /\ t \in [DOMAIN t -> Hashes]
  OBVIOUS
<1>1. t \in Table => DOMAIN t \subseteq 1..MaxId /\ t \in [DOMAIN t -> Hashes]
  BY DEF Table
<1>2. DOMAIN t \in SUBSET (1..MaxId) /\ t \in [DOMAIN t -> Hashes] => t \in Table
  BY DEF Table
<1> QED
  BY <1>1, <1>2

LEMMA NotIdle == job.at \in {"append", "drop", "flag", "insert"} => job # Idle
  BY DEF Idle

LEMMA InSearch ==
    q.at \in {"bm25", "ids", "rows", "dense", "translate", "fetch", "cite"} => q # NoSearch
  BY DEF NoSearch

-----------------------------------------------------------------------------
(* What the indexer does to other files' chunks, or to none, is nothing to a *)
(* search that knows it.                                                     *)
LEMMA QueryKeeps ==
    ASSUME QuerySound, q' = q, touched' \subseteq Files,
           q # NoSearch => touched \subseteq touched' /\ touched' # {},
           q # NoSearch =>
             \A i \in DOMAIN chunks' : FileOf[chunks'[i]] \notin touched' =>
               /\ i \in DOMAIN chunks
               /\ chunks'[i] = chunks[i] /\ rowOf'[i] = rowOf[i] /\ fileId'[i] = fileId[i]
    PROVE  QuerySound'
<1> SUFFICES ASSUME q # NoSearch PROVE FindsAll'
  BY DEF QuerySound
<1>1. FindsAll
  BY DEF QuerySound
<1>2. ASSUME NEW i \in Sure' PROVE i \in Sure /\ rowOf'[i] = rowOf[i] /\ Found(i)' = Found(i)
  BY <1>2 DEF Sure, InScope, Found
<1> QED
  BY <1>1, <1>2 DEF FindsAll

(* A step of the search leaves the tables and the indexer alone. *)
LEMMA SearchKeeps ==
    ASSUME SearchInv, UNCHANGED <<chunks, files, rowOf, fileId, vec, job, touched>>,
           q # NoSearch, q' \in SearchRecord, FindsAll', touched = {} => FindsOnly'
    PROVE  SearchInv'
<1>1. TableSound'
  BY DEF SearchInv, TableSound, Embedded
<1>2. JobSound'
  BY DEF SearchInv, JobSound, RowsReady, ChunksOf
<1>3. QuerySound'
  BY DEF SearchInv, QuerySound
<1> QED
  BY <1>1, <1>2, <1>3 DEF SearchInv

LEMMA SearchStart == SInit => SearchInv
<1> SUFFICES ASSUME SInit PROVE SearchInv
  OBVIOUS
<1>1. /\ DOMAIN chunks = {} /\ DOMAIN rowOf = {} /\ DOMAIN fileId = {} /\ DOMAIN files = {} /\ DOMAIN vec = {}
      /\ job = Idle /\ q = NoSearch /\ touched = {}
  BY DEF SInit, Init
<1>2. chunks \in Table
  BY <1>1, TableIs DEF SInit, Init
<1>3. files \in Seq(Files)
  <2>1. files \in [1..0 -> Files]
    BY <1>1 DEF SInit
  <2> QED
    BY <2>1
<1>4. rowOf \in [DOMAIN chunks -> Rows] /\ fileId \in [DOMAIN chunks -> DOMAIN files]
  BY <1>1 DEF SInit
<1> QED
  BY <1>1, <1>2, <1>3, <1>4 DEF SearchInv, TableSound, JobSound, QuerySound

-----------------------------------------------------------------------------
(* The indexer's steps. *)

(* A new record goes behind the others. *)
LEMMA FileAdded ==
    ASSUME NEW s \in Seq(Files), NEW f \in Files,
           NEW t, t = IF f \in Range(s) THEN s ELSE Append(s, f)
    PROVE  /\ t \in Seq(Files) /\ f \in Range(t)
           /\ \A n \in DOMAIN s : n \in DOMAIN t /\ t[n] = s[n]
<1>1. CASE f \in Range(s)
  BY <1>1
<1>2. CASE f \notin Range(s)
  <2>1. /\ t \in Seq(Files) /\ Len(s) + 1 \in DOMAIN t /\ t[Len(s) + 1] = f
        /\ \A n \in DOMAIN s : n \in DOMAIN t /\ t[n] = s[n]
    BY <1>2
  <2> QED
    BY <2>1 DEF Range
<1> QED
  BY <1>1, <1>2

LEMMA FreeStaleKeeps ==
    ASSUME SearchInv, NEW f \in Files, NEW H \in SUBSET Hashes, FreeStale(f, H)
    PROVE  SearchInv'
<1> DEFINE gone == {rowOf[i] : i \in {j \in ChunksOf(f) : chunks[j] \notin H}}
<1>1. /\ job = Idle /\ \A h \in H : FileOf[h] = f
      /\ UNCHANGED <<chunks, rowOf, fileId, q>>
  BY DEF FreeStale, TableIdle, vars
<1>2. DOMAIN vec' = DOMAIN vec \ gone
  BY WithoutIs DEF FreeStale
<1>3. /\ files' \in Seq(Files) /\ f \in Range(files')
      /\ \A n \in DOMAIN files : n \in DOMAIN files' /\ files'[n] = files[n]
  <2>1. files' = IF f \in Range(files) THEN files ELSE Append(files, f)
    BY DEF FreeStale
  <2> QED
    BY <2>1, FileAdded DEF SearchInv, TableSound
<1>4. PICK j : j = [at |-> IF H = {} THEN "drop" ELSE "append", file |-> f, new |-> H, rows |-> <<>>]
  OBVIOUS
<1>5. job' = j /\ j.at = (IF H = {} THEN "drop" ELSE "append") /\ j.file = f /\ j.new = H
  BY <1>4 DEF FreeStale
<1>6. j \in JobRecord
  <2>1. <<>> \in [{} -> Rows]
    OBVIOUS
  <2>2. <<>> \in UNION {[texts -> Rows] : texts \in SUBSET Hashes}
    BY <2>1
  <2> QED
    BY <1>4, <2>2 DEF JobRecord
<1>7. j # Idle
  BY <1>5 DEF Idle
<1>8. TableSound'
  <2>1. /\ chunks \in Table /\ rowOf \in [DOMAIN chunks -> Rows] /\ fileId \in [DOMAIN chunks -> DOMAIN files]
        /\ \A i \in DOMAIN chunks : files[fileId[i]] = FileOf[chunks[i]] /\ rowOf[i] \in DOMAIN vec
        /\ \A i, k \in DOMAIN chunks : rowOf[i] = rowOf[k] => i = k
        /\ DOMAIN vec \subseteq Rows
    BY <1>1 DEF SearchInv, TableSound, Embedded
  <2>2. ASSUME NEW i \in DOMAIN chunks, FileOf[chunks[i]] # f \/ chunks[i] \in H
        PROVE  rowOf[i] \in DOMAIN vec'
    BY <1>2, <2>1, <2>2 DEF ChunksOf
  <2>3. \A i \in DOMAIN chunks : Embedded(i)' => FileOf[chunks[i]] # f \/ chunks[i] \in H
    BY <1>1, <1>5, <1>7 DEF Embedded
  <2>4. fileId \in [DOMAIN chunks -> DOMAIN files']
    BY <1>3, <2>1
  <2>5. \A i \in DOMAIN chunks : files'[fileId[i]] = FileOf[chunks[i]]
    BY <1>3, <2>1
  <2> QED
    BY <1>1, <1>2, <1>3, <2>1, <2>2, <2>3, <2>4, <2>5 DEF TableSound
<1>9. touched' \subseteq Files /\ (q # NoSearch => touched' = touched \cup {f})
  BY DEF FreeStale, SearchInv, QuerySound
<1>10. JobSound'
  <2>1. H = {} => RowsReady'
    BY <1>5 DEF RowsReady
  <2> QED
    BY <1>1, <1>3, <1>5, <1>6, <1>7, <1>9, <2>1 DEF JobSound
<1>11. QuerySound'
  BY <1>1, <1>9, QueryKeeps DEF SearchInv
<1> QED
  BY <1>8, <1>10, <1>11 DEF SearchInv

(* The rows of a file's new chunks: those the table has, and fresh ones. *)
LEMMA AppendRowsKeeps == ASSUME SearchInv, AppendRows PROVE SearchInv'
<1>1. /\ job.at = "append" /\ job # Idle
      /\ UNCHANGED <<chunks, files, rowOf, fileId, q, touched>>
  BY NotIdle DEF AppendRows, TableIdle, vars
<1>2. /\ chunks \in Table /\ rowOf \in [DOMAIN chunks -> Rows] /\ DOMAIN vec \subseteq Rows
      /\ \A i, k \in DOMAIN chunks : rowOf[i] = rowOf[k] => i = k
      /\ \A i \in DOMAIN chunks : FileOf[chunks[i]] # job.file \/ chunks[i] \in job.new => rowOf[i] \in DOMAIN vec
  BY <1>1 DEF SearchInv, TableSound, Embedded
<1>3. job \in JobRecord
  BY <1>1 DEF SearchInv, JobSound
<1>4. PICK old : old = [h \in {chunks[i] : i \in ChunksOf(job.file)} \cap job.new |->
                          rowOf[CHOOSE i \in ChunksOf(job.file) : chunks[i] = h]]
  OBVIOUS
<1>5. PICK fresh \in [job.new \ DOMAIN old -> Rows \ DOMAIN vec] :
         /\ \A g, h \in DOMAIN fresh : g # h => fresh[g] # fresh[h]
         /\ vec' = With(vec, [r \in Range(fresh) |-> CHOOSE h \in DOMAIN fresh : fresh[h] = r])
         /\ job' = [job EXCEPT !.at = "drop", !.rows = With(old, fresh)]
  BY <1>4 DEF AppendRows
<1>6. DOMAIN vec' = DOMAIN vec \cup Range(fresh)
  BY <1>5 DEF With
<1>7. PICK rows : rows = With(old, fresh)
  OBVIOUS
<1>8. ASSUME NEW h \in DOMAIN old
      PROVE  \E i \in ChunksOf(job.file) : chunks[i] = h /\ old[h] = rowOf[i] /\ h \in job.new
  BY <1>4
<1>9. /\ DOMAIN rows = job.new
      /\ \A h \in DOMAIN old : rows[h] = old[h] /\ old[h] \in DOMAIN vec
      /\ \A h \in job.new \ DOMAIN old : rows[h] = fresh[h] /\ fresh[h] \in Rows \ DOMAIN vec
  <2>1. DOMAIN old \subseteq job.new /\ DOMAIN fresh = job.new \ DOMAIN old
    BY <1>4, <1>5
  <2>2. DOMAIN rows = job.new
    <3>1. DOMAIN rows = DOMAIN old \cup DOMAIN fresh
      BY <1>7, WithIs
    <3> QED
      BY <2>1, <3>1
  <2>3. \A h \in DOMAIN old : rows[h] = old[h] /\ old[h] \in DOMAIN vec
    <3>1. \A h \in DOMAIN old : rows[h] = old[h]
      BY <1>7, WithIs
    <3>2. \A h \in DOMAIN old : old[h] \in DOMAIN vec
      BY <1>2, <1>8 DEF ChunksOf
    <3> QED
      BY <3>1, <3>2
  <2>4. \A h \in job.new \ DOMAIN old : rows[h] = fresh[h] /\ fresh[h] \in Rows \ DOMAIN vec
    <3>1. \A h \in DOMAIN fresh \ DOMAIN old : rows[h] = fresh[h]
      BY <1>7 DEF With
    <3> QED
      BY <1>5, <2>1, <3>1
  <2> QED
    BY <2>2, <2>3, <2>4
<1>10. \A h \in job.new : rows[h] \in DOMAIN vec'
  <2>1. \A h \in job.new \ DOMAIN old : fresh[h] \in Range(fresh)
    BY <1>5 DEF Range
  <2> QED
    BY <1>6, <1>9, <2>1
<1>11. ASSUME NEW g \in job.new, NEW h \in job.new, rows[g] = rows[h]
       PROVE  g = h
  <2>1. CASE g \in DOMAIN old /\ h \in DOMAIN old
    BY <1>2, <1>8, <1>9, <1>11, <2>1 DEF ChunksOf
  <2>2. CASE g \notin DOMAIN old /\ h \notin DOMAIN old
    BY <1>5, <1>9, <1>11, <2>2
  <2> QED
    BY <1>9, <1>11, <2>1, <2>2
<1>12. ASSUME NEW h \in job.new, NEW i \in DOMAIN chunks, FileOf[chunks[i]] # job.file
       PROVE  rowOf[i] # rows[h]
  <2>1. rowOf[i] \in DOMAIN vec
    BY <1>2, <1>12
  <2>2. CASE h \in DOMAIN old
    BY <1>2, <1>8, <1>9, <1>12, <2>2 DEF ChunksOf
  <2> QED
    BY <1>9, <2>1, <2>2
<1>13. rows \in UNION {[texts -> Rows] : texts \in SUBSET Hashes}
  <2>1. job.new \in SUBSET Hashes
    BY <1>3 DEF JobRecord
  <2>2. \A h \in job.new : rows[h] \in Rows
    BY <1>2, <1>9
  <2>3. rows = [h \in job.new |-> rows[h]]
    BY <1>7, <1>9 DEF With
  <2>4. rows \in [job.new -> Rows]
    BY <2>2, <2>3
  <2> QED
    BY <2>1, <2>4
<1>14. PICK j : j = [job EXCEPT !.at = "drop", !.rows = rows]
  OBVIOUS
<1>15. /\ job' = j /\ j \in JobRecord /\ j.at = "drop" /\ j.rows = rows
       /\ j.file = job.file /\ j.new = job.new
  BY <1>3, <1>5, <1>7, <1>13, <1>14 DEF JobRecord
<1>16. j # Idle
  BY <1>15 DEF Idle
<1>17. TableSound'
  <2>1. \A i \in DOMAIN chunks : Embedded(i)' => rowOf[i] \in DOMAIN vec'
    BY <1>1, <1>2, <1>6, <1>15, <1>16 DEF Embedded
  <2>2. DOMAIN vec' \subseteq Rows
    BY <1>2, <1>5, <1>6 DEF Range
  <2> QED
    BY <1>1, <2>1, <2>2 DEF SearchInv, TableSound
<1>18. RowsReady'
  BY <1>1, <1>9, <1>10, <1>11, <1>12, <1>15 DEF RowsReady
<1>19. JobSound'
  BY <1>1, <1>15, <1>18 DEF SearchInv, JobSound
<1>20. QuerySound'
  BY <1>1 DEF SearchInv, QuerySound, FindsAll, FindsOnly, Sure, InScope, Found
<1> QED
  BY <1>17, <1>19, <1>20 DEF SearchInv

(* The old chunks of the file go. *)
LEMMA DropOldKeeps == ASSUME SearchInv, DropOld PROVE SearchInv'
<1> DEFINE C == ChunksOf(job.file)
<1>1. /\ job.at = "drop" /\ job # Idle
      /\ chunks' = [i \in DOMAIN chunks \ C |-> chunks[i]]
      /\ rowOf' = Without(rowOf, C) /\ fileId' = Without(fileId, C)
      /\ UNCHANGED <<files, vec, q, touched>>
  BY NotIdle DEF DropOld, delete_chunks
<1>2. job \in JobRecord /\ RowsReady /\ (q # NoSearch => job.file \in touched)
  BY <1>1 DEF SearchInv, JobSound
<1>3. PICK j : j = [job EXCEPT !.at = "flag"]
  OBVIOUS
<1>4. /\ job' = j /\ j \in JobRecord /\ j.at = "flag" /\ j.rows = job.rows
      /\ j.file = job.file /\ j.new = job.new
  BY <1>2, <1>3 DEF DropOld, JobRecord
<1>5. j # Idle
  BY <1>4 DEF Idle
<1>6. /\ chunks \in Table /\ rowOf \in [DOMAIN chunks -> Rows] /\ fileId \in [DOMAIN chunks -> DOMAIN files]
      /\ files \in Seq(Files) /\ DOMAIN vec \subseteq Rows
      /\ \A i \in DOMAIN chunks : files[fileId[i]] = FileOf[chunks[i]]
      /\ \A i, k \in DOMAIN chunks : rowOf[i] = rowOf[k] => i = k
      /\ \A i \in DOMAIN chunks : FileOf[chunks[i]] # job.file => rowOf[i] \in DOMAIN vec
  BY <1>1 DEF SearchInv, TableSound, Embedded
<1>7. /\ DOMAIN chunks' = DOMAIN chunks \ C /\ DOMAIN rowOf' = DOMAIN chunks \ C /\ DOMAIN fileId' = DOMAIN chunks \ C
      /\ \A i \in DOMAIN chunks' : chunks'[i] = chunks[i] /\ rowOf'[i] = rowOf[i] /\ fileId'[i] = fileId[i]
      /\ rowOf' = [i \in DOMAIN chunks' |-> rowOf'[i]] /\ fileId' = [i \in DOMAIN chunks' |-> fileId'[i]]
  BY <1>1, <1>6 DEF Without
<1>8. \A i \in DOMAIN chunks' : i \in DOMAIN chunks /\ FileOf[chunks[i]] # job.file
  BY <1>7 DEF ChunksOf
<1> HIDE DEF C
<1>9. TableSound'
  <2>1. chunks' \in Table
    <3>1. DOMAIN chunks \subseteq 1..MaxId /\ chunks \in [DOMAIN chunks -> Hashes]
      BY <1>6, TableIs
    <3>2. DOMAIN chunks' \subseteq 1..MaxId /\ chunks' \in [DOMAIN chunks' -> Hashes]
      BY <1>1, <1>7, <1>8, <3>1
    <3> QED
      BY <3>2, TableIs
  <2>2. rowOf' \in [DOMAIN chunks' -> Rows] /\ fileId' \in [DOMAIN chunks' -> DOMAIN files]
    BY <1>6, <1>7, <1>8
  <2>3. /\ \A i \in DOMAIN chunks' : files[fileId'[i]] = FileOf[chunks'[i]]
        /\ \A i, k \in DOMAIN chunks' : rowOf'[i] = rowOf'[k] => i = k
        /\ \A i \in DOMAIN chunks' : rowOf'[i] \in DOMAIN vec
    BY <1>6, <1>7, <1>8
  <2> QED
    BY <1>1, <1>6, <2>1, <2>2, <2>3 DEF TableSound
<1>10. RowsReady'
  <2>1. ASSUME NEW h \in job.new, NEW i \in DOMAIN chunks', FileOf[chunks'[i]] # job.file
        PROVE  rowOf'[i] # job.rows[h]
    BY <1>2, <1>7, <1>8 DEF RowsReady
  <2> QED
    BY <1>1, <1>2, <1>4, <2>1 DEF RowsReady
<1>11. JobSound'
  <2>1. ChunksOf(job.file)' = {}
    BY <1>4, <1>7, <1>8 DEF ChunksOf
  <2>2. \A f \in Files : f = job.file => {i \in DOMAIN chunks' : FileOf[chunks'[i]] = f} = {}
    BY <1>7, <1>8
  <2> QED
    BY <1>1, <1>4, <1>10, <2>1 DEF SearchInv, JobSound
<1>12. QuerySound'
  BY <1>1, <1>2, <1>7, <1>8, QueryKeeps DEF SearchInv, QuerySound
<1> QED
  BY <1>9, <1>11, <1>12 DEF SearchInv

(* The flag is set; the indexer goes on to the new chunks, if there are any. *)
LEMMA WriterFlagsKeeps == ASSUME SearchInv, WriterFlags PROVE SearchInv'
<1>1. /\ job.at = "flag" /\ job # Idle
      /\ UNCHANGED <<chunks, files, rowOf, fileId, vec, q, touched>>
  BY NotIdle DEF WriterFlags, SetDirty
<1>2. job \in JobRecord /\ RowsReady
  BY <1>1 DEF SearchInv, JobSound
<1>3. PICK j : j = IF job.new = {} THEN Idle ELSE [job EXCEPT !.at = "insert"]
  OBVIOUS
<1>4. /\ job' = j
      /\ j # Idle => /\ j \in JobRecord /\ j.at = "insert" /\ j.rows = job.rows
                     /\ j.file = job.file /\ j.new = job.new /\ job.new # {}
  BY <1>2, <1>3 DEF WriterFlags, JobRecord
<1>5. \A i \in DOMAIN chunks : Embedded(i)
  BY <1>1 DEF Embedded
<1>6. TableSound'
  BY <1>1, <1>5 DEF SearchInv, TableSound
<1>7. JobSound'
  <2> SUFFICES ASSUME j # Idle PROVE JobSound'
    BY <1>4 DEF JobSound
  <2>1. RowsReady'
    BY <1>1, <1>2, <1>4 DEF RowsReady
  <2> QED
    BY <1>1, <1>4, <2>1 DEF SearchInv, JobSound, ChunksOf
<1>8. QuerySound'
  BY <1>1 DEF SearchInv, QuerySound, FindsAll, FindsOnly, Sure, InScope, Found
<1> QED
  BY <1>6, <1>7, <1>8 DEF SearchInv

(* The new chunks are numbered behind all there are, each text once. *)
LEMMA InsertedAre ==
    ASSUME chunks \in Table, NEW S \in SUBSET Hashes, IsFiniteSet(S),
           NEW hs \in SetToSeqs(S), upsert_chunks(Indexer, Len(hs), hs)
    PROVE  /\ chunks' \in Table /\ DOMAIN chunks \subseteq DOMAIN chunks'
           /\ \A i \in DOMAIN chunks : chunks'[i] = chunks[i]
           /\ \A i \in DOMAIN chunks' \ DOMAIN chunks : chunks'[i] \in S
           /\ \A i, k \in DOMAIN chunks' \ DOMAIN chunks : chunks'[i] = chunks'[k] => i = k
<1>1. PICK n \in Nat : n = Cardinality(S)
  BY FS_CardinalityType
<1>2. hs \in [1..n -> S] /\ \A i, k \in 1..n : i # k => hs[i] # hs[k]
  BY <1>1 DEF SetToSeqs
<1>3. Len(hs) = n
  BY <1>2
<1>4. PICK id \in 1 .. MaxId - n + 1 :
        /\ IsNextId(id)
        /\ chunks' = [i \in DOMAIN chunks \cup (id .. id + n - 1) |->
                        IF i \in DOMAIN chunks THEN chunks[i] ELSE hs[i - id + 1]]
  BY <1>3 DEF upsert_chunks
<1>5. DOMAIN chunks \subseteq 1..MaxId /\ chunks \in [DOMAIN chunks -> Hashes]
  BY TableIs
<1>6. id \in Int /\ id >= 1 /\ id + n - 1 <= MaxId
  BY <1>4, MaxIdAssumption
<1>7. /\ DOMAIN chunks' = DOMAIN chunks \cup (id .. id + n - 1)
      /\ \A i \in DOMAIN chunks : chunks'[i] = chunks[i]
      /\ \A i \in DOMAIN chunks' \ DOMAIN chunks : i \in id .. id + n - 1 /\ chunks'[i] = hs[i - id + 1]
  BY <1>4
<1>8. \A i \in id .. id + n - 1 : i - id + 1 \in 1..n
  BY <1>6
<1>9. \A i \in DOMAIN chunks' \ DOMAIN chunks : chunks'[i] \in S
  BY <1>2, <1>7, <1>8
<1>10. ASSUME NEW i \in DOMAIN chunks' \ DOMAIN chunks, NEW k \in DOMAIN chunks' \ DOMAIN chunks,
              chunks'[i] = chunks'[k]
       PROVE  i = k
  <2>1. i - id + 1 = k - id + 1
    BY <1>2, <1>7, <1>8, <1>10
  <2>2. i \in Int /\ k \in Int
    BY <1>7
  <2> QED
    BY <1>6, <2>1, <2>2
<1>11. chunks' \in Table
  <2>1. DOMAIN chunks' \subseteq 1..MaxId
    BY <1>5, <1>6, <1>7, MaxIdAssumption
  <2>2. \A i \in DOMAIN chunks' : chunks'[i] \in Hashes
    BY <1>5, <1>7, <1>9
  <2>3. chunks' = [i \in DOMAIN chunks' |-> chunks'[i]]
    BY <1>4
  <2>4. chunks' \in [DOMAIN chunks' -> Hashes]
    BY <2>2, <2>3
  <2> QED
    BY <2>1, <2>4, TableIs
<1> QED
  BY <1>7, <1>9, <1>10, <1>11

LEMMA InsertNewKeeps == ASSUME SearchInv, InsertNew PROVE SearchInv'
<1>1. job.at = "insert" /\ job # Idle /\ UNCHANGED <<files, vec, q, touched>>
  BY NotIdle DEF InsertNew
<1>2. /\ job \in JobRecord /\ RowsReady /\ ChunksOf(job.file) = {}
      /\ job.file \in Range(files) /\ (\A h \in job.new : FileOf[h] = job.file)
      /\ q # NoSearch => job.file \in touched
  BY <1>1 DEF SearchInv, JobSound
<1>3. job.new \in SUBSET Hashes /\ IsFiniteSet(job.new)
  <2>1. job.new \in SUBSET Hashes
    BY <1>2 DEF JobRecord
  <2>2. IsFiniteSet(Rows)
    BY MaxRowAssumption, FS_Interval DEF Rows
  <2> DEFINE g == [h \in job.new |-> job.rows[h]]
  <2>3. g \in Injection(job.new, Rows)
    <3>1. \A h \in job.new : job.rows[h] \in Rows
      BY <1>2 DEF RowsReady, SearchInv, TableSound
    <3>2. g \in [job.new -> Rows]
      BY <3>1
    <3>3. \A x, y \in job.new : g[x] = g[y] => x = y
      BY <1>2 DEF RowsReady
    <3> HIDE DEF g
    <3> QED
      BY <3>2, <3>3 DEF Injection, IsInjective
  <2>4. IsFiniteSet(job.new)
    <3> HIDE DEF g
    <3> QED
      BY <2>2, <2>3, FS_Injection
  <2> QED
    BY <2>1, <2>4
<1>4. PICK hs \in SetToSeqs(job.new) :
         /\ upsert_chunks(Indexer, Len(hs), hs)
         /\ rowOf' = With(rowOf, [i \in DOMAIN chunks' \ DOMAIN chunks |-> job.rows[chunks'[i]]])
         /\ fileId' = With(fileId, [i \in DOMAIN chunks' \ DOMAIN chunks |->
                                       CHOOSE n \in DOMAIN files : files[n] = job.file])
  BY DEF InsertNew
<1>5. /\ chunks \in Table /\ rowOf \in [DOMAIN chunks -> Rows] /\ fileId \in [DOMAIN chunks -> DOMAIN files]
      /\ files \in Seq(Files) /\ DOMAIN vec \subseteq Rows
      /\ \A i \in DOMAIN chunks : files[fileId[i]] = FileOf[chunks[i]] /\ rowOf[i] \in DOMAIN vec
      /\ \A i, k \in DOMAIN chunks : rowOf[i] = rowOf[k] => i = k
  BY <1>1 DEF SearchInv, TableSound, Embedded
<1>6. /\ chunks' \in Table /\ DOMAIN chunks \subseteq DOMAIN chunks'
      /\ \A i \in DOMAIN chunks : chunks'[i] = chunks[i]
      /\ \A i \in DOMAIN chunks' \ DOMAIN chunks : chunks'[i] \in job.new
      /\ \A i, k \in DOMAIN chunks' \ DOMAIN chunks : chunks'[i] = chunks'[k] => i = k
  BY <1>3, <1>4, <1>5, InsertedAre
<1>7. /\ DOMAIN rowOf' = DOMAIN chunks' /\ rowOf' = [i \in DOMAIN chunks' |-> rowOf'[i]]
      /\ \A i \in DOMAIN chunks : rowOf'[i] = rowOf[i]
      /\ \A i \in DOMAIN chunks' \ DOMAIN chunks : rowOf'[i] = job.rows[chunks'[i]]
  BY <1>4, <1>5, <1>6 DEF With
<1>8. PICK n \in DOMAIN files : n = (CHOOSE k \in DOMAIN files : files[k] = job.file) /\ files[n] = job.file
  BY <1>2 DEF Range
<1>9. /\ DOMAIN fileId' = DOMAIN chunks' /\ fileId' = [i \in DOMAIN chunks' |-> fileId'[i]]
      /\ \A i \in DOMAIN chunks : fileId'[i] = fileId[i]
      /\ \A i \in DOMAIN chunks' \ DOMAIN chunks : fileId'[i] = n
  BY <1>4, <1>5, <1>6, <1>8 DEF With
<1>10. \A i \in DOMAIN chunks : FileOf[chunks[i]] # job.file
  BY <1>2 DEF ChunksOf
<1>11. PICK j : j = [job EXCEPT !.at = "flag", !.new = {}]
  OBVIOUS
<1>12. job' = j /\ j \in JobRecord /\ j.at = "flag" /\ j.file = job.file /\ j.new = {} /\ j # Idle
  <2>1. job' = j /\ j \in JobRecord /\ j.at = "flag" /\ j.file = job.file /\ j.new = {}
    BY <1>2, <1>11 DEF InsertNew, JobRecord
  <2> QED
    BY <2>1 DEF Idle
<1>13. TableSound'
  <2>1. \A i \in DOMAIN chunks' : rowOf'[i] \in DOMAIN vec /\ rowOf'[i] \in Rows
    BY <1>2, <1>5, <1>6, <1>7 DEF RowsReady
  <2>2. \A i, k \in DOMAIN chunks' : rowOf'[i] = rowOf'[k] => i = k
    BY <1>2, <1>5, <1>6, <1>7, <1>10 DEF RowsReady
  <2>3. \A i \in DOMAIN chunks' : fileId'[i] \in DOMAIN files /\ files[fileId'[i]] = FileOf[chunks'[i]]
    BY <1>2, <1>5, <1>6, <1>8, <1>9
  <2>4. rowOf' \in [DOMAIN chunks' -> Rows] /\ fileId' \in [DOMAIN chunks' -> DOMAIN files]
    BY <1>7, <1>9, <2>1, <2>3
  <2> QED
    BY <1>1, <1>5, <1>6, <2>1, <2>2, <2>3, <2>4 DEF TableSound
<1>14. JobSound'
  BY <1>1, <1>2, <1>12 DEF JobSound, RowsReady
<1>15. QuerySound'
  <2>1. \A i \in DOMAIN chunks' \ DOMAIN chunks : FileOf[chunks'[i]] = job.file
    BY <1>2, <1>6
  <2> QED
    BY <1>1, <1>2, <1>6, <1>7, <1>9, <2>1, QueryKeeps DEF SearchInv, QuerySound
<1> QED
  BY <1>13, <1>14, <1>15 DEF SearchInv

-----------------------------------------------------------------------------
(* The steps of the search. *)

LEMMA BeginSearchKeeps ==
    ASSUME SearchInv, NEW scope \in Scopes, NEW on \in BOOLEAN, BeginSearch(scope, on)
    PROVE  SearchInv'
<1>1. /\ q = NoSearch /\ UNCHANGED <<chunks, files, rowOf, fileId, vec, job>>
      /\ q' = [at |-> IF on THEN "bm25" ELSE "ids", scope |-> scope, lex |-> {}, dense |-> {}, got |-> {}]
      /\ touched' = IF job = Idle THEN {} ELSE {job.file}
  BY DEF BeginSearch, TableIdle, vars
<1>2. /\ q' \in SearchRecord /\ q'.at \in {"bm25", "ids"}
      /\ q'.lex = {} /\ q'.dense = {} /\ q'.got = {}
  BY <1>1 DEF SearchRecord
<1>3. TableSound'
  BY <1>1 DEF SearchInv, TableSound, Embedded
<1>4. JobSound'
  BY <1>1 DEF SearchInv, JobSound, RowsReady, ChunksOf
<1>5. touched' \subseteq Files
  BY <1>1 DEF SearchInv, JobSound, JobRecord
<1>6. FindsAll' /\ FindsOnly'
  BY <1>2 DEF FindsAll, FindsOnly
<1> QED
  BY <1>2, <1>3, <1>4, <1>5, <1>6 DEF SearchInv, QuerySound

(* The ids that the chunk store lists for a scope are those of its chunks. *)
LEMMA IdsAreInScope == ASSUME TableSound PROVE IdsInScope = InScope
  BY DEF TableSound, IdsInScope, InScope

LEMMA QueryIs ==
    ASSUME SearchInv, q # NoSearch
    PROVE  /\ q \in SearchRecord /\ q.scope \in Scopes
           /\ FindsAll /\ (touched = {} => FindsOnly) /\ TableSound
           /\ InScope \in SUBSET Int
           /\ \A i \in Sure : i \in InScope /\ rowOf[i] \in DOMAIN vec
<1>1. q \in SearchRecord /\ FindsAll /\ (touched = {} => FindsOnly) /\ TableSound
  BY DEF SearchInv, QuerySound
<1>2. InScope \in SUBSET Int
  BY <1>1, TableIs DEF TableSound, InScope
<1>3. \A i \in Sure : i \in InScope /\ rowOf[i] \in DOMAIN vec
  <2>1. job # Idle => job.file \in touched
    BY DEF SearchInv, JobSound
  <2> QED
    BY <1>1, <2>1 DEF TableSound, Embedded, Sure, InScope
<1> QED
  BY <1>1, <1>2, <1>3 DEF SearchRecord

(* What holds of a step that keeps the tables, for the search after it. *)
LEMMA SameScope ==
    ASSUME UNCHANGED <<chunks, fileId, rowOf, touched>>, q'.scope = q.scope
    PROVE  /\ InScope' = InScope /\ Sure' = Sure
           /\ \A i : Found(i)' = Found(i)
  BY DEF InScope, Sure, Found

(* search_lexical returns ids in scope, whatever its index was built from. *)
LEMMA LexicalKeeps ==
    ASSUME SearchInv, NEW ids, q.at = "bm25",
           UNCHANGED <<chunks, files, rowOf, fileId, vec, job, touched>>,
           q' = [q EXCEPT !.at = "ids", !.lex = ids \cap IdsInScope]
    PROVE  SearchInv'
<1>1. q # NoSearch
  BY InSearch
<1>2. /\ q \in SearchRecord /\ InScope \in SUBSET Int /\ IdsInScope = InScope
      /\ touched = {} => FindsOnly
  BY <1>1, QueryIs, IdsAreInScope
<1>3. PICK lex : lex = ids \cap InScope
  OBVIOUS
<1>4. PICK r : r = [q EXCEPT !.at = "ids", !.lex = lex]
  OBVIOUS
<1>5. /\ q' = r /\ r \in SearchRecord /\ r.at = "ids" /\ r.lex = lex
      /\ r.scope = q.scope /\ r.dense = q.dense /\ r.got = q.got
  BY <1>2, <1>3, <1>4 DEF SearchRecord
<1>6. FindsAll'
  BY <1>5 DEF FindsAll
<1>7. touched = {} => FindsOnly'
  BY <1>2, <1>3, <1>5, SameScope DEF FindsOnly
<1> QED
  BY <1>1, <1>5, <1>6, <1>7, SearchKeeps

LEMMA ListIdsKeeps == ASSUME SearchInv, ListIds PROVE SearchInv'
<1>1. /\ q.at = "ids" /\ q # NoSearch
      /\ UNCHANGED <<chunks, files, rowOf, fileId, vec, job, touched>>
  BY InSearch DEF ListIds, TableIdle, vars
<1>2. /\ q \in SearchRecord /\ InScope \in SUBSET Int /\ IdsInScope = InScope
      /\ (touched = {} => FindsOnly) /\ \A i \in Sure : i \in InScope
  BY <1>1, QueryIs, IdsAreInScope
<1>3. PICK d : d = InScope
  OBVIOUS
<1>4. PICK r : r = [q EXCEPT !.at = "rows", !.dense = d]
  OBVIOUS
<1>5. /\ q' = r /\ r \in SearchRecord /\ r.at = "rows" /\ r.dense = d
      /\ r.scope = q.scope /\ r.lex = q.lex /\ r.got = q.got
  BY <1>2, <1>3, <1>4 DEF SearchRecord, ListIds
<1>6. InScope' = InScope /\ Sure' = Sure /\ \A i : Found(i)' = Found(i)
  BY <1>1, <1>5, SameScope
<1>7. FindsAll'
  BY <1>2, <1>3, <1>5, <1>6 DEF FindsAll
<1>8. touched = {} => FindsOnly'
  BY <1>2, <1>3, <1>5, <1>6 DEF FindsOnly
<1> QED
  BY <1>1, <1>5, <1>7, <1>8, SearchKeeps

LEMMA RowsKeeps == ASSUME SearchInv, _scope_to_embedding_rows PROVE SearchInv'
<1>1. /\ q.at = "rows" /\ q # NoSearch
      /\ UNCHANGED <<chunks, files, rowOf, fileId, vec, job, touched>>
  BY InSearch DEF _scope_to_embedding_rows, TableIdle, vars
<1>2. /\ q \in SearchRecord /\ TableSound /\ FindsAll
      /\ (touched = {} => FindsOnly) /\ \A i \in Sure : i \in InScope
  BY <1>1, QueryIs
<1>3. PICK d : d = RowsOfIds
  OBVIOUS
<1>4. d = {rowOf[i] : i \in q.dense \cap DOMAIN chunks} /\ d \in SUBSET Int
  BY <1>2, <1>3 DEF RowsOfIds, TableSound, Rows
<1>5. PICK r : r = [q EXCEPT !.at = "dense", !.dense = d]
  OBVIOUS
<1>6. /\ q' = r /\ r \in SearchRecord /\ r.at = "dense" /\ r.dense = d
      /\ r.scope = q.scope /\ r.lex = q.lex /\ r.got = q.got
  BY <1>2, <1>3, <1>4, <1>5 DEF SearchRecord, _scope_to_embedding_rows
<1>7. InScope' = InScope /\ Sure' = Sure /\ \A i : Found(i)' = Found(i)
  BY <1>1, <1>6, SameScope
<1>8. \A i \in Sure : i \in q.dense \cap DOMAIN chunks
  BY <1>1, <1>2 DEF FindsAll, Sure, InScope
<1>9. FindsAll'
  BY <1>1, <1>4, <1>6, <1>7, <1>8 DEF FindsAll
<1>10. touched = {} => FindsOnly'
  BY <1>1, <1>2, <1>4, <1>6, <1>7 DEF FindsOnly
<1> QED
  BY <1>1, <1>6, <1>9, <1>10, SearchKeeps

LEMMA DenseKeeps == ASSUME SearchInv, SearchDense PROVE SearchInv'
<1>1. /\ q.at = "dense" /\ q # NoSearch
      /\ UNCHANGED <<chunks, files, rowOf, fileId, vec, job, touched>>
  BY InSearch DEF SearchDense, TableIdle, vars
<1>2. /\ q \in SearchRecord /\ FindsAll
      /\ (touched = {} => FindsOnly) /\ \A i \in Sure : rowOf[i] \in DOMAIN vec
  BY <1>1, QueryIs
<1>3. PICK d : d = q.dense \cap DOMAIN vec
  OBVIOUS
<1>4. PICK r : r = [q EXCEPT !.at = "translate", !.dense = d]
  OBVIOUS
<1>5. /\ q' = r /\ r \in SearchRecord /\ r.at = "translate" /\ r.dense = d
      /\ r.scope = q.scope /\ r.lex = q.lex /\ r.got = q.got
  BY <1>2, <1>3, <1>4 DEF SearchRecord, SearchDense
<1>6. InScope' = InScope /\ Sure' = Sure /\ \A i : Found(i)' = Found(i)
  BY <1>1, <1>5, SameScope
<1>7. FindsAll'
  BY <1>1, <1>2, <1>3, <1>5, <1>6 DEF FindsAll
<1>8. touched = {} => FindsOnly'
  BY <1>1, <1>2, <1>3, <1>5, <1>6 DEF FindsOnly
<1> QED
  BY <1>1, <1>5, <1>7, <1>8, SearchKeeps

(* A row stands for the one chunk that has it. *)
LEMMA RowOfOne ==
    ASSUME TableSound, NEW i \in DOMAIN chunks
    PROVE  IdsOfRow(rowOf[i]) = {i}
<1>1. {k \in DOMAIN rowOf : rowOf[k] = rowOf[i]} = {i}
  BY DEF TableSound
<1> QED
  BY <1>1 DEF IdsOfRow

LEMMA TranslateKeeps == ASSUME SearchInv, TranslateRows PROVE SearchInv'
<1>1. /\ q.at = "translate" /\ q # NoSearch
      /\ UNCHANGED <<chunks, files, rowOf, fileId, vec, job, touched>>
  BY InSearch DEF TranslateRows, TableIdle, vars
<1>2. /\ q \in SearchRecord /\ TableSound /\ FindsAll
      /\ (touched = {} => FindsOnly) /\ \A i \in Sure : i \in InScope
  BY <1>1, QueryIs
<1>3. PICK pick \in [q.dense -> Rows \cup 1..MaxId] :
        /\ \A x \in q.dense : pick[x] \in IdsOfRow(x)
        /\ q' = [q EXCEPT !.at = "fetch", !.dense = Range(pick)]
  BY DEF TranslateRows
<1>4. PICK d : d = Range(pick)
  OBVIOUS
<1>5. d = {pick[x] : x \in q.dense} /\ d \in SUBSET Int
  <2>1. Rows \cup 1..MaxId \subseteq Int
    BY MaxRowAssumption, MaxIdAssumption DEF Rows
  <2> QED
    BY <1>3, <1>4, <2>1 DEF Range
<1>6. PICK r : r = [q EXCEPT !.at = "fetch", !.dense = d]
  OBVIOUS
<1>7. /\ q' = r /\ r \in SearchRecord /\ r.at = "fetch" /\ r.dense = d
      /\ r.scope = q.scope /\ r.lex = q.lex /\ r.got = q.got
  BY <1>2, <1>3, <1>4, <1>5, <1>6 DEF SearchRecord
<1>8. InScope' = InScope /\ Sure' = Sure /\ \A i : Found(i)' = Found(i)
  BY <1>1, <1>7, SameScope
<1>9. ASSUME NEW i \in InScope, rowOf[i] \in q.dense PROVE pick[rowOf[i]] = i
  <2>1. IdsOfRow(rowOf[i]) = {i}
    BY <1>2, RowOfOne DEF InScope
  <2> QED
    BY <1>3, <1>9, <2>1
<1>10. FindsAll'
  <2>1. \A i \in Sure : i \in d
    BY <1>1, <1>2, <1>5, <1>9 DEF FindsAll
  <2> QED
    BY <1>7, <1>8, <2>1 DEF FindsAll
<1>11. touched = {} => FindsOnly'
  <2> SUFFICES ASSUME touched = {} PROVE FindsOnly'
    OBVIOUS
  <2>1. q.lex \subseteq InScope /\ q.got \subseteq {Found(i) : i \in InScope} /\ q.dense \subseteq {rowOf[i] : i \in InScope}
    BY <1>1, <1>2 DEF FindsOnly
  <2>2. d \subseteq InScope
    BY <1>5, <1>9, <2>1
  <2> QED
    BY <1>7, <1>8, <2>1, <2>2 DEF FindsOnly
<1> QED
  BY <1>1, <1>7, <1>10, <1>11, SearchKeeps

LEMMA FetchKeeps == ASSUME SearchInv, FetchChunks PROVE SearchInv'
<1>1. /\ q.at = "fetch" /\ q # NoSearch
      /\ UNCHANGED <<chunks, files, rowOf, fileId, vec, job, touched>>
  BY InSearch DEF FetchChunks, TableIdle, vars
<1>2. /\ q \in SearchRecord /\ TableSound /\ FindsAll
      /\ (touched = {} => FindsOnly) /\ \A i \in Sure : i \in InScope
  BY <1>1, QueryIs
<1>3. PICK got : got = {Found(i) : i \in (q.lex \cup q.dense) \cap DOMAIN chunks}
  OBVIOUS
<1>4. got \in SUBSET Hit
  <2>1. \A i \in DOMAIN chunks : Found(i) \in Hit
    <3>1. DOMAIN chunks \subseteq 1..MaxId /\ chunks \in [DOMAIN chunks -> Hashes]
      BY <1>2, TableIs DEF TableSound
    <3>2. \A i \in DOMAIN chunks : fileId[i] \in Nat
      BY <1>2 DEF TableSound
    <3> QED
      BY <3>1, <3>2 DEF Found, Hit
  <2> QED
    BY <1>3, <2>1
<1>5. PICK r : r = [q EXCEPT !.at = "cite", !.lex = {}, !.dense = {}, !.got = got]
  OBVIOUS
<1>6. /\ q' = r /\ r \in SearchRecord /\ r.at = "cite" /\ r.dense = {} /\ r.lex = {}
      /\ r.scope = q.scope /\ r.got = got
  BY <1>2, <1>3, <1>4, <1>5 DEF SearchRecord, FetchChunks, Found
<1>7. InScope' = InScope /\ Sure' = Sure /\ \A i : Found(i)' = Found(i)
  BY <1>1, <1>6, SameScope
<1>8. FindsAll'
  <2>1. \A i \in Sure : Found(i) \in got
    BY <1>1, <1>2, <1>3 DEF FindsAll, Sure, InScope
  <2> QED
    BY <1>6, <1>7, <2>1 DEF FindsAll
<1>9. touched = {} => FindsOnly'
  <2> SUFFICES ASSUME touched = {} PROVE FindsOnly'
    OBVIOUS
  <2>1. q.lex \subseteq InScope /\ q.dense \subseteq InScope
    BY <1>1, <1>2 DEF FindsOnly
  <2>2. got \subseteq {Found(i) : i \in InScope}
    BY <1>3, <2>1
  <2> QED
    BY <1>6, <1>7, <2>2 DEF FindsOnly
<1> QED
  BY <1>1, <1>6, <1>8, <1>9, SearchKeeps

(* A step that changes neither tables nor search. *)
LEMMA CacheKeeps ==
    ASSUME SearchInv, UNCHANGED svars, chunks' = chunks
    PROVE  SearchInv'
  BY DEF SearchInv, svars, TableSound, Embedded, JobSound, RowsReady, ChunksOf, QuerySound,
         FindsAll, FindsOnly, Sure, InScope, Found

LEMMA ReturnKeeps == ASSUME SearchInv, ReturnResult PROVE SearchInv'
<1>1. q' = NoSearch /\ touched' = {} /\ UNCHANGED <<chunks, files, rowOf, fileId, vec, job>>
  BY DEF ReturnResult, TableIdle, vars
<1>2. TableSound'
  BY <1>1 DEF SearchInv, TableSound, Embedded
<1>3. JobSound'
  BY <1>1 DEF SearchInv, JobSound, RowsReady, ChunksOf
<1> QED
  BY <1>1, <1>2, <1>3 DEF SearchInv, QuerySound

LEMMA SearchNextKeeps == SearchInv /\ [SNext]_allVars => SearchInv'
<1> SUFFICES ASSUME SearchInv, [SNext]_allVars PROVE SearchInv'
  OBVIOUS
<1>1. ASSUME NEW f \in Files, NEW H \in SUBSET Hashes, FreeStale(f, H) PROVE SearchInv'
  BY <1>1, FreeStaleKeeps
<1>2. CASE WriterSteps
  BY <1>2, AppendRowsKeeps, DropOldKeeps, InsertNewKeeps, WriterFlagsKeeps DEF WriterSteps
<1>3. ASSUME NEW scope \in Scopes, NEW on \in BOOLEAN, BeginSearch(scope, on) PROVE SearchInv'
  BY <1>3, BeginSearchKeeps
<1>4. CASE LexicalClean
  <2>1. PICK ids : ids = IF bm25 = None THEN {} ELSE DOMAIN bm25
    OBVIOUS
  <2>2. q' = [q EXCEPT !.at = "ids", !.lex = ids \cap IdsInScope]
    BY <1>4, <2>1 DEF LexicalClean
  <2>3. q.at = "bm25" /\ UNCHANGED <<chunks, files, rowOf, fileId, vec, job, touched>>
    BY <1>4 DEF LexicalClean, TableIdle, vars
  <2> QED
    BY <2>2, <2>3, LexicalKeeps
<1>5. CASE LexicalInstall
  <2>1. PICK ids : ids = IF bm25' = None THEN {} ELSE DOMAIN bm25'
    OBVIOUS
  <2>2. q' = [q EXCEPT !.at = "ids", !.lex = ids \cap IdsInScope]
    BY <1>5, <2>1 DEF LexicalInstall
  <2>3. q.at = "bm25" /\ UNCHANGED <<chunks, files, rowOf, fileId, vec, job, touched>>
    BY <1>5 DEF LexicalInstall, RebuildInstall
  <2> QED
    BY <2>2, <2>3, LexicalKeeps
<1>6. CASE LexicalRead \/ InvalidateLexical
  BY <1>6, CacheKeeps DEF LexicalRead, RebuildRead, InvalidateLexical, invalidate_lexical
<1>7. CASE ListIds \/ _scope_to_embedding_rows \/ SearchDense \/ TranslateRows \/ FetchChunks \/ ReturnResult
  BY <1>7, ListIdsKeeps, RowsKeeps, DenseKeeps, TranslateKeeps, FetchKeeps, ReturnKeeps
<1>8. CASE UNCHANGED allVars
  BY <1>8, CacheKeeps DEF allVars, vars
<1> QED
  BY <1>1, <1>2, <1>3, <1>4, <1>5, <1>6, <1>7, <1>8 DEF SNext, SearchSteps

(* For any files, chunks and rows, and whatever the indexer does between the *)
(* reads of a search: all chunks in scope of files that nobody wrote are     *)
(* among the results, under their own file, and when nobody wrote anything   *)
(* there are no others.                                                      *)
THEOREM SearchIsFaithfulForAll == SSpec => SearchIsFaithful
<1>1. SearchInv /\ [SNext]_allVars =>
        [ReturnResult =>
           /\ \A i \in DOMAIN chunks :
                FileOf[chunks[i]] \in q.scope \ touched =>
                  [id |-> i, text |-> chunks[i], file |-> FileOf[chunks[i]]] \in Result
           /\ touched = {} => \A g \in Result : g.file \in q.scope /\ FileOf[g.text] = g.file]_allVars
  <2> SUFFICES ASSUME SearchInv, ReturnResult
               PROVE  /\ \A i \in DOMAIN chunks :
                           FileOf[chunks[i]] \in q.scope \ touched =>
                             [id |-> i, text |-> chunks[i], file |-> FileOf[chunks[i]]] \in Result
                      /\ touched = {} => \A g \in Result : g.file \in q.scope /\ FileOf[g.text] = g.file
    OBVIOUS
  <2>1. q.at = "cite" /\ q # NoSearch
    BY InSearch DEF ReturnResult
  <2>2. TableSound /\ FindsAll /\ (touched = {} => FindsOnly)
    BY <2>1, QueryIs
  <2>3. \A i \in DOMAIN chunks :
           _build_citation(Found(i)) = [id |-> i, text |-> chunks[i], file |-> FileOf[chunks[i]]]
    BY <2>2 DEF _build_citation, Found, TableSound
  <2>4. ASSUME NEW i \in DOMAIN chunks, FileOf[chunks[i]] \in q.scope \ touched
        PROVE  [id |-> i, text |-> chunks[i], file |-> FileOf[chunks[i]]] \in Result
    <3>1. Found(i) \in q.got
      BY <2>1, <2>2, <2>4 DEF FindsAll, Sure, InScope
    <3> QED
      BY <2>3, <3>1 DEF Result
  <2>5. ASSUME touched = {}, NEW g \in Result
        PROVE  g.file \in q.scope /\ FileOf[g.text] = g.file
    <3>1. PICK i \in InScope : g = _build_citation(Found(i))
      BY <2>2, <2>5 DEF Result, FindsOnly
    <3> QED
      BY <2>3, <3>1 DEF InScope
  <2> QED
    BY <2>4, <2>5
<1> QED
  BY <1>1, SearchStart, SearchNextKeeps, PTL DEF SSpec, SearchIsFaithful
=============================================================================
