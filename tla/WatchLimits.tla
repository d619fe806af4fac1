----------------------------- MODULE WatchLimits -----------------------------
(***************************************************************************)
(* longctx_daemon/watcher.py: what holds the watcher back.  The token       *)
(* bucket between the worker and the indexer and the self-throttle that     *)
(* turns it down, the drain of several projects, stop, and the cleanup tick *)
(* that drops projects whose root is gone and pauses cold ones.  Watcher    *)
(* follows the events of one project in detail; here an event is a unit.    *)
(*                                                                          *)
(* Time is relative: the age of every stamp, up to the age from which on it *)
(* makes no difference.                                                     *)
(***************************************************************************)
EXTENDS Integers, Sequences, FiniteSets, FiniteSetsExt, SequencesExt

CONSTANTS
    Watched,    \* the projects
    Burst,      \* burst of the bucket
    Baseline,   \* embed_chunks_per_second
    MaxQueued,  \* bound: project |-> events queued at once
    Grace,      \* missing_root_grace_days, in ticks
    IdlePause   \* watcher_idle_pause_days, in ticks

ASSUME LimitsAssumption ==
    /\ {Burst, Baseline, IdlePause} \subseteq Nat \ {0} /\ Grace \in Nat
    /\ IsFiniteSet(Watched) /\ MaxQueued \in [Watched -> Nat]

VARIABLES
    queued,     \* project |-> events in its queue
    due,        \* the projects whose debounce has expired
    bucket,     \* _TokenBucket: [rate, tokens, age of _last_refill]
    throttled,  \* _self_throttle_active
    hand,       \* the worker: [pc, ready, left]
    stopped,    \* "run", "asked", "final" (the last drain), "done"
    unapplied,  \* ghost: project |-> events queued and not yet applied
    allow,      \* ghost: what a bucket at the baseline rate would let through
    tier        \* project |-> its _ProjectState as the cleanup tick sees it

qvars == <<queued, due, bucket, throttled, hand, stopped, unapplied, allow>>
limvars == <<qvars, tier>>

AtTop == [pc |-> "top", ready |-> <<>>, left |-> 0]

Never == -1

MostAtOnce == Max({Burst} \cup {MaxQueued[p] : p \in Watched})

(* [on: in _states; stored: in the database; root: exists; missing: age of  *)
(* first_missing_at; idle: age of last_query_at; busy: its queue is not     *)
(* empty; seen: ghost, the time since a tick or add_project saw the root]   *)
Fresh == [on |-> TRUE, stored |-> TRUE, root |-> TRUE, missing |-> Never,
          idle |-> 0, busy |-> FALSE, paused |-> FALSE, seen |-> 0]

LimitsInit ==
    /\ queued = [p \in Watched |-> 0] /\ due = {}
    /\ bucket = [rate |-> Baseline, tokens |-> Burst, age |-> 0]
    /\ throttled = FALSE /\ hand = AtTop /\ stopped = "run"
    /\ unapplied = queued /\ allow = MostAtOnce
    /\ tier = [p \in Watched |-> Fresh]

-----------------------------------------------------------------------------
(* The bucket *)

(* Time passes; sleeps run down, and may take longer than asked. *)
Second ==
    /\ bucket' = [bucket EXCEPT !.age = Min({Burst, @ + 1})]
    /\ hand' = [hand EXCEPT !.left = Max({0, @ - 1})]
    /\ allow' = Min({MostAtOnce, allow + Baseline})
    /\ UNCHANGED <<queued, due, throttled, stopped, unapplied, tier>>

Filled == Min({Burst, bucket.tokens + bucket.age * bucket.rate})

Wait(n) == (n - Filled + bucket.rate - 1) \div bucket.rate

(* Mutant: a batch beyond the burst waits until the tokens are there. *)
AcquireUntilFull(n) ==
    /\ hand.pc = "acquire"
    /\ Filled >= n
    /\ bucket' = [bucket EXCEPT !.tokens = Filled - n, !.age = 0]
    /\ hand' = [hand EXCEPT !.pc = "apply"] /\ allow' = allow - n

(* acquire(n): at once if the tokens are there; else a sleep of the time it  *)
(* takes to earn what is missing.                                            *)
TakeTokens(n) ==
    /\ hand.pc = "acquire"
    /\ IF Filled >= n
       THEN /\ bucket' = [bucket EXCEPT !.tokens = Filled - n, !.age = 0]
            /\ hand' = [hand EXCEPT !.pc = "apply"] /\ allow' = allow - n
       ELSE /\ bucket' = [bucket EXCEPT !.tokens = Filled, !.age = 0]
            /\ hand' = [hand EXCEPT !.pc = "asleep", !.left = Wait(n)]
            /\ UNCHANGED allow

(* Mutant: _last_refill is left at the time before the sleep. *)
WokeKeepsStamp(n) ==
    /\ hand.pc = "asleep" /\ hand.left = 0
    /\ bucket' = [bucket EXCEPT !.tokens = IF n > Burst THEN 0 ELSE Max({0, Filled - n})]
    /\ hand' = [hand EXCEPT !.pc = "apply"] /\ allow' = allow - n

(* After the sleep: a batch beyond the burst leaves the bucket empty, any    *)
(* other takes its tokens from what was earned meanwhile.                    *)
Woke(n) ==
    /\ hand.pc = "asleep" /\ hand.left = 0
    /\ bucket' = [bucket EXCEPT !.tokens = IF n > Burst THEN 0 ELSE Max({0, Filled - n}),
                                !.age = 0]
    /\ hand' = [hand EXCEPT !.pc = "apply"] /\ allow' = allow - n

-----------------------------------------------------------------------------
(* The worker *)

(* From the watch tasks, which _shutdown cancels first, and the mtime walks; *)
(* what a walk still queues after that nobody takes.                         *)
Enqueue(p) ==
    /\ stopped \in {"run", "asked"} /\ queued[p] < MaxQueued[p]
    /\ queued' = [queued EXCEPT ![p] = @ + 1]
    /\ unapplied' = [unapplied EXCEPT ![p] = @ + 1]
    /\ UNCHANGED <<due, bucket, throttled, hand, stopped, allow, tier>>

Expire(p) ==
    /\ queued[p] > 0 /\ due' = due \cup {p}
    /\ UNCHANGED <<queued, bucket, throttled, hand, stopped, unapplied, allow, tier>>

(* The top of _worker_loop: with a new sample of the process's CPU, "high"   *)
(* above the threshold, "low" below 60 % of it, the rate is halved (but      *)
(* never below one) or restored.  Time already passed counts at the new rate. *)
_maybe_self_throttle(cpu) ==
    /\ hand.pc = "top" /\ stopped # "final"
    /\ throttled' = CASE cpu = "high" -> TRUE [] cpu = "low" -> FALSE [] OTHER -> throttled
    /\ bucket' = [bucket EXCEPT !.rate =
                    CASE cpu = "high" /\ ~throttled -> Max({1, Baseline \div 2})
                      [] cpu = "low" /\ throttled -> Baseline
                      [] OTHER -> @]
    /\ hand' = [hand EXCEPT !.pc = "wait"]
    /\ UNCHANGED <<queued, due, stopped, unapplied, allow, tier>>

(* _drain_now takes the queues that are ripe; a timed wait for the first of  *)
(* them comes before, but not in the final drain.                            *)
_drain_now ==
    /\ hand.pc = "wait" /\ (due # {} \/ stopped = "final")
    /\ hand' = [hand EXCEPT !.pc = "next", !.ready = SetToSeq({<<p, queued[p]>> : p \in due})]
    /\ queued' = [p \in Watched |-> IF p \in due THEN 0 ELSE queued[p]] /\ due' = {}
    /\ UNCHANGED <<bucket, throttled, stopped, unapplied, allow, tier>>

(* The next batch, or the end of the drain: back to the loop, or out of it. *)
NextBatch ==
    /\ hand.pc = "next"
    /\ IF hand.ready # <<>>
       THEN hand' = [hand EXCEPT !.pc = "acquire"] /\ UNCHANGED stopped
       ELSE IF stopped = "final"
       THEN hand' = [hand EXCEPT !.pc = "out"] /\ stopped' = "done"
       ELSE hand' = AtTop /\ UNCHANGED stopped
    /\ UNCHANGED <<queued, due, bucket, throttled, unapplied, allow, tier>>

Acquire ==
    /\ hand.ready # <<>> /\ LET n == Head(hand.ready)[2] IN TakeTokens(n) \/ Woke(n)
    /\ UNCHANGED <<queued, due, throttled, stopped, unapplied, tier>>

Applied == LET b == Head(hand.ready) IN [unapplied EXCEPT ![b[1]] = @ - b[2]]

(* to_thread(_apply_events) returns; a failure is logged, not retried. *)
Apply ==
    /\ hand.pc = "apply" /\ unapplied' = Applied
    /\ hand' = [hand EXCEPT !.pc = "next", !.ready = Tail(@)]
    /\ UNCHANGED <<queued, due, bucket, throttled, stopped, allow, tier>>

(* stop() sets the flag that run() waits for ... *)
stop ==
    /\ stopped = "run" /\ stopped' = "asked"
    /\ UNCHANGED <<queued, due, bucket, throttled, hand, unapplied, allow, tier>>

(* ... and _shutdown cancels the worker at its await: what it has taken from *)
(* the queues is dropped, except a batch that its thread is applying, and    *)
(* one more drain begins.                                                    *)
_shutdown ==
    /\ stopped = "asked"
    /\ stopped' = "final" /\ hand' = [AtTop EXCEPT !.pc = "wait"]
    /\ unapplied' = IF hand.pc = "apply" THEN Applied ELSE unapplied
    /\ UNCHANGED <<queued, due, bucket, throttled, allow, tier>>

WorkerSteps ==
    \/ \E cpu \in {"high", "between", "low"} : _maybe_self_throttle(cpu)
    \/ _drain_now \/ NextBatch \/ Acquire \/ Apply

LimitsNext ==
    \/ Second \/ stop \/ _shutdown \/ WorkerSteps
    \/ \E p \in Watched : Enqueue(p) \/ Expire(p)

-----------------------------------------------------------------------------
(* Cleanup *)

Tier(p, t) == tier' = [tier EXCEPT ![p] = t] /\ UNCHANGED qvars

(* The wall clock moves on: the machine may also have been asleep. *)
Day ==
    /\ tier' = [p \in Watched |->
          [tier[p] EXCEPT !.idle = Min({IdlePause, @ + 1}), !.seen = Min({Grace, @ + 1}),
                          !.missing = IF @ = Never THEN @ ELSE Min({Grace, @ + 1})]]
    /\ UNCHANGED qvars

(* The root is removed, unmounted, or comes back; events come and go. *)
RootChanges(p) == Tier(p, [tier[p] EXCEPT !.root = ~@])
QueueChanges(p) == tier[p].on /\ ~tier[p].paused /\ Tier(p, [tier[p] EXCEPT !.busy = ~@])

(* Mutant: a root that is back does not end the count. *)
TierOneKeepsStamp(t) ==
    [t EXCEPT !.missing = IF t.root \/ @ # Never THEN @ ELSE 0, !.seen = IF t.root THEN 0 ELSE @]

(* A missing root is stamped when it is first noticed, the stamp removed     *)
(* when the root is back.                                                    *)
TierOne(t) ==
    [t EXCEPT !.missing = IF t.root THEN Never ELSE IF @ = Never THEN 0 ELSE @,
              !.seen = IF t.root THEN 0 ELSE @]

Dropped(t) == ~t.root /\ TierOne(t).missing >= Grace

TierTwo(t) == [t EXCEPT !.paused = @ \/ (t.idle >= IdlePause /\ ~t.busy)]

(* _cleanup_tick for one project.  After the grace period the project is     *)
(* deleted, and forgotten by the watcher whether or not the deletion went    *)
(* through; the next tick may come at any time.                              *)
_cleanup_tick(p, deleted) ==
    /\ tier[p].on
    /\ Tier(p, IF Dropped(tier[p])
               THEN [TierOne(tier[p]) EXCEPT !.on = FALSE, !.stored = @ /\ ~deleted]
               ELSE TierTwo(TierOne(tier[p])))

(* note_query, and resume_project if the project was paused. *)
note_query(p) == tier[p].on /\ Tier(p, [tier[p] EXCEPT !.idle = 0, !.paused = FALSE])

(* add_project of a root that exists: a new state, or the known one with     *)
(* the stamp and the pause reset and the age of the last query kept.         *)
add_project(p) ==
    /\ tier[p].root
    /\ Tier(p, IF tier[p].on THEN [tier[p] EXCEPT !.missing = Never, !.paused = FALSE, !.seen = 0]
               ELSE Fresh)

Ticks(p) == \E deleted \in BOOLEAN : _cleanup_tick(p, deleted)

TierNext ==
    \/ Day
    \/ \E p \in Watched :
         RootChanges(p) \/ QueueChanges(p) \/ Ticks(p) \/ note_query(p) \/ add_project(p)

LimitsSpec == LimitsInit /\ [][LimitsNext \/ TierNext]_limvars

-----------------------------------------------------------------------------
(* Properties *)

(* The events of a project in a drain, which takes each queue once. *)
TakenFor(p, ready) ==
    LET its == {b \in ToSet(ready) : b[1] = p} IN IF its = {} THEN 0 ELSE (CHOOSE b \in its : TRUE)[2]
InHand(p) == TakenFor(p, hand.ready)

(* No event goes missing between the queue and the indexer, whatever comes   *)
(* in while the worker sleeps in the bucket: until the worker is cancelled,  *)
(* an event not applied is queued or in the worker's hand.                   *)
EventsAccounted ==
    stopped \in {"run", "asked"} => \A p \in Watched : unapplied[p] = queued[p] + InHand(p)

(* Over any stretch of time the indexer is handed at most the events of the  *)
(* burst, or of the largest batch, and the baseline rate for the time gone:  *)
(* neither the self-throttle's changes of rate nor the two ways of sleeping  *)
(* pay out time twice.                                                       *)
RateBounded == allow >= 0

(* A project is deleted only when its root is gone now and no cleanup tick   *)
(* or add_project has seen the root for the whole grace period.              *)
GraceRespected ==
    [][\A p \in Watched : tier[p].stored /\ ~tier'[p].stored
          => ~tier[p].root /\ tier[p].seen >= Grace]_limvars

(* The worker keeps to its limits and to what it was given: EventsAccounted  *)
(* and RateBounded.                                                          *)
LimitsHold == EventsAccounted /\ RateBounded

(* What makes GraceRespected inductive: the stamp never runs ahead of the    *)
(* time since the root was seen.                                             *)
TierStates ==
    [on : BOOLEAN, stored : BOOLEAN, root : BOOLEAN, missing : 0..Grace \cup {Never},
     idle : 0..IdlePause, busy : BOOLEAN, paused : BOOLEAN, seen : 0..Grace]
GraceInv ==
    /\ tier \in [Watched -> TierStates]
    /\ \A p \in Watched : tier[p].missing <= tier[p].seen

(* What makes LimitsHold inductive.  The batches in hand are of different    *)
(* projects and no larger than a queue; what the bucket would pay out at the *)
(* baseline rate is allowed, and so is the batch the worker sleeps for when  *)
(* it wakes.                                                                 *)
EachOnce(ready) == \A i, j \in DOMAIN ready : ready[i][1] = ready[j][1] => i = j

HandInv ==
    /\ hand \in [pc : {"top", "wait", "next", "acquire", "asleep", "apply", "out"},
                ready : Seq(Watched \X (0..MostAtOnce)), left : Nat]
    /\ hand.pc \in {"top", "wait", "out"} => hand.ready = <<>>
    /\ hand.pc \in {"acquire", "asleep", "apply"} => hand.ready # <<>>
    /\ EachOnce(hand.ready)

QueueInv ==
    /\ stopped \in {"run", "asked", "final", "done"} /\ due \subseteq Watched
    /\ queued \in [Watched -> Nat] /\ \A p \in Watched : queued[p] <= MaxQueued[p]
    /\ unapplied \in [Watched -> Int]
    /\ EventsAccounted

BucketInv ==
    /\ bucket \in [rate : 1..Baseline, tokens : 0..Burst, age : 0..Burst]
    /\ allow \in 0..MostAtOnce
    /\ allow >= Burst \/ allow >= bucket.tokens + bucket.age * Baseline
    /\ hand.pc = "asleep" => allow + hand.left * Baseline >= Head(hand.ready)[2]

LimitsInv == HandInv /\ QueueInv /\ BucketInv

(* The worker is never stuck: every queue is taken up or the watcher         *)
(* stopped, a batch larger than the burst passes the bucket too, and a stop  *)
(* ends.  A root that stays away ends with the project dropped, paused or    *)
(* not.                                                                      *)
WatcherGoesOn ==
    /\ \A p \in Watched : queued[p] > 0 ~> queued[p] = 0 \/ stopped # "run"
    /\ stopped = "asked" ~> stopped = "done"
    /\ \A p \in Watched : <>[]~tier[p].root => <>[]~tier[p].on
=============================================================================
