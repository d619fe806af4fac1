---------------------------- MODULE EvictionStore ----------------------------
(***************************************************************************)
(* The per-session store of evicted spans of longctx-svc and the routes    *)
(* over it (eviction_store.py, app.py).                                    *)
(*                                                                         *)
(* Every route and the janitor are coroutines without an await inside the  *)
(* store, so they run one at a time on the event loop; only a crash comes  *)
(* between the steps of a hibernation.  A span is a number, in the order   *)
(* of acceptance.  Of time the model keeps whether a last_access is older  *)
(* than the TTL ("idle") and whether a snapshot is older than the cold     *)
(* storage expiry ("old").                                                 *)
(***************************************************************************)
EXTENDS Integers, FiniteSets

CONSTANTS
    Sessions,      \* session ids
    Models,        \* embedder models a started process may use
    MaxSpans,      \* bound: spans accepted in all
    Disciplined    \* TRUE: clients retrieve at the start of a turn, before they
                   \* write, and hibernate or resume by hand only in a process
                   \* whose embedder is loaded

ASSUME SpansAssumption == MaxSpans \in Nat /\ "none" \notin Models

Absent == [absent |-> TRUE]
NoFingerprint == "none"
Unknown == "unknown"

VARIABLES
    ram,      \* _sessions: Absent or [chunks, idle, bm25_dirty, bm25]
    pkl,      \* chunks.pkl: Absent or [spans]
    meta,     \* metadata.json: Absent or [fp, idle, old]
    fp,       \* _embedder_fingerprint
    model,    \* the model this process would load
    handler,     \* what the event loop is in the middle of
    written,  \* ghost: spans accepted so far
    turn,     \* the client of a session has retrieved in its current turn
    findable, \* ghost: spans a retrieve must be able to find
    durable   \* ghost: spans a completed hibernation put on disk

evars == <<ram, pkl, meta, fp, model, handler, written, turn, findable, durable>>
disk == <<pkl, meta>>
ghosts == <<written, turn, findable, durable>>

IdleHandler == [at |-> "idle", by |-> "api", todo |-> {}, sid |-> Absent, copy |-> {}, idle |-> FALSE]

EvictInit ==
    /\ ram = [s \in Sessions |-> Absent]
    /\ pkl = [s \in Sessions |-> Absent]
    /\ meta = [s \in Sessions |-> Absent]
    /\ fp = NoFingerprint
    /\ model \in Models
    /\ handler = IdleHandler
    /\ written = 0
    /\ turn = [s \in Sessions |-> FALSE]
    /\ findable = [s \in Sessions |-> {}]
    /\ durable = [s \in Sessions |-> {}]

InRam(s) == ram[s] # Absent
is_hibernated(s) == pkl[s] # Absent /\ meta[s] # Absent
EmbedderLoaded == fp # NoFingerprint

-----------------------------------------------------------------------------
(* write and retrieve *)

\* setdefault, extend, touch, mark BM25 stale.
Extended(e, new) ==
    IF e = Absent
    THEN [chunks |-> new, idle |-> FALSE, bm25_dirty |-> TRUE, bm25 |-> {}]
    ELSE [e EXCEPT !.chunks = @ \cup new, !.idle = FALSE, !.bm25_dirty = TRUE]

evict_write(s) ==
    /\ handler.at = "idle"
    /\ written < MaxSpans
    /\ Disciplined => turn[s]
    /\ LET new == {written + 1} IN
       /\ ram' = [ram EXCEPT ![s] = Extended(@, new)]
       /\ findable' = [findable EXCEPT ![s] = @ \cup new]
    /\ written' = written + 1
    /\ fp' = model
    /\ UNCHANGED <<disk, model, handler, turn, durable>>

\* resume refuses a snapshot of another model, but only once a model is loaded.
CanResume(s) ==
    /\ is_hibernated(s)
    /\ EmbedderLoaded => meta[s].fp = fp

\* The entry resume installs: it takes the place of what is in memory.
Resumed(s) ==
    [chunks |-> pkl[s].spans, idle |-> meta[s].idle, bm25_dirty |-> TRUE, bm25 |-> {}]

maybe_resume(s) ==
    IF ~InRam(s) /\ CanResume(s) THEN Resumed(s) ELSE ram[s]

_rebuild_bm25(e) == [e EXCEPT !.bm25 = e.chunks, !.bm25_dirty = FALSE]

\* A retrieve touches the session and, when it is hybrid, brings BM25 up to
\* date.  Which spans win (score fusion, floor, top_k, rerank) is left out.
Retrieved(e, hybrid) ==
    LET touched == [e EXCEPT !.idle = FALSE] IN
    IF hybrid /\ e.bm25_dirty THEN _rebuild_bm25(touched) ELSE touched

evict_retrieve(s) ==
    /\ handler.at = "idle"
    /\ LET e == maybe_resume(s) IN
       \/ /\ e = Absent
          /\ UNCHANGED <<ram, fp>>
       \/ /\ e # Absent
          /\ \E hybrid \in BOOLEAN : ram' = [ram EXCEPT ![s] = Retrieved(e, hybrid)]
          /\ fp' = model
    /\ turn' = [turn EXCEPT ![s] = TRUE]
    /\ UNCHANGED <<disk, model, handler, written, findable, durable>>

session_resume(s) ==
    /\ handler.at = "idle"
    /\ Disciplined => EmbedderLoaded /\ ~InRam(s)
    /\ CanResume(s)
    /\ ram' = [ram EXCEPT ![s] = Resumed(s)]
    /\ UNCHANGED <<disk, fp, model, handler, ghosts>>

-----------------------------------------------------------------------------
(* hibernate: copy, replace chunks.pkl, replace metadata.json, drop *)

Copy(s, by, todo) ==
    handler' = [at |-> "pkl", by |-> by, todo |-> todo, sid |-> s,
             copy |-> ram[s].chunks, idle |-> ram[s].idle]

AfterHibernate ==
    handler' = IF handler.by = "api" THEN IdleHandler ELSE [IdleHandler EXCEPT !.at = "next", !.todo = handler.todo]

\* Hibernating by hand ends the client's turn.
session_hibernate(s) ==
    /\ handler.at = "idle"
    /\ Disciplined => EmbedderLoaded
    /\ InRam(s)
    /\ Copy(s, "api", {})
    /\ turn' = [turn EXCEPT ![s] = FALSE]
    /\ UNCHANGED <<ram, disk, fp, model, written, findable, durable>>

\* Mutant: the session leaves memory as soon as chunks.pkl is in place.
ReplaceChunksAndDrop ==
    /\ handler.at = "pkl"
    /\ pkl' = [pkl EXCEPT ![handler.sid] = [spans |-> handler.copy]]
    /\ ram' = [ram EXCEPT ![handler.sid] = Absent]
    /\ handler' = [handler EXCEPT !.at = "meta"]
    /\ UNCHANGED <<meta, fp, model, ghosts>>

ReplaceChunks ==
    /\ handler.at = "pkl"
    /\ pkl' = [pkl EXCEPT ![handler.sid] = [spans |-> handler.copy]]
    /\ handler' = [handler EXCEPT !.at = "meta"]
    /\ UNCHANGED <<ram, meta, fp, model, ghosts>>

ReplaceMeta ==
    /\ handler.at = "meta"
    /\ meta' = [meta EXCEPT ![handler.sid] = [fp |-> IF EmbedderLoaded THEN fp ELSE Unknown,
                                           idle |-> handler.idle, old |-> FALSE]]
    /\ handler' = [handler EXCEPT !.at = "drop"]
    /\ UNCHANGED <<ram, pkl, fp, model, ghosts>>

\* Mutant: the snapshot is written but the session stays in memory.
SnapshotOnly ==
    /\ handler.at = "drop"
    /\ durable' = [durable EXCEPT ![handler.sid] = pkl[handler.sid].spans]
    /\ AfterHibernate
    /\ UNCHANGED <<ram, disk, fp, model, written, turn, findable>>

DropFromRam ==
    /\ handler.at = "drop"
    /\ ram' = [ram EXCEPT ![handler.sid] = Absent]
    /\ durable' = [durable EXCEPT ![handler.sid] = pkl[handler.sid].spans]
    /\ AfterHibernate
    /\ UNCHANGED <<disk, fp, model, written, turn, findable>>

clear(s) ==
    /\ ram' = [ram EXCEPT ![s] = Absent]
    /\ findable' = [findable EXCEPT ![s] = IF is_hibernated(s) THEN @ \cap pkl[s].spans ELSE {}]

\* The disk refuses a write: the route answers 500 and keeps the session, the
\* janitor drops it.
HibernateFails ==
    /\ handler.at \in {"pkl", "meta"}
    /\ \/ /\ handler.by = "api"
          /\ UNCHANGED <<ram, findable>>
       \/ /\ handler.by = "janitor"
          /\ clear(handler.sid)
    /\ AfterHibernate
    /\ UNCHANGED <<disk, fp, model, written, turn, durable>>

-----------------------------------------------------------------------------
(* the janitor, cold storage expiry, time and crashes *)

evict_idle ==
    LET stale == {s \in Sessions : InRam(s) /\ ram[s].idle} IN
    /\ handler.at = "idle"
    /\ stale # {}
    /\ handler' = [IdleHandler EXCEPT !.at = "next", !.by = "janitor", !.todo = stale]
    /\ UNCHANGED <<ram, disk, fp, model, ghosts>>

JanitorNext ==
    /\ handler.at = "next"
    /\ \/ /\ handler.todo = {}
          /\ handler' = IdleHandler
       \/ \E s \in handler.todo : Copy(s, "janitor", handler.todo \ {s})
    /\ UNCHANGED <<ram, disk, fp, model, ghosts>>

forget_hibernated(s) ==
    /\ pkl' = [pkl EXCEPT ![s] = Absent]
    /\ meta' = [meta EXCEPT ![s] = Absent]

\* A directory without metadata counts as expired.
disk_lru_cleanup(s) ==
    /\ handler.at = "idle"
    /\ pkl[s] # Absent \/ meta[s] # Absent
    /\ meta[s] # Absent => meta[s].old
    /\ forget_hibernated(s)
    /\ findable' = [findable EXCEPT ![s] = IF InRam(s) THEN @ \cap ram[s].chunks ELSE {}]
    /\ durable' = [durable EXCEPT ![s] = {}]
    /\ UNCHANGED <<ram, fp, model, handler, written, turn>>

\* Half an hour, or (expire) thirty days, without a request.
TimePasses(expire) ==
    /\ handler.at = "idle"
    /\ ram' = [s \in Sessions |-> IF InRam(s) THEN [ram[s] EXCEPT !.idle = TRUE] ELSE Absent]
    /\ meta' = [s \in Sessions |-> IF meta[s] = Absent THEN Absent
                                   ELSE [meta[s] EXCEPT !.idle = TRUE, !.old = @ \/ expire]]
    /\ turn' = [s \in Sessions |-> FALSE]
    /\ UNCHANGED <<pkl, fp, model, handler, written, findable, durable>>

Restart ==
    /\ ram' = [s \in Sessions |-> Absent]
    /\ fp' = NoFingerprint
    /\ model' \in Models
    /\ handler' = IdleHandler
    /\ turn' = [s \in Sessions |-> FALSE]
    /\ findable' = [s \in Sessions |-> findable[s] \cap durable[s]]
    /\ UNCHANGED <<disk, written, durable>>

EvictRequest ==
    \/ \E s \in Sessions :
          \/ evict_write(s)
          \/ evict_retrieve(s)
          \/ session_resume(s)
          \/ session_hibernate(s)
          \/ disk_lru_cleanup(s)
    \/ \E expire \in BOOLEAN : TimePasses(expire)
    \/ Restart

Continue ==
    \/ ReplaceChunks
    \/ ReplaceMeta
    \/ DropFromRam
    \/ HibernateFails
    \/ JanitorNext

EvictNext == EvictRequest \/ Continue \/ evict_idle

EvictSpec == EvictInit /\ [][EvictNext]_evars

-----------------------------------------------------------------------------
(* Properties *)

Entry == [chunks : SUBSET (1..MaxSpans), idle : BOOLEAN, bm25_dirty : BOOLEAN, bm25 : SUBSET (1..MaxSpans)]

Handler ==
    [at : {"idle", "next", "pkl", "meta", "drop"}, by : {"api", "janitor"}, todo : SUBSET Sessions,
     sid : Sessions \cup {Absent}, copy : SUBSET (1..MaxSpans), idle : BOOLEAN]

\* The type invariant.
EvictTypeOK ==
    /\ ram \in [Sessions -> Entry \cup {Absent}]
    /\ pkl \in [Sessions -> [spans : SUBSET (1..MaxSpans)] \cup {Absent}]
    /\ meta \in [Sessions -> [fp : Models \cup {Unknown}, idle : BOOLEAN, old : BOOLEAN] \cup {Absent}]
    /\ fp \in Models \cup {NoFingerprint} /\ model \in Models
    /\ handler \in Handler
    /\ written \in 0..MaxSpans
    /\ turn \in [Sessions -> BOOLEAN]
    /\ findable \in [Sessions -> SUBSET (1..MaxSpans)]
    /\ durable \in [Sessions -> SUBSET (1..MaxSpans)]

\* A span that was accepted, and neither cleared, expired, dropped by a failed
\* hibernation nor lost with the memory of a crashed process before its first
\* hibernation, is in memory or in the snapshot: hibernating, resuming,
\* writing again and crashing at any point between the two file replacements
\* never lose it ("Drop from RAM after the snapshot is durable").
NoSpanLost ==
    \A s \in Sessions :
        findable[s] \subseteq (IF InRam(s) THEN ram[s].chunks ELSE {})
                          \cup (IF is_hibernated(s) THEN pkl[s].spans ELSE {})

\* Whenever the loop is free, a /evict/retrieve would rank every span that is
\* owed, whatever was hibernated, resumed, written or lost in between: "Resume
\* is transparent to the caller".
RetrieveRanksAll ==
    handler.at = "idle" =>
        \A s \in Sessions : LET e == maybe_resume(s) IN
            findable[s] \subseteq (IF e = Absent THEN {} ELSE e.chunks)

\* The BM25 scores a retrieve adds to the cosine scores belong to the same
\* spans, position by position, or are thrown away and computed anew.
Bm25Aligned ==
    \A s \in Sessions :
        InRam(s) /\ ~ram[s].bm25_dirty => ram[s].bm25 = ram[s].chunks

\* NoSpanLost, RetrieveRanksAll and Bm25Aligned: a span accepted by /evict/write
\* is kept, found and ranked under its own score until it is let go.
SpansKept == NoSpanLost /\ RetrieveRanksAll /\ Bm25Aligned

\* What makes SpansKept inductive, for disciplined clients and one model.  What
\* is in memory has everything owed and everything in the snapshot; what is not
\* has everything owed in the snapshot, which also has what would survive a
\* crash.  Whose client is in its turn is in memory and awake, or nowhere; what
\* the event loop is hibernating is in memory, and the files written so far are
\* copies of it.
Hibernating == handler.at \in {"pkl", "meta", "drop"}
InSnapshot(s) == IF is_hibernated(s) THEN pkl[s].spans ELSE {}
OfProcess == \A s \in Sessions : (InRam(s) => EmbedderLoaded) /\ (meta[s] # Absent => meta[s].fp \in Models)
Owed == \A s \in Sessions :
    /\ findable[s] \cup durable[s] \subseteq 1..written
    /\ findable[s] \cap durable[s] \subseteq InSnapshot(s)
    /\ IF InRam(s) THEN findable[s] \cup InSnapshot(s) \subseteq ram[s].chunks /\ ram[s].chunks \subseteq 1..written
       ELSE findable[s] \subseteq InSnapshot(s)
    /\ pkl[s] # Absent => pkl[s].spans \subseteq 1..written
InTurn == \A s \in Sessions : turn[s] => IF InRam(s) THEN ~ram[s].idle ELSE ~is_hibernated(s)
InHibernation ==
    /\ \A s \in handler.todo : InRam(s) /\ ~turn[s] /\ handler.at # "idle"
    /\ Hibernating =>
         /\ handler.sid \in Sessions \ handler.todo /\ InRam(handler.sid) /\ ~turn[handler.sid]
         /\ handler.copy = ram[handler.sid].chunks
         /\ handler.at # "pkl" => pkl[handler.sid] = [spans |-> handler.copy]
         /\ handler.at = "drop" => meta[handler.sid] # Absent
SpansInv == EvictTypeOK /\ OfProcess /\ Owed /\ InTurn /\ InHibernation /\ Bm25Aligned

\* A session left alone past the TTL leaves memory.
IdleLeavesRam ==
    \A s \in Sessions : (InRam(s) /\ ram[s].idle) ~> (~InRam(s) \/ ~ram[s].idle)
=============================================================================
