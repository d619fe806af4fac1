---------------------------- MODULE ServiceProofs ----------------------------
(***************************************************************************)
(* longctx-svc, for any number of sessions and spans and of scopes, files   *)
(* and requests: the evicted spans of a session are kept and found, what a  *)
(* scope's entry and cache say is so, and a session works in one scope.     *)
(***************************************************************************)
EXTENDS EvictionStore, ScopeRegistry, ScopeTracker, Prompts, Sidecar, SetLemmas, SequenceTheorems, TLAPS

-----------------------------------------------------------------------------
(* Evicted spans.  Disciplined clients, and one embedder model.             *)

Snapshot == [spans : SUBSET (1..MaxSpans)]
Metadata == [fp : Models \cup {Unknown}, idle : BOOLEAN, old : BOOLEAN]

(* A session, a snapshot and its metadata are told from their absence. *)
LEMMA AbsentIsNothing == Absent \notin Entry /\ Absent \notin Snapshot /\ Absent \notin Metadata
<1>1. DOMAIN Absent = {"absent"} /\ "spans" \notin {"absent"} /\ "idle" \notin {"absent"}
  BY DEF Absent
<1>2. (\A e \in Entry : "idle" \in DOMAIN e) /\ (\A e \in Metadata : "idle" \in DOMAIN e)
      /\ (\A e \in Snapshot : "spans" \in DOMAIN e)
  BY DEF Entry, Metadata, Snapshot
<1> QED
  BY <1>1, <1>2, Zenon

(* The entry a write leaves. *)
LEMMA WriteExtends ==
    ASSUME NEW e \in Entry \cup {Absent}, NEW new \in SUBSET (1..MaxSpans)
    PROVE  /\ Extended(e, new) \in Entry /\ Extended(e, new) # Absent
           /\ Extended(e, new).chunks = (IF e = Absent THEN {} ELSE e.chunks) \cup new
           /\ ~Extended(e, new).idle /\ Extended(e, new).bm25_dirty
<1>1. CASE e = Absent
  <2> DEFINE x == [chunks |-> new, idle |-> FALSE, bm25_dirty |-> TRUE, bm25 |-> {}]
  <2>1. x \in Entry /\ x.chunks = new /\ ~x.idle /\ x.bm25_dirty
    BY DEF Entry
  <2>2. Extended(e, new) = x
    BY <1>1 DEF Extended
  <2> HIDE DEF x
  <2> QED
    BY <1>1, <2>1, <2>2, AbsentIsNothing
<1>2. CASE e # Absent
  <2>1. Extended(e, new) = [e EXCEPT !.chunks = @ \cup new, !.idle = FALSE, !.bm25_dirty = TRUE] /\ e \in Entry
    BY <1>2 DEF Extended
  <2>2. e.chunks \cup new \in SUBSET (1..MaxSpans)
    BY <2>1 DEF Entry
  <2> DEFINE c == e.chunks \cup new
  <2> HIDE DEF c
  <2>3. Extended(e, new) = [e EXCEPT !.chunks = c, !.idle = FALSE, !.bm25_dirty = TRUE] /\ c \in SUBSET (1..MaxSpans)
    BY <2>1, <2>2 DEF c
  <2>4. /\ Extended(e, new) \in Entry /\ Extended(e, new).chunks = c
        /\ ~Extended(e, new).idle /\ Extended(e, new).bm25_dirty
    BY <2>1, <2>3 DEF Entry
  <2> QED
    BY <1>2, <2>4, AbsentIsNothing DEF c
<1> QED
  BY <1>1, <1>2

(* The entry a retrieve leaves. *)
LEMMA RetrieveTouches ==
    ASSUME NEW e \in Entry, NEW hybrid \in BOOLEAN
    PROVE  /\ Retrieved(e, hybrid) \in Entry /\ Retrieved(e, hybrid) # Absent
           /\ Retrieved(e, hybrid).chunks = e.chunks /\ ~Retrieved(e, hybrid).idle
           /\ \/ Retrieved(e, hybrid).bm25 = e.chunks
              \/ /\ Retrieved(e, hybrid).bm25 = e.bm25
                 /\ Retrieved(e, hybrid).bm25_dirty = e.bm25_dirty
<1>1. CASE hybrid /\ e.bm25_dirty
  BY <1>1, AbsentIsNothing DEF Retrieved, _rebuild_bm25, Entry
<1>2. CASE ~(hybrid /\ e.bm25_dirty)
  BY <1>2, AbsentIsNothing DEF Retrieved, Entry
<1> QED
  BY <1>1, <1>2

OneModel == Disciplined /\ \A m, n \in Models : m = n

(* Then a snapshot can always be resumed, as it is and whole. *)
LEMMA SnapshotResumes ==
    ASSUME OneModel, SpansInv, NEW s \in Sessions
    PROVE  /\ CanResume(s) <=> is_hibernated(s)
           /\ is_hibernated(s) =>
                /\ Resumed(s) \in Entry /\ Resumed(s) # Absent /\ Resumed(s).chunks = pkl[s].spans
                /\ Resumed(s).bm25_dirty
<1>1. CanResume(s) <=> is_hibernated(s)
  BY DEF OneModel, CanResume, SpansInv, OfProcess, EvictTypeOK, EmbedderLoaded, is_hibernated
<1>2. ASSUME is_hibernated(s)
      PROVE  /\ Resumed(s) \in Entry /\ Resumed(s).chunks = pkl[s].spans /\ Resumed(s).bm25_dirty
  <2>1. pkl[s] \in Snapshot /\ meta[s] \in Metadata
    BY <1>2 DEF is_hibernated, SpansInv, EvictTypeOK, Snapshot, Metadata
  <2> QED
    BY <2>1 DEF Resumed, Entry, Snapshot, Metadata
<1> QED
  BY <1>1, <1>2, AbsentIsNothing

(* A request that leaves an entry with all that is owed in memory. *)
LEMMA PutInRam ==
    ASSUME SpansInv, NEW s \in Sessions, NEW x \in Entry, handler.at = "idle",
           ram' = [ram EXCEPT ![s] = x], UNCHANGED <<pkl, meta, model, handler, durable>>, fp' \in Models,
           written' \in written..MaxSpans,
           NEW new \in SUBSET (1..written'), findable' = [findable EXCEPT ![s] = @ \cup new],
           findable[s] \cup InSnapshot(s) \cup new \subseteq x.chunks, x.chunks \subseteq 1..written',
           new \cap durable[s] = {},
           turn' \in [Sessions -> BOOLEAN], \A t \in Sessions \ {s} : turn'[t] = turn[t],
           turn'[s] => ~x.idle, ~x.bm25_dirty => x.bm25 = x.chunks
    PROVE  SpansInv'
<1>1. /\ EvictTypeOK /\ OfProcess /\ Owed /\ InTurn /\ InHibernation /\ Bm25Aligned
      /\ x # Absent /\ MaxSpans \in Nat /\ written \in Nat /\ NoFingerprint \notin Models
  BY AbsentIsNothing, SpansAssumption DEF SpansInv, EvictTypeOK, NoFingerprint
<1>2. /\ \A t \in Sessions : InRam(t)' <=> t = s \/ InRam(t)
      /\ \A t \in Sessions : (is_hibernated(t)' <=> is_hibernated(t)) /\ InSnapshot(t)' = InSnapshot(t)
      /\ \A t \in Sessions : t # s => ram'[t] = ram[t]
      /\ ram'[s] = x
  BY <1>1 DEF EvictTypeOK, InRam, is_hibernated, InSnapshot
<1>3. EvictTypeOK'
  <2>1. new \in SUBSET (1..MaxSpans) /\ written' \in 0..MaxSpans
    BY <1>1 DEF EvictTypeOK
  <2> QED
    BY <1>1, <2>1 DEF EvictTypeOK
<1>4. OfProcess'
  BY <1>1, <1>2 DEF OfProcess, EmbedderLoaded
<1>5. Owed'
  <2> SUFFICES ASSUME NEW t \in Sessions
               PROVE  /\ findable'[t] \cup durable[t] \subseteq 1..written'
                      /\ findable'[t] \cap durable[t] \subseteq InSnapshot(t)
                      /\ IF InRam(t)' THEN findable'[t] \cup InSnapshot(t) \subseteq ram'[t].chunks /\ ram'[t].chunks \subseteq 1..written'
                         ELSE findable'[t] \subseteq InSnapshot(t)
                      /\ pkl[t] # Absent => pkl[t].spans \subseteq 1..written'
    BY <1>2 DEF Owed
  <2>1. 1..written \subseteq 1..written'
    BY <1>1
  <2>2. /\ findable[t] \cup durable[t] \subseteq 1..written
        /\ findable[t] \cap durable[t] \subseteq InSnapshot(t)
        /\ IF InRam(t) THEN findable[t] \cup InSnapshot(t) \subseteq ram[t].chunks /\ ram[t].chunks \subseteq 1..written
           ELSE findable[t] \subseteq InSnapshot(t)
        /\ pkl[t] # Absent => pkl[t].spans \subseteq 1..written
    BY <1>1 DEF Owed
  <2>3. CASE t = s
    <3>1. findable'[t] = findable[t] \cup new
      BY <1>1, <2>3 DEF EvictTypeOK
    <3> QED
      BY <1>2, <2>1, <2>2, <2>3, <3>1
  <2>4. CASE t # s
    <3>1. findable'[t] = findable[t]
      BY <1>1, <2>4 DEF EvictTypeOK
    <3> QED
      BY <1>2, <2>1, <2>2, <2>4, <3>1
  <2> QED
    BY <2>3, <2>4
<1>6. InTurn'
  BY <1>1, <1>2 DEF InTurn
<1>7. InHibernation'
  BY <1>1 DEF InHibernation, Hibernating
<1>8. Bm25Aligned'
  BY <1>1, <1>2 DEF Bm25Aligned
<1> QED
  BY <1>3, <1>4, <1>5, <1>6, <1>7, <1>8 DEF SpansInv

(* A write: its session is in memory, or has nothing on disk. *)
LEMMA WriteKeeps ==
    ASSUME OneModel, SpansInv, NEW s \in Sessions, evict_write(s)
    PROVE  SpansInv'
<1> DEFINE new == {written + 1}
           x == Extended(ram[s], new)
<1>1. /\ written + 1 \in 1..MaxSpans /\ written' = written + 1 /\ written \in Nat /\ MaxSpans \in Nat
      /\ turn[s] /\ ram[s] \in Entry \cup {Absent} /\ handler.at = "idle"
      /\ ram' = [ram EXCEPT ![s] = x] /\ findable' = [findable EXCEPT ![s] = @ \cup new]
      /\ fp' = model /\ model \in Models /\ UNCHANGED <<pkl, meta, model, handler, turn, durable>>
  BY SpansAssumption DEF OneModel, SpansInv, EvictTypeOK, evict_write, disk
<1>2. /\ x \in Entry /\ x.chunks = (IF InRam(s) THEN ram[s].chunks ELSE {}) \cup new /\ ~x.idle /\ x.bm25_dirty
  BY <1>1, WriteExtends DEF InRam
<1>3. InRam(s) \/ InSnapshot(s) = {}
  BY <1>1 DEF SpansInv, InTurn, InSnapshot
<1>4. findable[s] \cup InSnapshot(s) \subseteq (IF InRam(s) THEN ram[s].chunks ELSE {}) /\ durable[s] \subseteq 1..written
      /\ (IF InRam(s) THEN ram[s].chunks ELSE {}) \subseteq 1..written
  BY <1>3 DEF SpansInv, Owed
<1>5. new \cap durable[s] = {} /\ new \in SUBSET (1..written') /\ 1..written \subseteq 1..written'
      /\ written' \in written..MaxSpans
  BY <1>1, <1>4
<1>6. turn' \in [Sessions -> BOOLEAN]
  BY <1>1 DEF SpansInv, EvictTypeOK
<1> HIDE DEF x, new
<1> QED
  BY <1>1, <1>2, <1>4, <1>5, <1>6, PutInRam

(* A retrieve that finds the session, in memory or on disk, wakes it. *)
LEMMA RetrieveKeeps ==
    ASSUME OneModel, SpansInv, NEW s \in Sessions, evict_retrieve(s)
    PROVE  SpansInv'
<1> DEFINE e == maybe_resume(s)
<1>1. /\ handler.at = "idle" /\ turn' = [turn EXCEPT ![s] = TRUE] /\ turn \in [Sessions -> BOOLEAN]
      /\ UNCHANGED <<pkl, meta, model, handler, written, findable, durable>>
      /\ ram \in [Sessions -> Entry \cup {Absent}] /\ findable \in [Sessions -> SUBSET (1..MaxSpans)]
      /\ written \in 0..MaxSpans /\ MaxSpans \in Nat
  BY SpansAssumption DEF SpansInv, EvictTypeOK, evict_retrieve, disk
<1>2. e = IF ~InRam(s) /\ is_hibernated(s) THEN Resumed(s) ELSE ram[s]
  BY SnapshotResumes DEF maybe_resume
<1>3. CASE e = Absent
  <2>1. ~InRam(s) /\ ~is_hibernated(s) /\ UNCHANGED <<ram, fp>>
    BY <1>1, <1>2, <1>3, SnapshotResumes, AbsentIsNothing DEF evict_retrieve, InRam
  <2>2. EvictTypeOK'
    BY <1>1, <2>1 DEF SpansInv, EvictTypeOK
  <2>3. OfProcess' /\ Owed' /\ Bm25Aligned'
    BY <1>1, <2>1 DEF SpansInv, OfProcess, Owed, Bm25Aligned, InRam, InSnapshot, is_hibernated, EmbedderLoaded
  <2>4. InTurn' /\ InHibernation'
    BY <1>1, <2>1 DEF SpansInv, InTurn, InHibernation, Hibernating, InRam, is_hibernated
  <2> QED
    BY <2>2, <2>3, <2>4 DEF SpansInv
<1>4. CASE e # Absent
  <2>1. PICK hybrid \in BOOLEAN : ram' = [ram EXCEPT ![s] = Retrieved(e, hybrid)]
    BY <1>4 DEF evict_retrieve
  <2>2. e \in Entry
    BY <1>1, <1>2, <1>4, SnapshotResumes DEF InRam
  <2> DEFINE x == Retrieved(e, hybrid)
  <2>3. /\ x \in Entry /\ x # Absent /\ x.chunks = e.chunks /\ ~x.idle
        /\ x.bm25 = e.chunks \/ (x.bm25 = e.bm25 /\ x.bm25_dirty = e.bm25_dirty)
    BY <2>2, RetrieveTouches
  <2>4. ~e.bm25_dirty => e.bm25 = e.chunks
    BY <1>2, SnapshotResumes, <1>4 DEF SpansInv, Bm25Aligned, InRam
  <2>5. findable[s] \cup InSnapshot(s) \subseteq e.chunks /\ e.chunks \subseteq 1..written
    BY <1>2, <1>4, SnapshotResumes DEF SpansInv, Owed, InSnapshot, InRam, is_hibernated
  <2>6. fp' \in Models
    BY <1>4 DEF evict_retrieve, SpansInv, EvictTypeOK
  <2>7. /\ findable' = [findable EXCEPT ![s] = @ \cup {}] /\ {} \in SUBSET (1..written')
        /\ turn' \in [Sessions -> BOOLEAN] /\ (\A t \in Sessions \ {s} : turn'[t] = turn[t])
        /\ written' \in written..MaxSpans /\ {} \cap durable[s] = {}
    BY <1>1
  <2> HIDE DEF x, e
  <2>8. findable[s] \cup InSnapshot(s) \cup {} \subseteq x.chunks /\ x.chunks \subseteq 1..written'
        /\ (turn'[s] => ~x.idle) /\ (~x.bm25_dirty => x.bm25 = x.chunks)
    BY <1>1, <2>3, <2>4, <2>5
  <2>9. ram' = [ram EXCEPT ![s] = x] /\ UNCHANGED <<pkl, meta, model, handler, durable>>
    BY <1>1, <2>1 DEF x
  <2> QED
    BY <1>1, <2>3, <2>6, <2>7, <2>8, <2>9, PutInRam
<1> QED
  BY <1>3, <1>4

(* A resume by hand: the session is not in memory. *)
LEMMA ResumeKeeps ==
    ASSUME OneModel, SpansInv, NEW s \in Sessions, session_resume(s)
    PROVE  SpansInv'
<1> DEFINE x == Resumed(s)
<1>1. /\ handler.at = "idle" /\ ~InRam(s) /\ is_hibernated(s) /\ EmbedderLoaded
      /\ ram' = [ram EXCEPT ![s] = x] /\ UNCHANGED <<pkl, meta, fp, model, handler, written, turn, findable, durable>>
  BY SnapshotResumes DEF session_resume, OneModel, disk, ghosts
<1>2. x \in Entry /\ x.chunks = pkl[s].spans /\ x.bm25_dirty
  BY <1>1, SnapshotResumes
<1> HIDE DEF x
<1>3. findable[s] \cup InSnapshot(s) \cup {} \subseteq x.chunks /\ x.chunks \subseteq 1..written'
  BY <1>1, <1>2 DEF SpansInv, Owed, InSnapshot, is_hibernated
<1>4. ~turn[s]
  BY <1>1 DEF SpansInv, InTurn
<1>5. /\ fp' \in Models /\ written' \in written..MaxSpans /\ turn' \in [Sessions -> BOOLEAN]
      /\ findable' = [findable EXCEPT ![s] = @ \cup {}] /\ {} \in SUBSET (1..written')
      /\ {} \cap durable[s] = {} /\ (\A t \in Sessions \ {s} : turn'[t] = turn[t])
  BY <1>1, SpansAssumption DEF SpansInv, EvictTypeOK, EmbedderLoaded
<1> QED
  BY <1>1, <1>2, <1>3, <1>4, <1>5, PutInRam

(* What a step that leaves memory, disk and ghosts alone keeps. *)
LEMMA StoreUnchanged ==
    ASSUME SpansInv, UNCHANGED <<ram, pkl, meta, fp, model, written, findable, durable>>
    PROVE  OfProcess' /\ Owed' /\ Bm25Aligned'
BY DEF SpansInv, OfProcess, Owed, Bm25Aligned, InRam, InSnapshot, is_hibernated, EmbedderLoaded

(* The copy of a session that is in memory and out of its turn. *)
LEMMA CopyKeeps ==
    ASSUME SpansInv, NEW s \in Sessions, InRam(s), NEW by \in {"api", "janitor"}, NEW todo \in SUBSET Sessions,
           s \notin todo, \A t \in todo : InRam(t) /\ ~turn[t],
           Copy(s, by, todo), turn' = [turn EXCEPT ![s] = FALSE],
           UNCHANGED <<ram, pkl, meta, fp, model, written, findable, durable>>
    PROVE  SpansInv'
<1>1. EvictTypeOK /\ InTurn /\ ram[s] \in Entry
  BY DEF SpansInv, EvictTypeOK, InRam
<1>2. handler' = [at |-> "pkl", by |-> by, todo |-> todo, sid |-> s, copy |-> ram[s].chunks, idle |-> ram[s].idle]
  BY DEF Copy
<1>3. ram[s].chunks \in SUBSET (1..MaxSpans) /\ ram[s].idle \in BOOLEAN
  BY <1>1 DEF Entry
<1>4. EvictTypeOK'
  <2>1. handler' \in Handler
    BY <1>2, <1>3 DEF Handler
  <2> QED
    BY <1>1, <2>1 DEF EvictTypeOK
<1>5. InTurn' /\ InHibernation'
  BY <1>1, <1>2 DEF InTurn, InHibernation, Hibernating, EvictTypeOK, InRam, is_hibernated
<1> QED
  BY <1>4, <1>5, StoreUnchanged DEF SpansInv

(* Hibernating by hand, and the janitor's choice of the next session. *)
LEMMA BeginKeeps ==
    ASSUME SpansInv, (\E s \in Sessions : session_hibernate(s)) \/ evict_idle \/ JanitorNext
    PROVE  SpansInv'
<1>0. EvictTypeOK /\ InTurn /\ InHibernation
  BY DEF SpansInv
<1>1. ASSUME NEW s \in Sessions, session_hibernate(s) PROVE SpansInv'
  <2>1. InRam(s) /\ Copy(s, "api", {}) /\ turn' = [turn EXCEPT ![s] = FALSE]
        /\ UNCHANGED <<ram, pkl, meta, fp, model, written, findable, durable>>
    BY <1>1 DEF session_hibernate, disk
  <2>2. "api" \in {"api", "janitor"} /\ {} \in SUBSET Sessions /\ s \notin {} /\ \A t \in {} : InRam(t) /\ ~turn[t]
    OBVIOUS
  <2> QED
    BY <2>1, <2>2, CopyKeeps, Zenon
<1>2. ASSUME evict_idle PROVE SpansInv'
  <2> DEFINE stale == {s \in Sessions : InRam(s) /\ ram[s].idle}
  <2>1. /\ handler' = [IdleHandler EXCEPT !.at = "next", !.by = "janitor", !.todo = stale]
        /\ UNCHANGED <<ram, pkl, meta, fp, model, written, turn, findable, durable>>
    BY <1>2 DEF evict_idle, disk, ghosts
  <2>2. stale \subseteq Sessions /\ \A s \in stale : InRam(s) /\ ~turn[s]
    BY <1>0 DEF InTurn
  <2> HIDE DEF stale
  <2>3. handler' = [at |-> "next", by |-> "janitor", todo |-> stale, sid |-> Absent, copy |-> {}, idle |-> FALSE]
    BY <2>1 DEF IdleHandler
  <2>4. EvictTypeOK'
    <3>1. handler' \in Handler
      BY <2>2, <2>3 DEF Handler
    <3> QED
      BY <1>0, <2>1, <3>1 DEF EvictTypeOK
  <2>5. InTurn' /\ InHibernation'
    BY <1>0, <2>1, <2>2, <2>3 DEF InTurn, InHibernation, Hibernating, InRam, is_hibernated
  <2> QED
    BY <2>1, <2>4, <2>5, StoreUnchanged DEF SpansInv
<1>3. ASSUME JanitorNext PROVE SpansInv'
  <2>1. UNCHANGED <<ram, pkl, meta, fp, model, written, turn, findable, durable>> /\ handler.at = "next"
    BY <1>3 DEF JanitorNext, disk, ghosts
  <2>2. CASE handler' = IdleHandler
    <3>1. EvictTypeOK'
      BY <1>0, <2>1, <2>2 DEF EvictTypeOK, IdleHandler, Handler
    <3>2. InTurn' /\ InHibernation'
      BY <1>0, <2>1, <2>2 DEF InTurn, InHibernation, Hibernating, IdleHandler, InRam, is_hibernated
    <3> QED
      BY <2>1, <3>1, <3>2, StoreUnchanged DEF SpansInv
  <2>3. ASSUME NEW s \in handler.todo, Copy(s, "janitor", handler.todo \ {s}) PROVE SpansInv'
    <3> DEFINE todo == handler.todo \ {s}
    <3>1. s \in Sessions /\ handler.todo \subseteq Sessions /\ InRam(s) /\ ~turn[s]
          /\ \A t \in todo : InRam(t) /\ ~turn[t]
      BY <1>0 DEF EvictTypeOK, InHibernation, Handler
    <3>2. turn' = [turn EXCEPT ![s] = FALSE]
      BY <1>0, <2>1, <3>1 DEF EvictTypeOK
    <3>3. todo \in SUBSET Sessions /\ s \notin todo /\ Copy(s, "janitor", todo)
      BY <2>3, <3>1
    <3> HIDE DEF todo
    <3> QED
      BY <2>1, <3>1, <3>2, <3>3, CopyKeeps
  <2> QED
    BY <1>3, <2>2, <2>3 DEF JanitorNext
<1> QED
  BY <1>1, <1>2, <1>3

(* Replacing the two files leaves a copy of memory on disk. *)
LEMMA ReplaceKeeps ==
    ASSUME OneModel, SpansInv, ReplaceChunks \/ ReplaceMeta
    PROVE  SpansInv'
<1> DEFINE s == handler.sid
<1>0. /\ EvictTypeOK /\ OfProcess /\ Owed /\ InTurn /\ InHibernation /\ Bm25Aligned
      /\ UNCHANGED <<ram, fp, model, written, turn, findable, durable>> /\ Hibernating
      /\ s \in Sessions /\ InRam(s) /\ ~turn[s] /\ handler.copy = ram[s].chunks /\ s \notin handler.todo
      /\ ram[s] \in Entry /\ EmbedderLoaded
  BY DEF SpansInv, ReplaceChunks, ReplaceMeta, InHibernation, Hibernating, ghosts, EvictTypeOK, InRam, OfProcess
<1>1. findable[s] \subseteq handler.copy /\ handler.copy \subseteq 1..written /\ handler.copy \in SUBSET (1..MaxSpans)
  BY <1>0 DEF Owed, EvictTypeOK, Handler
<1>2. Bm25Aligned'
  BY <1>0 DEF Bm25Aligned, InRam
<1>3. CASE ReplaceChunks
  <2> DEFINE x == [spans |-> handler.copy]
  <2>1. /\ pkl' = [pkl EXCEPT ![s] = x] /\ meta' = meta /\ handler.at = "pkl"
        /\ handler' = [handler EXCEPT !.at = "meta"]
    BY <1>3 DEF ReplaceChunks
  <2>2. x \in Snapshot /\ x # Absent /\ x.spans = handler.copy
    BY <1>1, AbsentIsNothing DEF Snapshot
  <2>3. /\ handler'.at = "meta" /\ handler'.sid = s /\ handler'.copy = handler.copy /\ handler'.todo = handler.todo
        /\ handler' \in Handler
    BY <1>0, <2>1 DEF EvictTypeOK, Handler
  <2> HIDE DEF x, s
  <2>4. EvictTypeOK'
    BY <1>0, <2>1, <2>2, <2>3 DEF EvictTypeOK, Snapshot
  <2>5. /\ pkl'[s] = x /\ \A t \in Sessions : t # s => pkl'[t] = pkl[t]
    BY <1>0, <2>1 DEF EvictTypeOK
  <2>6. OfProcess' /\ InTurn'
    <3>1. \A t \in Sessions : t # s => (is_hibernated(t)' <=> is_hibernated(t))
      BY <2>1, <2>5 DEF is_hibernated
    <3> QED
      BY <1>0, <2>1, <3>1 DEF OfProcess, InTurn, InRam, EmbedderLoaded
  <2>7. Owed'
    BY <1>0, <1>1, <2>1, <2>2, <2>5 DEF Owed, InSnapshot, is_hibernated, InRam
  <2>8. InHibernation'
    <3>1. pkl'[s] = [spans |-> handler.copy]
      BY <2>5 DEF x
    <3> HIDE DEF x
    <3> QED
      BY <1>0, <2>3, <3>1 DEF InHibernation, Hibernating, InRam
  <2> QED
    BY <1>2, <2>4, <2>6, <2>7, <2>8 DEF SpansInv
<1>4. CASE ReplaceMeta
  <2> DEFINE x == [fp |-> fp, idle |-> handler.idle, old |-> FALSE]
  <2>1. /\ meta' = [meta EXCEPT ![s] = x] /\ pkl' = pkl /\ handler.at = "meta"
        /\ handler' = [handler EXCEPT !.at = "drop"]
    BY <1>0, <1>4 DEF ReplaceMeta
  <2>2. fp \in Models /\ handler.idle \in BOOLEAN
    BY <1>0 DEF EvictTypeOK, EmbedderLoaded, Handler
  <2>3. x \in Metadata /\ x # Absent /\ x.fp = fp
    <3>1. x \in Metadata
      BY <2>2 DEF Metadata
    <3>2. x.fp = fp
      OBVIOUS
    <3> HIDE DEF x
    <3> QED
      BY <3>1, <3>2, AbsentIsNothing
  <2>4. /\ handler'.at = "drop" /\ handler'.sid = s /\ handler'.copy = handler.copy /\ handler'.todo = handler.todo
        /\ handler' \in Handler
    BY <1>0, <2>1 DEF EvictTypeOK, Handler
  <2>5. pkl[s] = [spans |-> handler.copy]
    BY <1>0, <2>1 DEF InHibernation
  <2>6. pkl[s].spans = handler.copy
    BY <2>5
  <2> HIDE DEF x, s
  <2>7. EvictTypeOK'
    BY <1>0, <2>1, <2>3, <2>4 DEF EvictTypeOK, Metadata
  <2>8. meta'[s] = x /\ \A t \in Sessions : t # s => meta'[t] = meta[t]
    BY <1>0, <2>1 DEF EvictTypeOK
  <2>9. OfProcess' /\ InTurn'
    <3>1. \A t \in Sessions : t # s => (is_hibernated(t)' <=> is_hibernated(t))
      BY <2>1, <2>8 DEF is_hibernated
    <3> QED
      BY <1>0, <2>1, <2>2, <2>3, <2>8, <3>1 DEF OfProcess, InTurn, InRam, EmbedderLoaded
  <2>10. Owed'
    BY <1>0, <1>1, <2>1, <2>3, <2>6, <2>8 DEF Owed, InSnapshot, is_hibernated, InRam
  <2>11. InHibernation'
    BY <1>0, <2>1, <2>3, <2>4, <2>5, <2>8 DEF InHibernation, Hibernating, InRam
  <2> QED
    BY <1>2, <2>7, <2>9, <2>10, <2>11 DEF SpansInv
<1> QED
  BY <1>3, <1>4

(* The event loop goes back to its client, or to the janitor's next session. *)
LEMMA AfterHibernateIs ==
    ASSUME EvictTypeOK, AfterHibernate
    PROVE  /\ handler' \in Handler /\ handler'.at \in {"idle", "next"}
           /\ handler'.todo \subseteq handler.todo /\ (handler'.at = "idle" => handler'.todo = {})
<1>1. CASE handler' = IdleHandler
  BY <1>1 DEF IdleHandler, Handler
<1>2. CASE handler' = [IdleHandler EXCEPT !.at = "next", !.todo = handler.todo]
  <2>1. handler' = [at |-> "next", by |-> "api", todo |-> handler.todo, sid |-> Absent, copy |-> {}, idle |-> FALSE]
    BY <1>2 DEF IdleHandler
  <2>2. handler.todo \in SUBSET Sessions
    BY DEF EvictTypeOK, Handler
  <2> QED
    BY <2>1, <2>2 DEF Handler
<1> QED
  BY <1>1, <1>2 DEF AfterHibernate

(* A session leaves memory: what is owed of it is in the snapshot.           *)
LEMMA LeaveRam ==
    ASSUME SpansInv, Hibernating, NEW s, s = handler.sid, ram' = [ram EXCEPT ![s] = Absent], AfterHibernate,
           UNCHANGED <<pkl, meta, fp, model, written, turn>>,
           findable' \in [Sessions -> SUBSET (1..MaxSpans)], durable' \in [Sessions -> SUBSET (1..MaxSpans)],
           \A t \in Sessions \ {s} : findable'[t] = findable[t] /\ durable'[t] = durable[t],
           findable'[s] \subseteq findable[s] \cap InSnapshot(s), durable'[s] \subseteq 1..written
    PROVE  SpansInv'
<1>1. /\ EvictTypeOK /\ OfProcess /\ Owed /\ InTurn /\ InHibernation /\ Bm25Aligned
      /\ s \in Sessions /\ s \notin handler.todo /\ ~turn[s]
  BY DEF SpansInv, InHibernation
<1>2. /\ handler' \in Handler /\ handler'.at \in {"idle", "next"}
      /\ handler'.todo \subseteq handler.todo /\ (handler'.at = "idle" => handler'.todo = {})
  BY <1>1, AfterHibernateIs
<1>3. /\ ram'[s] = Absent /\ \A t \in Sessions : t # s => ram'[t] = ram[t]
      /\ \A t \in Sessions : (InRam(t)' <=> t # s /\ InRam(t)) /\ (is_hibernated(t)' <=> is_hibernated(t))
                             /\ InSnapshot(t)' = InSnapshot(t)
  BY <1>1 DEF EvictTypeOK, InRam, is_hibernated, InSnapshot
<1>4. EvictTypeOK'
  BY <1>1, <1>2 DEF EvictTypeOK
<1>5. OfProcess' /\ InTurn' /\ Bm25Aligned'
  BY <1>1, <1>3 DEF OfProcess, InTurn, Bm25Aligned, EmbedderLoaded
<1>6. Owed'
  BY <1>1, <1>3 DEF Owed
<1>7. InHibernation'
  <2>1. \A t \in handler'.todo : InRam(t)' /\ ~turn'[t] /\ handler'.at # "idle"
    <3>1. handler.todo \subseteq Sessions
      BY <1>1 DEF EvictTypeOK, Handler
    <3> QED
      BY <1>1, <1>2, <1>3, <3>1 DEF InHibernation
  <2> QED
    BY <1>2, <2>1 DEF InHibernation, Hibernating
<1> QED
  BY <1>4, <1>5, <1>6, <1>7 DEF SpansInv

(* The end of a hibernation, good or bad. *)
LEMMA EndKeeps ==
    ASSUME SpansInv, DropFromRam \/ HibernateFails
    PROVE  SpansInv'
<1> DEFINE s == handler.sid
<1>0. /\ EvictTypeOK /\ InHibernation /\ Owed /\ Hibernating /\ s \in Sessions /\ InRam(s)
      /\ handler.copy = ram[s].chunks /\ findable[s] \subseteq ram[s].chunks /\ ram[s].chunks \subseteq 1..written
      /\ findable \in [Sessions -> SUBSET (1..MaxSpans)] /\ durable \in [Sessions -> SUBSET (1..MaxSpans)]
  BY DEF SpansInv, DropFromRam, HibernateFails, InHibernation, Hibernating, Owed, EvictTypeOK
<1>1. CASE DropFromRam
  <2>1. /\ ram' = [ram EXCEPT ![s] = Absent] /\ durable' = [durable EXCEPT ![s] = pkl[s].spans] /\ AfterHibernate
        /\ UNCHANGED <<pkl, meta, fp, model, written, turn, findable>> /\ handler.at = "drop"
    BY <1>1 DEF DropFromRam, disk
  <2>2. pkl[s] = [spans |-> ram[s].chunks] /\ meta[s] # Absent
    BY <1>0, <2>1 DEF InHibernation
  <2>3. ram[s].chunks \in SUBSET (1..MaxSpans)
    BY <1>0 DEF EvictTypeOK, Entry, InRam
  <2>4. pkl[s] # Absent /\ pkl[s].spans = ram[s].chunks
    <3>1. [spans |-> ram[s].chunks] \in Snapshot
      BY <2>3 DEF Snapshot
    <3>2. pkl[s].spans = ram[s].chunks
      BY <2>2
    <3> QED
      BY <2>2, <3>1, <3>2, AbsentIsNothing
  <2>5. InSnapshot(s) = ram[s].chunks
    BY <2>2, <2>4 DEF InSnapshot, is_hibernated
  <2>6. durable' \in [Sessions -> SUBSET (1..MaxSpans)] /\ durable'[s] \subseteq 1..written
        /\ (\A t \in Sessions \ {s} : findable'[t] = findable[t] /\ durable'[t] = durable[t])
        /\ findable'[s] \subseteq findable[s] \cap InSnapshot(s) /\ findable' \in [Sessions -> SUBSET (1..MaxSpans)]
    BY <1>0, <2>1, <2>3, <2>4, <2>5
  <2> HIDE DEF s
  <2> QED
    BY <1>0, <2>1, <2>6, LeaveRam DEF s
<1>2. ASSUME HibernateFails, UNCHANGED <<ram, findable>> PROVE SpansInv'
  <2>1. UNCHANGED <<ram, pkl, meta, fp, model, written, turn, findable, durable>> /\ AfterHibernate
    BY <1>2 DEF HibernateFails, disk
  <2>2. /\ handler' \in Handler /\ handler'.at \in {"idle", "next"}
        /\ handler'.todo \subseteq handler.todo /\ (handler'.at = "idle" => handler'.todo = {})
    BY <1>0, <2>1, AfterHibernateIs
  <2>3. EvictTypeOK' /\ InTurn' /\ InHibernation'
    BY <1>0, <2>1, <2>2 DEF SpansInv, EvictTypeOK, InTurn, InHibernation, Hibernating, InRam, is_hibernated
  <2> QED
    BY <2>1, <2>3, StoreUnchanged DEF SpansInv
<1>3. ASSUME HibernateFails, clear(s) PROVE SpansInv'
  <2>1. /\ ram' = [ram EXCEPT ![s] = Absent] /\ AfterHibernate
        /\ findable' = [findable EXCEPT ![s] = IF is_hibernated(s) THEN @ \cap pkl[s].spans ELSE {}]
        /\ UNCHANGED <<pkl, meta, fp, model, written, turn, durable>>
    BY <1>3 DEF HibernateFails, clear, disk
  <2>2. findable' = [findable EXCEPT ![s] = @ \cap InSnapshot(s)]
    BY <1>0, <2>1 DEF InSnapshot
  <2>3. findable' \in [Sessions -> SUBSET (1..MaxSpans)] /\ durable' \in [Sessions -> SUBSET (1..MaxSpans)]
        /\ (\A t \in Sessions \ {s} : findable'[t] = findable[t] /\ durable'[t] = durable[t])
        /\ findable'[s] \subseteq findable[s] \cap InSnapshot(s) /\ durable'[s] \subseteq 1..written
    BY <1>0, <2>1, <2>2 DEF Owed
  <2> HIDE DEF s
  <2> QED
    BY <1>0, <2>1, <2>3, LeaveRam DEF s
<1> QED
  BY <1>1, <1>2, <1>3 DEF HibernateFails

(* The expiry of a snapshot. *)
LEMMA CleanupKeeps ==
    ASSUME SpansInv, NEW s \in Sessions, disk_lru_cleanup(s)
    PROVE  SpansInv'
<1>1. /\ EvictTypeOK /\ OfProcess /\ Owed /\ InTurn /\ InHibernation /\ Bm25Aligned
  BY DEF SpansInv
<1>2. /\ handler.at = "idle" /\ UNCHANGED <<ram, fp, model, handler, written, turn>>
      /\ pkl' = [pkl EXCEPT ![s] = Absent] /\ meta' = [meta EXCEPT ![s] = Absent]
      /\ findable' = [findable EXCEPT ![s] = IF InRam(s) THEN @ \cap ram[s].chunks ELSE {}]
      /\ durable' = [durable EXCEPT ![s] = {}]
  BY DEF disk_lru_cleanup, forget_hibernated
<1>3. /\ pkl'[s] = Absent /\ meta'[s] = Absent /\ durable'[s] = {}
      /\ findable'[s] = IF InRam(s) THEN findable[s] \cap ram[s].chunks ELSE {}
      /\ \A t \in Sessions \ {s} : pkl'[t] = pkl[t] /\ meta'[t] = meta[t] /\ durable'[t] = durable[t]
                                   /\ findable'[t] = findable[t]
  BY <1>1, <1>2 DEF EvictTypeOK
<1>4. EvictTypeOK'
  BY <1>1, <1>2 DEF EvictTypeOK
<1>5. OfProcess' /\ Bm25Aligned'
  BY <1>1, <1>2, <1>3 DEF OfProcess, Bm25Aligned, InRam, EmbedderLoaded
<1>6. Owed'
  BY <1>1, <1>2, <1>3 DEF Owed, InRam, InSnapshot, is_hibernated
<1>7. InTurn' /\ InHibernation'
  BY <1>1, <1>2, <1>3 DEF InTurn, InHibernation, Hibernating, InRam, is_hibernated
<1> QED
  BY <1>4, <1>5, <1>6, <1>7 DEF SpansInv

(* Time: sessions fall idle, snapshots grow old, turns are over. *)
LEMMA TimeKeeps ==
    ASSUME SpansInv, NEW expire \in BOOLEAN, TimePasses(expire)
    PROVE  SpansInv'
<1>1. EvictTypeOK /\ OfProcess /\ Owed /\ InTurn /\ InHibernation /\ Bm25Aligned
  BY DEF SpansInv
<1>2. /\ handler.at = "idle" /\ turn' = [s \in Sessions |-> FALSE]
      /\ UNCHANGED <<pkl, fp, model, handler, written, findable, durable>>
  BY DEF TimePasses
<1>3. ASSUME NEW s \in Sessions
      PROVE  /\ ram'[s] \in Entry \cup {Absent} /\ (InRam(s)' <=> InRam(s))
             /\ InRam(s) => /\ ram'[s].chunks = ram[s].chunks /\ ram'[s].bm25 = ram[s].bm25
                            /\ ram'[s].bm25_dirty = ram[s].bm25_dirty
  <2>1. CASE InRam(s)
    <3> DEFINE x == [ram[s] EXCEPT !.idle = TRUE]
    <3>1. ram[s] \in Entry /\ ram'[s] = x
      BY <1>1, <2>1 DEF EvictTypeOK, InRam, TimePasses
    <3>2. x \in Entry /\ x.chunks = ram[s].chunks /\ x.bm25 = ram[s].bm25 /\ x.bm25_dirty = ram[s].bm25_dirty
      BY <3>1 DEF Entry
    <3> HIDE DEF x
    <3> QED
      BY <2>1, <3>1, <3>2, AbsentIsNothing DEF InRam
  <2>2. CASE ~InRam(s)
    <3>1. ram'[s] = Absent
      BY <2>2 DEF TimePasses
    <3> QED
      BY <2>2, <3>1 DEF InRam
  <2> QED
    BY <2>1, <2>2
<1>4. ASSUME NEW s \in Sessions
      PROVE  /\ meta'[s] \in Metadata \cup {Absent} /\ (meta'[s] # Absent <=> meta[s] # Absent)
             /\ meta[s] # Absent => meta'[s].fp = meta[s].fp
  <2>1. CASE meta[s] # Absent
    <3> DEFINE old == meta[s].old \/ expire
               x == [meta[s] EXCEPT !.idle = TRUE, !.old = old]
    <3>1. meta[s] \in Metadata /\ meta'[s] = x
      BY <1>1, <2>1 DEF EvictTypeOK, TimePasses, Metadata
    <3>2. old \in BOOLEAN
      BY <3>1 DEF Metadata
    <3> HIDE DEF old
    <3>3. x \in Metadata /\ x.fp = meta[s].fp
      BY <3>1, <3>2 DEF Metadata
    <3> HIDE DEF x
    <3> QED
      BY <2>1, <3>1, <3>3, AbsentIsNothing
  <2>2. CASE meta[s] = Absent
    <3>1. meta'[s] = Absent
      BY <2>2 DEF TimePasses
    <3> QED
      BY <2>2, <3>1
  <2> QED
    BY <2>1, <2>2
<1>5. \A s \in Sessions : (is_hibernated(s)' <=> is_hibernated(s)) /\ InSnapshot(s)' = InSnapshot(s)
  BY <1>2, <1>4 DEF is_hibernated, InSnapshot
<1>6. EvictTypeOK'
  <2>1. ram' \in [Sessions -> Entry \cup {Absent}]
    BY <1>3 DEF TimePasses
  <2>2. meta' \in [Sessions -> Metadata \cup {Absent}]
    BY <1>4 DEF TimePasses
  <2>3. turn' \in [Sessions -> BOOLEAN]
    BY <1>2
  <2> QED
    BY <1>1, <1>2, <2>1, <2>2, <2>3 DEF EvictTypeOK, Metadata
<1>7. OfProcess' /\ Bm25Aligned'
  BY <1>1, <1>2, <1>3, <1>4 DEF OfProcess, Bm25Aligned, EmbedderLoaded
<1>8. Owed'
  BY <1>1, <1>2, <1>3, <1>5 DEF Owed
<1>9. InTurn' /\ InHibernation'
  BY <1>1, <1>2 DEF InTurn, InHibernation, Hibernating
<1> QED
  BY <1>6, <1>7, <1>8, <1>9 DEF SpansInv

(* A crash: what completed hibernations put on disk is still owed. *)
LEMMA RestartKeeps ==
    ASSUME SpansInv, Restart
    PROVE  SpansInv'
<1>1. EvictTypeOK /\ OfProcess /\ Owed
  BY DEF SpansInv
<1>2. /\ ram' = [s \in Sessions |-> Absent] /\ fp' = NoFingerprint /\ model' \in Models /\ handler' = IdleHandler
      /\ turn' = [s \in Sessions |-> FALSE] /\ findable' = [s \in Sessions |-> findable[s] \cap durable[s]]
      /\ UNCHANGED <<pkl, meta, written, durable>>
  BY DEF Restart, disk
<1>3. EvictTypeOK'
  <2>1. handler' \in Handler
    BY <1>2 DEF IdleHandler, Handler
  <2> QED
    BY <1>1, <1>2, <2>1 DEF EvictTypeOK
<1>4. \A s \in Sessions : ~InRam(s)' /\ (is_hibernated(s)' <=> is_hibernated(s)) /\ InSnapshot(s)' = InSnapshot(s)
  BY <1>2 DEF InRam, is_hibernated, InSnapshot
<1>5. OfProcess' /\ Bm25Aligned' /\ InTurn'
  BY <1>1, <1>2, <1>4 DEF OfProcess, Bm25Aligned, InTurn
<1>6. Owed'
  BY <1>1, <1>2, <1>4 DEF Owed
<1>7. InHibernation'
  <2>1. handler'.todo = {} /\ handler'.at = "idle"
    BY <1>2 DEF IdleHandler
  <2> QED
    BY <2>1 DEF InHibernation, Hibernating
<1> QED
  BY <1>3, <1>5, <1>6, <1>7 DEF SpansInv

(* For any sessions and spans, whatever is hibernated, resumed, cleaned up   *)
(* or lost in a crash, and at whichever step of a hibernation: an accepted   *)
(* span is kept, a retrieve ranks it, and under its own BM25 score.          *)
THEOREM SpansKeptForAll ==
    ASSUME OneModel
    PROVE  EvictSpec => []SpansKept
<1>1. EvictInit => SpansInv
  <2> SUFFICES ASSUME EvictInit PROVE SpansInv
    OBVIOUS
  <2>1. handler.todo = {} /\ handler.at = "idle" /\ handler \in Handler
    BY DEF EvictInit, IdleHandler, Handler
  <2>2. EvictTypeOK
    BY <2>1, SpansAssumption DEF EvictInit, EvictTypeOK
  <2> QED
    BY <2>1, <2>2 DEF EvictInit, SpansInv, OfProcess, Owed, InTurn, InHibernation, Bm25Aligned,
       Hibernating, InRam, InSnapshot, is_hibernated
<1>2. SpansInv /\ [EvictNext]_evars => SpansInv'
  <2> SUFFICES ASSUME SpansInv, [EvictNext]_evars PROVE SpansInv'
    OBVIOUS
  <2>1. CASE UNCHANGED evars
    BY <2>1, StoreUnchanged DEF evars, SpansInv, EvictTypeOK, InTurn, InHibernation, Hibernating, InRam, is_hibernated
  <2> QED
    BY <2>1, WriteKeeps, RetrieveKeeps, ResumeKeeps, BeginKeeps, ReplaceKeeps, EndKeeps, CleanupKeeps, TimeKeeps,
       RestartKeeps DEF EvictNext, EvictRequest, Continue
<1>3. SpansInv => SpansKept
  <2> SUFFICES ASSUME SpansInv PROVE SpansKept
    OBVIOUS
  <2>1. NoSpanLost
    BY DEF SpansInv, Owed, NoSpanLost, InSnapshot
  <2>2. RetrieveRanksAll
    <3> SUFFICES ASSUME NEW s \in Sessions
                 PROVE  findable[s] \subseteq IF maybe_resume(s) = Absent THEN {} ELSE maybe_resume(s).chunks
      BY DEF RetrieveRanksAll
    <3>1. maybe_resume(s) = IF ~InRam(s) /\ is_hibernated(s) THEN Resumed(s) ELSE ram[s]
      BY SnapshotResumes DEF maybe_resume
    <3> QED
      BY <3>1, SnapshotResumes DEF SpansInv, Owed, InSnapshot, InRam
  <2> QED
    BY <2>1, <2>2 DEF SpansKept, SpansInv
<1> QED
  BY <1>1, <1>2, <1>3, PTL DEF EvictSpec

-----------------------------------------------------------------------------
(* Scopes *)

(* What is so of a scope stays so while nothing of it changes. *)
LEMMA SoundElsewhere ==
    ASSUME NEW t, TaskSound(t), CacheSound(t), StatusSound(t), index'[t] = index[t], status'[t] = status[t],
           waiting'[t] = waiting[t], task'[t] = task[t], cache'[t] = cache[t],
           t \in ghost.broken' <=> t \in ghost.broken, t \in ghost.found' <=> t \in ghost.found
    PROVE  TaskSound(t)' /\ CacheSound(t)' /\ StatusSound(t)'
BY DEF TaskSound, CacheSound, StatusSound, Working, Loaded

LEMMA WaitingAre ==
    ASSUME RegistryTypeOK, NEW s \in Scopes
    PROVE  waiting[s].build \in Nat /\ waiting[s].promote \in Nat /\ waiting[s].watch \in Nat
BY DEF RegistryTypeOK, Waiting

(* One thread more or fewer that waits. *)
LEMMA WaitingCounts ==
    ASSUME RegistryTypeOK, NEW s \in Scopes, NEW n \in Nat
    PROVE  /\ waiting' = [waiting EXCEPT ![s].build = n] =>
                /\ waiting' \in [Scopes -> Waiting] /\ waiting'[s].build = n
                /\ waiting'[s].promote = waiting[s].promote /\ waiting'[s].watch = waiting[s].watch
                /\ \A t \in Scopes \ {s} : waiting'[t] = waiting[t]
           /\ waiting' = [waiting EXCEPT ![s].promote = n] =>
                /\ waiting' \in [Scopes -> Waiting] /\ waiting'[s].promote = n
                /\ waiting'[s].build = waiting[s].build /\ waiting'[s].watch = waiting[s].watch
                /\ \A t \in Scopes \ {s} : waiting'[t] = waiting[t]
           /\ waiting' = [waiting EXCEPT ![s].watch = n] =>
                /\ waiting' \in [Scopes -> Waiting] /\ waiting'[s].watch = n
                /\ waiting'[s].build = waiting[s].build /\ waiting'[s].promote = waiting[s].promote
                /\ \A t \in Scopes \ {s} : waiting'[t] = waiting[t]
<1>0. waiting \in [Scopes -> Waiting] /\ waiting[s] \in Waiting
  BY DEF RegistryTypeOK
<1>2. ASSUME waiting' = [waiting EXCEPT ![s].build = n]
      PROVE  /\ waiting' \in [Scopes -> Waiting] /\ waiting'[s].build = n
             /\ waiting'[s].promote = waiting[s].promote /\ waiting'[s].watch = waiting[s].watch
             /\ \A t \in Scopes \ {s} : waiting'[t] = waiting[t]
  <2> DEFINE x == [waiting[s] EXCEPT !.build = n]
  <2>1. waiting' = [waiting EXCEPT ![s] = x]
    BY <1>2
  <2>2. x \in Waiting /\ x.build = n /\ x.promote = waiting[s].promote /\ x.watch = waiting[s].watch
    BY <1>0 DEF Waiting
  <2> HIDE DEF x
  <2> QED
    BY <1>0, <2>1, <2>2
<1>3. ASSUME waiting' = [waiting EXCEPT ![s].promote = n]
      PROVE  /\ waiting' \in [Scopes -> Waiting] /\ waiting'[s].promote = n
             /\ waiting'[s].build = waiting[s].build /\ waiting'[s].watch = waiting[s].watch
             /\ \A t \in Scopes \ {s} : waiting'[t] = waiting[t]
  <2> DEFINE x == [waiting[s] EXCEPT !.promote = n]
  <2>1. waiting' = [waiting EXCEPT ![s] = x]
    BY <1>3
  <2>2. x \in Waiting /\ x.promote = n /\ x.build = waiting[s].build /\ x.watch = waiting[s].watch
    BY <1>0 DEF Waiting
  <2> HIDE DEF x
  <2> QED
    BY <1>0, <2>1, <2>2
<1>4. ASSUME waiting' = [waiting EXCEPT ![s].watch = n]
      PROVE  /\ waiting' \in [Scopes -> Waiting] /\ waiting'[s].watch = n
             /\ waiting'[s].build = waiting[s].build /\ waiting'[s].promote = waiting[s].promote
             /\ \A t \in Scopes \ {s} : waiting'[t] = waiting[t]
  <2> DEFINE x == [waiting[s] EXCEPT !.watch = n]
  <2>1. waiting' = [waiting EXCEPT ![s] = x]
    BY <1>4
  <2>2. x \in Waiting /\ x.watch = n /\ x.build = waiting[s].build /\ x.promote = waiting[s].promote
    BY <1>0 DEF Waiting
  <2> HIDE DEF x
  <2> QED
    BY <1>0, <2>1, <2>2
<1> QED
  BY <1>2, <1>3, <1>4

(* A scope is added to, or taken from, those a ghost tells of. *)
LEMMA GhostChanges ==
    ASSUME RegistryTypeOK, NEW S \in SUBSET Scopes
    PROVE  /\ ghost' = [ghost EXCEPT !.found = S] =>
                /\ ghost' \in [broken : SUBSET Scopes, found : SUBSET Scopes]
                /\ ghost'.found = S /\ ghost'.broken = ghost.broken
           /\ ghost' = [ghost EXCEPT !.broken = S] =>
                /\ ghost' \in [broken : SUBSET Scopes, found : SUBSET Scopes]
                /\ ghost'.broken = S /\ ghost'.found = ghost.found
BY DEF RegistryTypeOK

(* A build is kicked off. *)
LEMMA KickoffKeeps ==
    ASSUME RegistryInv, Kickoff
    PROVE  RegistryInv'
<1>0. PICK s \in Scopes : s = loop.scope
  BY DEF RegistryInv, RegistryTypeOK, Kickoff
<1>1. /\ RegistryTypeOK /\ (\A t \in Scopes : TaskSound(t) /\ CacheSound(t) /\ StatusSound(t))
      /\ status' = [status EXCEPT ![s] = "indexing"] /\ waiting' = [waiting EXCEPT ![s].build = @ + 1]
      /\ loop' = [loop EXCEPT !.at = "next"] /\ UNCHANGED <<index, watcher, pending, task, file, cache>>
      /\ ghost' = [ghost EXCEPT !.found = ghost.found \ {s}] /\ ghost.found \ {s} \in SUBSET Scopes
  BY <1>0 DEF RegistryInv, RegistryTypeOK, Kickoff
<1>2. loop' \in Handling /\ loop'.at = "next"
  BY <1>1 DEF RegistryTypeOK, Handling
<1>3. waiting[s].build \in Nat /\ waiting[s].build + 1 \in Nat
  BY <1>1, WaitingAre
<1>4. /\ waiting' \in [Scopes -> Waiting] /\ waiting'[s].build = waiting[s].build + 1
      /\ (\A t \in Scopes \ {s} : waiting'[t] = waiting[t]) /\ waiting'[s].watch = waiting[s].watch
  BY <1>1, <1>3, WaitingCounts
<1>8. /\ ghost' \in [broken : SUBSET Scopes, found : SUBSET Scopes]
      /\ ghost'.found = ghost.found \ {s} /\ ghost'.broken = ghost.broken
  BY <1>1, GhostChanges
<1>5. RegistryTypeOK'
  BY <1>1, <1>2, <1>4, <1>8 DEF RegistryTypeOK, Statuses
<1>6. TaskSound(s)' /\ CacheSound(s)' /\ StatusSound(s)'
  BY <1>1, <1>3, <1>4, <1>8 DEF RegistryTypeOK, TaskSound, CacheSound, StatusSound, Working, Loaded
<1>7. \A t \in Scopes \ {s} : TaskSound(t)' /\ CacheSound(t)' /\ StatusSound(t)'
  BY <1>1, <1>4, <1>8, SoundElsewhere DEF RegistryTypeOK
<1> QED
  BY <1>5, <1>6, <1>7 DEF RegistryInv

(* A step within one scope. *)
LEMMA StepAt ==
    ASSUME RegistryInv, NEW s \in Scopes, RegistryTypeOK', TaskSound(s)', CacheSound(s)', StatusSound(s)',
           \A t \in Scopes \ {s} :
              /\ index'[t] = index[t] /\ status'[t] = status[t] /\ waiting'[t] = waiting[t]
              /\ task'[t] = task[t] /\ cache'[t] = cache[t]
              /\ (t \in ghost.broken' <=> t \in ghost.broken) /\ (t \in ghost.found' <=> t \in ghost.found)
    PROVE  RegistryInv'
<1>1. \A t \in Scopes \ {s} : TaskSound(t)' /\ CacheSound(t)' /\ StatusSound(t)'
  BY SoundElsewhere DEF RegistryInv
<1> QED
  BY <1>1 DEF RegistryInv

(* The lock is taken, the work goes on, the lock is let go. *)
LEMMA JobHeld ==
    ASSUME RegistryTypeOK, NEW s \in Scopes, NEW by \in Builders \cup {"watch"}, Hold(s, by, "walk")
    PROVE  /\ task' \in [Scopes -> Job] /\ task'[s].by = by /\ task'[s].at = "walk"
           /\ \A t \in Scopes \ {s} : task'[t] = task[t]
<1> DEFINE x == [by |-> by, at |-> "walk", v |-> NoIndex]
<1>1. x \in Job /\ x.by = by /\ x.at = "walk"
  BY RegistryAssumption DEF Job, NoIndex
<1>2. task' = [task EXCEPT ![s] = x]
  BY DEF Hold
<1> HIDE DEF x
<1> QED
  BY <1>1, <1>2 DEF RegistryTypeOK

LEMMA JobGoesOn ==
    ASSUME RegistryTypeOK, NEW s \in Scopes,
           NEW at \in {"install", "status", "embeddings", "chunks", "metadata", "watch"},
           task' = [task EXCEPT ![s].at = at]
    PROVE  /\ task' \in [Scopes -> Job] /\ task'[s].by = task[s].by /\ task'[s].at = at /\ task'[s].v = task[s].v
           /\ \A t \in Scopes \ {s} : task'[t] = task[t]
<1> DEFINE x == [task[s] EXCEPT !.at = at]
<1>1. task[s] \in Job
  BY DEF RegistryTypeOK
<1>2. x \in Job /\ x.by = task[s].by /\ x.at = at /\ x.v = task[s].v
  BY <1>1 DEF Job, Saving
<1>3. task' = [task EXCEPT ![s] = x]
  OBVIOUS
<1> HIDE DEF x
<1> QED
  BY <1>2, <1>3 DEF RegistryTypeOK

LEMMA NoTaskIs == NoTask \in Job /\ NoTask.by = Nobody /\ NoTask.at = "none" /\ NoTask.v = NoIndex
BY RegistryAssumption DEF NoTask, Job, NoIndex

LEMMA JobReleased ==
    ASSUME RegistryTypeOK, NEW s \in Scopes, Release(s)
    PROVE  /\ task' \in [Scopes -> Job] /\ task'[s] = NoTask /\ task'[s].by = Nobody /\ task'[s].at = "none"
           /\ \A t \in Scopes \ {s} : task'[t] = task[t]
<1>1. task' = [task EXCEPT ![s] = NoTask]
  BY DEF Release
<1> QED
  BY <1>1, NoTaskIs DEF RegistryTypeOK

(* The loop goes on with its request, or is done with it. *)
LEMMA LoopGoesOn ==
    ASSUME RegistryTypeOK,
           \/ loop' = loop \/ loop' = IdleLoop
           \/ loop' = [loop EXCEPT !.at = "next"] \/ (loop.at = "lock" /\ loop' = [loop EXCEPT !.at = "building"])
    PROVE  loop' \in Handling /\ (loop'.at \in {"kick", "lock", "building"} => loop'.scope \in Scopes)
<1>1. CASE loop' = loop
  BY <1>1 DEF RegistryTypeOK
<1>2. CASE loop' = IdleLoop
  BY <1>2 DEF IdleLoop, Handling
<1>3. CASE loop' = [loop EXCEPT !.at = "next"]
  BY <1>3 DEF RegistryTypeOK, Handling
<1>4. CASE loop.at = "lock" /\ loop' = [loop EXCEPT !.at = "building"]
  BY <1>4 DEF RegistryTypeOK, Handling
<1> QED
  BY <1>1, <1>2, <1>3, <1>4

(* A build takes the lock, or finds its work done. *)
LEMMA BuildBegins ==
    ASSUME RegistryInv, NEW s \in Scopes, NEW by \in {"loop", "build"}, Free(s), BeginBuild(s, by),
           UNCHANGED <<index, watcher, pending, file, cache>>,
           waiting' \in [Scopes -> Waiting], \A t \in Scopes \ {s} : waiting'[t] = waiting[t],
           waiting'[s].watch = waiting[s].watch,
           loop' \in Handling, loop'.at \in {"kick", "lock", "building"} => loop'.scope \in Scopes
    PROVE  RegistryInv'
<1>1. RegistryTypeOK /\ TaskSound(s) /\ CacheSound(s) /\ StatusSound(s) /\ task[s] = NoTask
  BY DEF RegistryInv, Free
<1>2. CASE Loaded(s)
  <2>1. UNCHANGED <<status, task>> /\ ghost' = [ghost EXCEPT !.found = ghost.found \cup {s}]
        /\ ghost.found \cup {s} \in SUBSET Scopes
    BY <1>1, <1>2 DEF BeginBuild, RegistryTypeOK
  <2>4. /\ ghost' \in [broken : SUBSET Scopes, found : SUBSET Scopes]
        /\ ghost'.found = ghost.found \cup {s} /\ ghost'.broken = ghost.broken
    BY <1>1, <2>1, GhostChanges
  <2>2. RegistryTypeOK'
    BY <1>1, <2>1, <2>4 DEF RegistryTypeOK
  <2>3. TaskSound(s)' /\ CacheSound(s)' /\ StatusSound(s)'
    BY <1>1, <1>2, <2>1, <2>4, NoTaskIs DEF TaskSound, CacheSound, StatusSound, Loaded, Builders, Nobody
  <2> QED
    BY <2>1, <2>2, <2>3, <2>4, StepAt
<1>3. CASE ~Loaded(s)
  <2>1. status' = [status EXCEPT ![s] = "indexing"] /\ Hold(s, by, "walk") /\ by \in Builders
        /\ ghost' = [ghost EXCEPT !.found = ghost.found \ {s}] /\ ghost.found \ {s} \in SUBSET Scopes
    BY <1>1, <1>3 DEF BeginBuild, Builders, RegistryTypeOK
  <2>6. /\ ghost' \in [broken : SUBSET Scopes, found : SUBSET Scopes]
        /\ ghost'.found = ghost.found \ {s} /\ ghost'.broken = ghost.broken
    BY <1>1, <2>1, GhostChanges
  <2>2. /\ task' \in [Scopes -> Job] /\ task'[s].by = by /\ task'[s].at = "walk"
        /\ \A t \in Scopes \ {s} : task'[t] = task[t]
    BY <1>1, <2>1, JobHeld
  <2>3. RegistryTypeOK'
    BY <1>1, <2>1, <2>2, <2>6 DEF RegistryTypeOK, Statuses
  <2>4. status'[s] = "indexing" /\ \A t \in Scopes \ {s} : status'[t] = status[t]
    BY <1>1, <2>1 DEF RegistryTypeOK
  <2>5. TaskSound(s)' /\ CacheSound(s)' /\ StatusSound(s)'
    BY <1>1, <2>1, <2>2, <2>4, <2>6, NoTaskIs DEF TaskSound, CacheSound, StatusSound, Working, Builders, Saving, Nobody
  <2> QED
    BY <2>2, <2>3, <2>4, <2>5, <2>6, StepAt
<1> QED
  BY <1>2, <1>3

(* The four that wait for the lock. *)
LEMMA LocksKeep ==
    ASSUME RegistryInv, NEW s \in Scopes,
           (s = loop.scope /\ LoopLocks) \/ BuildLocks(s) \/ PromoteLocks(s) \/ WatchLocks(s)
    PROVE  RegistryInv'
<1>1. RegistryTypeOK /\ TaskSound(s) /\ CacheSound(s) /\ StatusSound(s)
      /\ waiting[s].build \in Nat /\ waiting[s].promote \in Nat /\ waiting[s].watch \in Nat
  BY WaitingAre DEF RegistryInv
<1>2. CASE s = loop.scope /\ LoopLocks
  <2>1. /\ Free(s) /\ BeginBuild(s, "loop") /\ UNCHANGED <<index, watcher, pending, file, cache, waiting>>
        /\ loop.at = "lock" /\ loop' = [loop EXCEPT !.at = IF Loaded(s) THEN "next" ELSE "building"]
    BY <1>2 DEF LoopLocks
  <2>2. loop' \in Handling /\ (loop'.at \in {"kick", "lock", "building"} => loop'.scope \in Scopes)
    BY <1>1, <2>1, LoopGoesOn
  <2>3. waiting' \in [Scopes -> Waiting]
    BY <1>1, <2>1 DEF RegistryTypeOK
  <2> QED
    BY <2>1, <2>2, <2>3, BuildBegins
<1>3. CASE BuildLocks(s)
  <2>1. /\ Free(s) /\ BeginBuild(s, "build") /\ UNCHANGED <<index, watcher, pending, file, cache, loop>>
        /\ waiting[s].build > 0 /\ waiting' = [waiting EXCEPT ![s].build = waiting[s].build - 1]
    BY <1>3 DEF BuildLocks
  <2>2. waiting[s].build - 1 \in Nat
    BY <1>1, <2>1
  <2>3. /\ waiting' \in [Scopes -> Waiting] /\ waiting'[s].watch = waiting[s].watch
        /\ \A t \in Scopes \ {s} : waiting'[t] = waiting[t]
    BY <1>1, <2>1, <2>2, WaitingCounts
  <2>4. loop' \in Handling /\ (loop'.at \in {"kick", "lock", "building"} => loop'.scope \in Scopes)
    BY <1>1, <2>1, LoopGoesOn
  <2> QED
    BY <2>1, <2>3, <2>4, BuildBegins
<1>4. CASE PromoteLocks(s)
  <2>1. /\ Free(s) /\ Hold(s, "promote", "walk") /\ UNCHANGED <<index, status, watcher, pending, file, cache, loop, ghost>>
        /\ waiting[s].promote > 0 /\ waiting' = [waiting EXCEPT ![s].promote = waiting[s].promote - 1]
    BY <1>4 DEF PromoteLocks
  <2>2. waiting[s].promote - 1 \in Nat /\ "promote" \in Builders \cup {"watch"}
    BY <1>1, <2>1 DEF Builders
  <2>3. /\ waiting' \in [Scopes -> Waiting] /\ waiting'[s].watch = waiting[s].watch
        /\ \A t \in Scopes \ {s} : waiting'[t] = waiting[t]
    BY <1>1, <2>1, <2>2, WaitingCounts
  <2>4. /\ task' \in [Scopes -> Job] /\ task'[s].by = "promote" /\ task'[s].at = "walk"
        /\ \A t \in Scopes \ {s} : task'[t] = task[t]
    BY <1>1, <2>1, <2>2, JobHeld
  <2>5. RegistryTypeOK'
    BY <1>1, <2>1, <2>3, <2>4 DEF RegistryTypeOK
  <2>6. task[s].at = "none"
    BY <2>1, NoTaskIs DEF Free
  <2>7. TaskSound(s)' /\ CacheSound(s)' /\ StatusSound(s)'
    BY <1>1, <2>1, <2>3, <2>4, <2>6 DEF TaskSound, CacheSound, StatusSound, Working, Builders, Saving, Nobody
  <2> QED
    BY <2>1, <2>3, <2>4, <2>5, <2>7, StepAt
<1>5. CASE WatchLocks(s)
  <2>1. /\ Free(s) /\ UNCHANGED <<index, status, watcher, pending, file, cache, loop, ghost>>
        /\ waiting[s].watch > 0 /\ waiting' = [waiting EXCEPT ![s].watch = waiting[s].watch - 1]
    BY <1>5 DEF WatchLocks
  <2>2. waiting[s].watch - 1 \in Nat /\ "watch" \in Builders \cup {"watch"} /\ task[s].at = "none" /\ task[s].by = Nobody
    BY <1>1, <2>1, NoTaskIs DEF Free
  <2>3. /\ waiting' \in [Scopes -> Waiting] /\ waiting'[s].build = waiting[s].build /\ waiting'[s].promote = waiting[s].promote
        /\ \A t \in Scopes \ {s} : waiting'[t] = waiting[t]
    BY <1>1, <2>1, <2>2, WaitingCounts
  <2>5. CASE UNCHANGED task
    <3>1. RegistryTypeOK'
      BY <1>1, <2>1, <2>3, <2>5 DEF RegistryTypeOK
    <3>2. TaskSound(s)' /\ CacheSound(s)' /\ StatusSound(s)'
      BY <1>1, <2>1, <2>2, <2>3, <2>5 DEF TaskSound, CacheSound, StatusSound, Working, Loaded
    <3> QED
      BY <2>1, <2>3, <2>5, <3>1, <3>2, StepAt
  <2>6. CASE Hold(s, "watch", "walk")
    <3>1. /\ task' \in [Scopes -> Job] /\ task'[s].by = "watch" /\ task'[s].at = "walk"
          /\ \A t \in Scopes \ {s} : task'[t] = task[t]
      BY <1>1, <2>2, <2>6, JobHeld
    <3>2. RegistryTypeOK'
      BY <1>1, <2>1, <2>3, <3>1 DEF RegistryTypeOK
    <3>3. TaskSound(s)' /\ CacheSound(s)' /\ StatusSound(s)'
      BY <1>1, <2>1, <2>2, <2>3, <3>1 DEF TaskSound, CacheSound, StatusSound, Working, Loaded, Builders, Saving, Nobody
    <3> QED
      BY <2>1, <2>3, <3>1, <3>2, <3>3, StepAt
  <2> QED
    BY <1>5, <2>5, <2>6 DEF WatchLocks
<1> QED
  BY <1>2, <1>3, <1>4, <1>5

(* A request waiting for a build goes on after it. *)
LEMMA LoopAfterIs ==
    ASSUME RegistryTypeOK, NEW s \in Scopes, NEW ok \in BOOLEAN, LoopAfter(s, ok)
    PROVE  loop' \in Handling /\ (loop'.at \in {"kick", "lock", "building"} => loop'.scope \in Scopes)
<1>1. loop' = loop \/ loop' = IdleLoop \/ loop' = [loop EXCEPT !.at = "next"]
  BY DEF LoopAfter
<1> QED
  BY <1>1, LoopGoesOn

(* A build, a promotion or an update, at each of its steps. *)
LEMMA BuildIndexKeeps ==
    ASSUME RegistryInv, NEW s \in Scopes, build_index(s)
    PROVE  RegistryInv'
<1>1. /\ RegistryTypeOK /\ TaskSound(s) /\ CacheSound(s) /\ StatusSound(s) /\ task[s] \in Job /\ task[s].at = "walk"
      /\ task' = [task EXCEPT ![s].at = "install", ![s].v = Built(s)]
      /\ UNCHANGED <<index, status, watcher, pending, waiting, file, cache, loop, ghost>>
  BY DEF RegistryInv, RegistryTypeOK, build_index
<1>2. Built(s) \in 0..MaxVersion
  BY <1>1, RegistryAssumption DEF Built, IndexOf, RegistryTypeOK, NoChunks
<1> DEFINE v == Built(s)
           x == [task[s] EXCEPT !.at = "install", !.v = v]
<1>3. v \in -1..MaxVersion /\ v # -1
  BY <1>2, RegistryAssumption DEF NoChunks
<1>4. task' = [task EXCEPT ![s] = x]
  BY <1>1
<1> HIDE DEF v
<1>5. x \in Job /\ x.by = task[s].by /\ x.at = "install" /\ x.v = v
  BY <1>1, <1>3 DEF Job
<1> HIDE DEF x
<1>6. task' \in [Scopes -> Job] /\ task'[s] = x /\ \A t \in Scopes \ {s} : task'[t] = task[t]
  BY <1>1, <1>4, <1>5 DEF RegistryTypeOK
<1>7. RegistryTypeOK'
  BY <1>1, <1>6 DEF RegistryTypeOK
<1>8. task[s].by # Nobody
  BY <1>1, NoTaskIs DEF TaskSound
<1>9. TaskSound(s)'
  BY <1>1, <1>3, <1>5, <1>6, <1>8 DEF TaskSound, NoIndex, Saving
<1>10. StatusSound(s)'
  BY <1>1, <1>5, <1>6 DEF StatusSound, Working, Loaded, Saving
<1>11. CacheSound(s)'
  BY <1>1, <1>5, <1>6 DEF CacheSound
<1> QED
  BY <1>1, <1>6, <1>7, <1>9, <1>10, <1>11, StepAt

LEMMA JobFailsKeeps ==
    ASSUME RegistryInv, NEW s \in Scopes, JobFails(s)
    PROVE  RegistryInv'
<1>1. /\ RegistryTypeOK /\ TaskSound(s) /\ CacheSound(s) /\ StatusSound(s) /\ task[s] \in Job /\ task[s].at = "walk"
      /\ Release(s) /\ LoopAfter(s, FALSE)
      /\ status' = (IF task[s].by = "watch" THEN status ELSE [status EXCEPT ![s] = "error"])
      /\ UNCHANGED <<index, watcher, pending, waiting, file, cache, ghost>>
  BY DEF RegistryInv, RegistryTypeOK, JobFails
<1>2. /\ task' \in [Scopes -> Job] /\ task'[s] = NoTask /\ task'[s].by = Nobody /\ task'[s].at = "none"
      /\ \A t \in Scopes \ {s} : task'[t] = task[t]
  BY <1>1, JobReleased
<1>3. loop' \in Handling /\ (loop'.at \in {"kick", "lock", "building"} => loop'.scope \in Scopes)
  BY <1>1, LoopAfterIs
<1>4. /\ status' \in [Scopes -> Statuses] /\ (\A t \in Scopes \ {s} : status'[t] = status[t])
      /\ status'[s] = IF task[s].by = "watch" THEN status[s] ELSE "error"
  BY <1>1 DEF RegistryTypeOK, Statuses
<1>5. RegistryTypeOK'
  BY <1>1, <1>2, <1>3, <1>4 DEF RegistryTypeOK
<1>6. TaskSound(s)'
  BY <1>1, <1>2 DEF TaskSound, Nobody, Saving
<1>7. StatusSound(s)'
  BY <1>1, <1>2, <1>4 DEF StatusSound, Working, Loaded, Builders, Nobody
<1>8. CacheSound(s)'
  BY <1>1, <1>2 DEF CacheSound
<1> QED
  BY <1>1, <1>2, <1>4, <1>5, <1>6, <1>7, <1>8, StepAt

LEMMA InstallIndexKeeps ==
    ASSUME RegistryInv, NEW s \in Scopes, InstallIndex(s)
    PROVE  RegistryInv'
<1>1. /\ RegistryTypeOK /\ TaskSound(s) /\ CacheSound(s) /\ StatusSound(s) /\ task[s] \in Job /\ task[s].at = "install"
      /\ UNCHANGED <<status, watcher, pending, waiting, file, cache, loop, ghost>>
  BY DEF RegistryInv, RegistryTypeOK, InstallIndex
<1>2. CASE task[s].by = "watch" /\ index[s] = NoIndex /\ Release(s) /\ UNCHANGED index
  <2>1. /\ task' \in [Scopes -> Job] /\ task'[s] = NoTask /\ task'[s].by = Nobody /\ task'[s].at = "none"
        /\ \A t \in Scopes \ {s} : task'[t] = task[t]
    BY <1>1, <1>2, JobReleased
  <2>2. RegistryTypeOK'
    BY <1>1, <1>2, <2>1 DEF RegistryTypeOK
  <2>3. TaskSound(s)' /\ CacheSound(s)' /\ StatusSound(s)'
    BY <1>1, <1>2, <2>1 DEF TaskSound, CacheSound, StatusSound, Working, Loaded, Builders, Nobody, Saving
  <2> QED
    BY <1>1, <1>2, <2>1, <2>2, <2>3, StepAt
<1>3. CASE /\ task[s].by = "watch" => index[s] # NoIndex
           /\ index' = [index EXCEPT ![s] = task[s].v]
           /\ task' = [task EXCEPT ![s].at = IF task[s].by = "watch" THEN "embeddings" ELSE "status"]
  <2> DEFINE at == IF task[s].by = "watch" THEN "embeddings" ELSE "status"
  <2>1. at \in {"install", "status", "embeddings", "chunks", "metadata", "watch"}
        /\ task' = [task EXCEPT ![s].at = at]
    BY <1>3
  <2> HIDE DEF at
  <2>2. /\ task' \in [Scopes -> Job] /\ task'[s].by = task[s].by /\ task'[s].at = at /\ task'[s].v = task[s].v
        /\ \A t \in Scopes \ {s} : task'[t] = task[t]
    BY <1>1, <2>1, JobGoesOn
  <2>3. /\ task[s].v \in 0..MaxVersion /\ task[s].by # Nobody
        /\ task[s].by \in Builders \cup {"watch"}
    BY <1>1, NoTaskIs, RegistryAssumption DEF TaskSound, Job, NoIndex, NoChunks
  <2>4. index'[s] = task[s].v /\ index' \in [Scopes -> -1..MaxVersion] /\ \A t \in Scopes \ {s} : index'[t] = index[t]
    BY <1>1, <1>3, <2>3, RegistryAssumption DEF RegistryTypeOK
  <2>5. RegistryTypeOK'
    BY <1>1, <2>2, <2>4 DEF RegistryTypeOK
  <2>6. CASE task[s].by = "watch"
    <3>1. at = "embeddings" /\ status[s] # "evicted"
      BY <1>1, <1>3, <2>3, <2>4, <2>6 DEF TaskSound, CacheSound, StatusSound, Builders, at
    <3>2. TaskSound(s)' /\ StatusSound(s)'
      BY <1>1, <2>2, <2>3, <2>6, <3>1
      DEF TaskSound, StatusSound, Working, Loaded, NoIndex, NoChunks, Nobody, Builders, NoTask
    <3>3. CacheSound(s)'
      BY <1>1, <2>2, <3>1 DEF CacheSound
    <3> QED
      BY <1>1, <2>2, <2>4, <2>5, <3>2, <3>3, StepAt
  <2>7. CASE task[s].by \in Builders
    <3>1. at = "status"
      BY <2>7 DEF Builders, at
    <3>2. TaskSound(s)'
      BY <1>1, <2>2, <2>3, <2>7, <3>1 DEF TaskSound, NoIndex, NoChunks, Nobody, Builders, Saving
    <3>3. StatusSound(s)'
      BY <1>1, <2>2, <2>7, <3>1 DEF StatusSound, Working, Builders, Saving
    <3>4. CacheSound(s)'
      BY <1>1, <2>2, <3>1 DEF CacheSound
    <3> QED
      BY <1>1, <2>2, <2>4, <2>5, <3>2, <3>3, <3>4, StepAt
  <2> QED
    BY <2>3, <2>6, <2>7
<1> QED
  BY <1>2, <1>3 DEF InstallIndex

LEMMA InstallStatusKeeps ==
    ASSUME RegistryInv, NEW s \in Scopes, InstallStatus(s)
    PROVE  RegistryInv'
<1>1. /\ RegistryTypeOK /\ TaskSound(s) /\ CacheSound(s) /\ StatusSound(s) /\ task[s] \in Job /\ task[s].at = "status"
      /\ UNCHANGED <<index, watcher, pending, waiting, file, cache, ghost>>
  BY DEF RegistryInv, RegistryTypeOK, InstallStatus
<1>2. PICK st \in {"error", "empty", "ready"} : status' = [status EXCEPT ![s] = st]
  BY DEF InstallStatus
<1>3. /\ status' \in [Scopes -> Statuses] /\ (\A t \in Scopes \ {s} : status'[t] = status[t])
      /\ status'[s] = st
  BY <1>1, <1>2 DEF RegistryTypeOK, Statuses
<1>4. CASE Release(s) /\ \E ok \in BOOLEAN : LoopAfter(s, ok)
  <2>1. /\ task' \in [Scopes -> Job] /\ task'[s] = NoTask /\ task'[s].by = Nobody /\ task'[s].at = "none"
        /\ \A t \in Scopes \ {s} : task'[t] = task[t]
    BY <1>1, <1>4, JobReleased
  <2>2. loop' \in Handling /\ (loop'.at \in {"kick", "lock", "building"} => loop'.scope \in Scopes)
    BY <1>1, <1>4, LoopAfterIs
  <2>3. RegistryTypeOK'
    BY <1>1, <1>3, <2>1, <2>2 DEF RegistryTypeOK
  <2>4. TaskSound(s)' /\ CacheSound(s)' /\ StatusSound(s)'
    BY <1>1, <1>3, <2>1 DEF TaskSound, CacheSound, StatusSound, Nobody, Saving
  <2> QED
    BY <1>1, <1>3, <2>1, <2>3, <2>4, StepAt
<1>5. CASE task[s].v # NoChunks /\ task' = [task EXCEPT ![s].at = "embeddings"] /\ UNCHANGED loop
  <2>1. /\ task' \in [Scopes -> Job] /\ task'[s].by = task[s].by /\ task'[s].at = "embeddings" /\ task'[s].v = task[s].v
        /\ \A t \in Scopes \ {s} : task'[t] = task[t]
    BY <1>1, <1>5, JobGoesOn
  <2>2. RegistryTypeOK'
    BY <1>1, <1>3, <1>5, <2>1 DEF RegistryTypeOK
  <2>3. task[s].by # Nobody /\ task[s].v # NoIndex
    BY <1>1, <1>5, NoTaskIs DEF TaskSound
  <2>4. TaskSound(s)' /\ CacheSound(s)' /\ StatusSound(s)'
    BY <1>1, <1>3, <2>1, <2>3 DEF TaskSound, CacheSound, StatusSound
  <2> QED
    BY <1>1, <1>3, <2>1, <2>2, <2>4, StepAt
<1> QED
  BY <1>4, <1>5 DEF InstallStatus

(* Saving goes from file to file; only the files change, and whether they   *)
(* are of one build.                                                         *)
LEMMA SavingGoesOn ==
    ASSUME RegistryInv, NEW s \in Scopes, task[s].at \in {"embeddings", "chunks", "metadata"},
           NEW at \in {"chunks", "metadata", "watch"}, task' = [task EXCEPT ![s].at = at],
           UNCHANGED <<index, status, watcher, pending, waiting, file, loop>>,
           NEW x \in CacheFiles, cache' = [cache EXCEPT ![s] = x],
           NEW S \in SUBSET Scopes, ghost' = [ghost EXCEPT !.broken = S],
           \A t \in Scopes \ {s} : t \in S <=> t \in ghost.broken,
           at = "chunks" => task[s].v \in {NoChunks, x.emb},
           at # "chunks" /\ s \notin S => x.chunks \in {0, x.emb}
    PROVE  RegistryInv'
<1>1. RegistryTypeOK /\ TaskSound(s) /\ CacheSound(s) /\ StatusSound(s)
  BY DEF RegistryInv
<1>2. /\ task' \in [Scopes -> Job] /\ task'[s].by = task[s].by /\ task'[s].at = at /\ task'[s].v = task[s].v
      /\ \A t \in Scopes \ {s} : task'[t] = task[t]
  BY <1>1, JobGoesOn
<1>3. /\ ghost' \in [broken : SUBSET Scopes, found : SUBSET Scopes]
      /\ ghost'.broken = S /\ ghost'.found = ghost.found
  BY <1>1, GhostChanges
<1>4. cache' \in [Scopes -> CacheFiles] /\ cache'[s] = x /\ \A t \in Scopes \ {s} : cache'[t] = cache[t]
  BY <1>1 DEF RegistryTypeOK
<1>5. RegistryTypeOK'
  BY <1>1, <1>2, <1>3, <1>4 DEF RegistryTypeOK
<1>6. task[s].by # Nobody
  BY <1>1, NoTaskIs DEF TaskSound
<1>7. TaskSound(s)' /\ StatusSound(s)'
  BY <1>1, <1>2, <1>3, <1>6 DEF TaskSound, StatusSound, Working, Loaded, Saving
<1>8. CacheSound(s)'
  BY <1>2, <1>3, <1>4 DEF CacheSound
<1> QED
  BY <1>2, <1>3, <1>4, <1>5, <1>7, <1>8, StepAt

LEMMA SavesKeep ==
    ASSUME RegistryInv, NEW s \in Scopes, SaveEmbeddings(s) \/ SaveChunks(s) \/ SaveMetadata(s)
    PROVE  RegistryInv'
<1>1. /\ RegistryTypeOK /\ TaskSound(s) /\ CacheSound(s) /\ cache \in [Scopes -> CacheFiles]
      /\ cache[s] \in CacheFiles /\ task[s].at \in {"embeddings", "chunks", "metadata"} /\ task[s] \in Job
      /\ ghost.broken \in SUBSET Scopes /\ ghost = [ghost EXCEPT !.broken = ghost.broken]
      /\ cache = [cache EXCEPT ![s] = cache[s]]
      /\ UNCHANGED <<index, status, watcher, pending, waiting, file, loop>>
  BY DEF RegistryInv, RegistryTypeOK, SaveEmbeddings, SaveChunks, SaveMetadata
<1>2. task[s].v \in 0..MaxVersion
  BY <1>1, RegistryAssumption DEF TaskSound, Job, NoIndex
<1>3. CASE SaveEmbeddings(s) /\ task[s].v = NoChunks
  <2>1. task' = [task EXCEPT ![s].at = "watch"] /\ cache' = cache /\ ghost' = ghost /\ task[s].at = "embeddings"
    BY <1>3 DEF SaveEmbeddings
  <2>2. s \notin ghost.broken => cache[s].chunks \in {0, cache[s].emb}
    BY <1>1, <2>1 DEF CacheSound
  <2> QED
    BY <1>1, <2>1, <2>2, SavingGoesOn
<1>4. CASE SaveEmbeddings(s) /\ task[s].v # NoChunks
  <2> DEFINE x == [cache[s] EXCEPT !.emb = task[s].v]
  <2>1. task' = [task EXCEPT ![s].at = "chunks"] /\ cache' = [cache EXCEPT ![s] = x] /\ ghost' = ghost
    BY <1>4 DEF SaveEmbeddings
  <2>2. x \in CacheFiles /\ x.emb = task[s].v
    BY <1>1, <1>2 DEF CacheFiles
  <2> HIDE DEF x
  <2> QED
    BY <1>1, <2>1, <2>2, SavingGoesOn
<1>5. CASE SaveChunks(s)
  <2> DEFINE x == [cache[s] EXCEPT !.chunks = task[s].v]
             S == ghost.broken \ {s}
  <2>1. /\ task' = [task EXCEPT ![s].at = "metadata"] /\ cache' = [cache EXCEPT ![s] = x] /\ task[s].at = "chunks"
        /\ ghost' = [ghost EXCEPT !.broken = S]
    BY <1>5 DEF SaveChunks
  <2>2. x \in CacheFiles /\ x.chunks = task[s].v /\ x.emb = cache[s].emb
    BY <1>1, <1>2 DEF CacheFiles
  <2>3. x.chunks \in {0, x.emb}
    BY <1>1, <2>1, <2>2 DEF CacheSound, NoChunks
  <2>4. S \in SUBSET Scopes /\ \A t \in Scopes \ {s} : t \in S <=> t \in ghost.broken
    BY <1>1
  <2> HIDE DEF x, S
  <2> QED
    BY <1>1, <2>1, <2>2, <2>3, <2>4, SavingGoesOn
<1>6. CASE SaveMetadata(s)
  <2> DEFINE x == [cache[s] EXCEPT !.meta = TRUE]
  <2>1. /\ task' = [task EXCEPT ![s].at = "watch"] /\ cache' = [cache EXCEPT ![s] = x] /\ task[s].at = "metadata"
        /\ ghost' = ghost
    BY <1>6 DEF SaveMetadata
  <2>2. x \in CacheFiles /\ x.emb = cache[s].emb /\ x.chunks = cache[s].chunks
    BY <1>1 DEF CacheFiles
  <2>3. s \notin ghost.broken => x.chunks \in {0, x.emb}
    BY <1>1, <2>1, <2>2 DEF CacheSound
  <2> HIDE DEF x
  <2> QED
    BY <1>1, <2>1, <2>2, <2>3, SavingGoesOn
<1> QED
  BY <1>3, <1>4, <1>5, <1>6

LEMMA SaveFailsKeeps ==
    ASSUME RegistryInv, NEW s \in Scopes, SaveFails(s)
    PROVE  RegistryInv'
<1> DEFINE S == Broken({s})
<1>1. /\ RegistryTypeOK /\ TaskSound(s) /\ CacheSound(s) /\ StatusSound(s) /\ task[s] \in Job
      /\ task[s].at \in {"embeddings", "chunks", "metadata"}
      /\ status' = (IF task[s].by = "promote" THEN [status EXCEPT ![s] = "error"] ELSE status)
      /\ ghost' = [ghost EXCEPT !.broken = S] /\ cache[s] \in CacheFiles /\ cache = [cache EXCEPT ![s] = cache[s]]
      /\ UNCHANGED <<index, watcher, pending, waiting, file, cache, loop>>
  BY DEF RegistryInv, RegistryTypeOK, SaveFails
<1>2. /\ S \in SUBSET Scopes /\ \A t \in Scopes \ {s} : t \in S <=> t \in ghost.broken
      /\ s \notin S => s \notin ghost.broken /\ task[s].at # "chunks"
  BY <1>1 DEF Broken, RegistryTypeOK
<1> HIDE DEF S
<1>3. s \notin S => cache[s].chunks \in {0, cache[s].emb}
  BY <1>1, <1>2 DEF CacheSound
<1>4. CASE task[s].by \in {"loop", "build"}
  <2>1. task' = [task EXCEPT ![s].at = "watch"] /\ status' = status /\ "watch" \in {"chunks", "metadata", "watch"}
    BY <1>1, <1>4 DEF SaveFails
  <2> QED
    BY <1>1, <1>2, <1>3, <2>1, SavingGoesOn
<1>5. CASE task[s].by \notin {"loop", "build"}
  <2>1. Release(s)
    BY <1>5 DEF SaveFails
  <2>2. /\ task' \in [Scopes -> Job] /\ task'[s] = NoTask /\ task'[s].by = Nobody /\ task'[s].at = "none"
        /\ \A t \in Scopes \ {s} : task'[t] = task[t]
    BY <1>1, <2>1, JobReleased
  <2>3. /\ status' \in [Scopes -> Statuses] /\ (\A t \in Scopes \ {s} : status'[t] = status[t])
        /\ status'[s] = IF task[s].by = "promote" THEN "error" ELSE status[s]
    BY <1>1 DEF RegistryTypeOK, Statuses
  <2>6. /\ ghost' \in [broken : SUBSET Scopes, found : SUBSET Scopes]
        /\ ghost'.broken = S /\ ghost'.found = ghost.found
    BY <1>1, <1>2, GhostChanges
  <2>4. RegistryTypeOK'
    BY <1>1, <2>2, <2>3, <2>6 DEF RegistryTypeOK
  <2>5. TaskSound(s)' /\ StatusSound(s)'
    BY <1>1, <1>5, <2>2, <2>3, <2>6 DEF TaskSound, StatusSound, Working, Loaded, Builders, Nobody, Saving
  <2>7. CacheSound(s)'
    BY <1>1, <1>3, <2>2, <2>6 DEF CacheSound
  <2> QED
    BY <1>1, <1>2, <2>2, <2>3, <2>4, <2>5, <2>6, <2>7, StepAt
<1> QED
  BY <1>4, <1>5

LEMMA AttachKeeps ==
    ASSUME RegistryInv, NEW s \in Scopes, attach_watcher(s)
    PROVE  RegistryInv'
<1>1. /\ RegistryTypeOK /\ TaskSound(s) /\ CacheSound(s) /\ StatusSound(s) /\ task[s] \in Job /\ task[s].at = "watch"
      /\ Release(s) /\ LoopAfter(s, TRUE)
      /\ (watcher' = watcher \/ watcher' = [watcher EXCEPT ![s] = TRUE])
      /\ UNCHANGED <<index, status, pending, waiting, file, cache, ghost>>
  BY DEF RegistryInv, RegistryTypeOK, attach_watcher
<1>2. /\ task' \in [Scopes -> Job] /\ task'[s] = NoTask /\ task'[s].by = Nobody /\ task'[s].at = "none"
      /\ \A t \in Scopes \ {s} : task'[t] = task[t]
  BY <1>1, JobReleased
<1>3. loop' \in Handling /\ (loop'.at \in {"kick", "lock", "building"} => loop'.scope \in Scopes)
  BY <1>1, LoopAfterIs
<1>4. watcher' \in [Scopes -> BOOLEAN] /\ \A t \in Scopes \ {s} : watcher'[t] = watcher[t]
  BY <1>1 DEF RegistryTypeOK
<1>5. RegistryTypeOK'
  BY <1>1, <1>2, <1>3, <1>4 DEF RegistryTypeOK
<1>7. TaskSound(s)' /\ CacheSound(s)' /\ StatusSound(s)'
  BY <1>1, <1>2 DEF TaskSound, CacheSound, StatusSound, Working, Loaded, Builders, Nobody, Saving
<1> QED
  BY <1>1, <1>2, <1>4, <1>5, <1>7, StepAt

(* A change of the files, and the watcher that hands it over. *)
LEMMA WatchKeeps ==
    ASSUME RegistryInv, NEW s \in Scopes, Edit(s) \/ _debounce_loop(s)
    PROVE  RegistryInv'
<1>1. /\ RegistryTypeOK /\ TaskSound(s) /\ CacheSound(s) /\ StatusSound(s)
  BY DEF RegistryInv
<1>2. CASE Edit(s)
  <2>1. /\ file[s] < MaxVersion /\ file' = [file EXCEPT ![s] = @ + 1]
        /\ pending' = [pending EXCEPT ![s] = @ \/ watcher[s]]
        /\ UNCHANGED <<index, status, watcher, waiting, task, cache, loop, ghost>>
    BY <1>2 DEF Edit
  <2>2. file' \in [Scopes -> 1..MaxVersion]
    BY <1>1, <2>1, RegistryAssumption DEF RegistryTypeOK
  <2>3. /\ pending' \in [Scopes -> BOOLEAN] /\ (pending'[s] = (pending[s] \/ watcher[s]))
        /\ \A t \in Scopes \ {s} : pending'[t] = pending[t]
    BY <1>1, <2>1, Zenon DEF RegistryTypeOK
  <2>4. RegistryTypeOK'
    BY <1>1, <2>1, <2>2, <2>3 DEF RegistryTypeOK
  <2>5. TaskSound(s)' /\ CacheSound(s)' /\ StatusSound(s)'
    BY <1>1, <2>1, <2>3 DEF TaskSound, CacheSound, StatusSound, Working, Loaded
  <2> QED
    BY <2>1, <2>3, <2>4, <2>5, StepAt
<1>3. CASE _debounce_loop(s)
  <2> DEFINE n == IF index[s] = NoIndex THEN waiting[s].watch ELSE waiting[s].watch + 1
  <2>1. /\ pending[s] /\ pending' = [pending EXCEPT ![s] = FALSE]
        /\ waiting' = [waiting EXCEPT ![s].watch = n]
        /\ UNCHANGED <<index, status, watcher, task, file, cache, loop, ghost>>
    BY <1>3 DEF _debounce_loop
  <2>2. n \in Nat
    BY <1>1, WaitingAre
  <2> HIDE DEF n
  <2>3. /\ waiting' \in [Scopes -> Waiting] /\ waiting'[s].build = waiting[s].build
        /\ waiting'[s].promote = waiting[s].promote /\ \A t \in Scopes \ {s} : waiting'[t] = waiting[t]
    BY <1>1, <2>1, <2>2, WaitingCounts
  <2>4. /\ pending' \in [Scopes -> BOOLEAN] /\ \A t \in Scopes \ {s} : pending'[t] = pending[t]
    BY <1>1, <2>1 DEF RegistryTypeOK
  <2>5. RegistryTypeOK'
    BY <1>1, <2>1, <2>3, <2>4 DEF RegistryTypeOK
  <2>7. TaskSound(s)' /\ CacheSound(s)' /\ StatusSound(s)'
    BY <1>1, <2>1, <2>3 DEF TaskSound, CacheSound, StatusSound, Working, Loaded
  <2> QED
    BY <2>1, <2>3, <2>4, <2>5, <2>7, StepAt
<1> QED
  BY <1>2, <1>3

LEMMA EvictedIs ==
    ASSUME NEW S, NEW f \in [Scopes -> S], NEW E, NEW value \in S
    PROVE  /\ Evicted(f, E, value) \in [Scopes -> S]
           /\ \A t \in Scopes : Evicted(f, E, value)[t] = IF t \in E THEN value ELSE f[t]
BY DEF Evicted

(* Eviction by age. *)
LEMMA EvictionKeeps ==
    ASSUME RegistryInv, NEW E, evict_idle_indexes(E)
    PROVE  RegistryInv'
<1>1. /\ RegistryTypeOK /\ (\A t \in Scopes : TaskSound(t) /\ CacheSound(t) /\ StatusSound(t))
      /\ index' = Evicted(index, E, NoIndex) /\ status' = Evicted(status, E, "evicted")
      /\ watcher' = Evicted(watcher, E, FALSE) /\ pending' = Evicted(pending, E, FALSE)
      /\ UNCHANGED <<waiting, task, file, cache, loop, ghost>>
  BY DEF RegistryInv, evict_idle_indexes
<1>2. NoIndex \in -1..MaxVersion /\ "evicted" \in Statuses /\ FALSE \in BOOLEAN
  BY RegistryAssumption DEF NoIndex, Statuses
<1>3. /\ index' \in [Scopes -> -1..MaxVersion] /\ status' \in [Scopes -> Statuses]
      /\ watcher' \in [Scopes -> BOOLEAN] /\ pending' \in [Scopes -> BOOLEAN]
  <2>1. /\ index \in [Scopes -> -1..MaxVersion] /\ status \in [Scopes -> Statuses]
        /\ watcher \in [Scopes -> BOOLEAN] /\ pending \in [Scopes -> BOOLEAN]
    BY <1>1 DEF RegistryTypeOK
  <2> QED
    BY ONLY <1>1, <1>2, <2>1, EvictedIs, Zenon
<1>4. RegistryTypeOK'
  BY <1>1, <1>3 DEF RegistryTypeOK
<1>5. ASSUME NEW t \in Scopes PROVE TaskSound(t)' /\ CacheSound(t)' /\ StatusSound(t)'
  BY <1>1 DEF TaskSound, CacheSound, StatusSound, Working, Loaded, Evicted
<1> QED
  BY <1>4, <1>5 DEF RegistryInv

(* A request that registers a scope: loaded from the cache if it is new, and *)
(* the cap enforced.                                                         *)
LEMMA EnsureKeeps ==
    ASSUME RegistryInv, NEW s \in Scopes, _ensure_scope(s)
    PROVE  RegistryInv'
<1>1. /\ RegistryTypeOK /\ (\A t \in Scopes : TaskSound(t) /\ CacheSound(t) /\ StatusSound(t))
      /\ UNCHANGED <<waiting, file, cache, ghost>> /\ register_scope(s)
  BY DEF RegistryInv, _ensure_scope
<1>2. loop' \in Handling /\ (loop'.at \in {"kick", "lock", "building"} => loop'.scope \in Scopes)
  <2> DEFINE at == IF index'[s] > NoChunks \/ (Async(s) /\ status'[s] = "indexing") THEN "next"
                   ELSE IF Async(s) THEN "kick" ELSE "lock"
             todo == loop.todo \ {s}
  <2>1. loop \in Handling /\ loop' = [loop EXCEPT !.scope = s, !.todo = todo, !.at = at]
    BY <1>1 DEF _ensure_scope, RegistryTypeOK
  <2>2. at \in {"idle", "next", "kick", "lock", "building"} /\ todo \in SUBSET Scopes
    BY <2>1 DEF Handling
  <2> HIDE DEF at, todo
  <2> QED
    BY <2>1, <2>2 DEF Handling
<1>3. CASE s \in Registered
  <2>1. UNCHANGED <<index, status, watcher, pending, task>>
    BY <1>1, <1>3 DEF register_scope
  <2>2. RegistryTypeOK'
    BY <1>1, <1>2, <2>1 DEF RegistryTypeOK
  <2> QED
    BY <1>1, <2>1, <2>2, SoundElsewhere DEF RegistryInv
<1>4. CASE s \notin Registered
  <2> DEFINE hit == CacheLoads(s)
             ix == IF hit THEN [index EXCEPT ![s] = cache[s].emb] ELSE index
             st == IF hit THEN [status EXCEPT ![s] = "ready"] ELSE status
             E == OverCap(Append(lru, s), ix)
  <2>1. /\ index' = Evicted(ix, E, NoIndex) /\ status' = Evicted(st, E, "evicted")
        /\ watcher' = Evicted(watcher, E, FALSE) /\ pending' = Evicted(pending, E, FALSE)
        /\ task' = [t \in Scopes |-> IF t \in E /\ task[t].at \in {"embeddings", "chunks", "metadata"}
                                    THEN [task[t] EXCEPT !.v = NoChunks] ELSE task[t]]
    BY <1>1, <1>4 DEF register_scope
  <2>2. /\ ix \in [Scopes -> -1..MaxVersion] /\ st \in [Scopes -> Statuses]
        /\ \A t \in Scopes : (ix[t] = index[t] /\ st[t] = status[t]) \/ st[t] = "ready"
    BY <1>1, RegistryAssumption DEF RegistryTypeOK, CacheFiles, Statuses
  <2> HIDE DEF ix, st, E
  <2>3. NoIndex \in -1..MaxVersion /\ "evicted" \in Statuses /\ FALSE \in BOOLEAN
    BY RegistryAssumption DEF NoIndex, Statuses
  <2>4. /\ index' \in [Scopes -> -1..MaxVersion] /\ \A t \in Scopes : index'[t] = IF t \in E THEN NoIndex ELSE ix[t]
    BY <2>1, <2>2, <2>3 DEF Evicted
  <2>5. /\ status' \in [Scopes -> Statuses] /\ \A t \in Scopes : status'[t] = IF t \in E THEN "evicted" ELSE st[t]
    BY <2>1, <2>2, <2>3 DEF Evicted
  <2>6. /\ watcher' \in [Scopes -> BOOLEAN] /\ \A t \in Scopes : watcher'[t] => watcher[t]
        /\ pending' \in [Scopes -> BOOLEAN] /\ \A t \in Scopes : pending'[t] => pending[t]
    <3>1. watcher \in [Scopes -> BOOLEAN] /\ pending \in [Scopes -> BOOLEAN]
      BY <1>1 DEF RegistryTypeOK
    <3> QED
      BY <2>1, <3>1 DEF Evicted
  <2>7. ASSUME NEW t \in Scopes
        PROVE  /\ task'[t] \in Job /\ task'[t].by = task[t].by /\ task'[t].at = task[t].at
               /\ task'[t] = task[t] \/ (task'[t].v = NoChunks /\ task[t].at \in {"embeddings", "chunks", "metadata"})
    <3>1. task[t] \in Job
      BY <1>1 DEF RegistryTypeOK
    <3>2. CASE t \in E /\ task[t].at \in {"embeddings", "chunks", "metadata"}
      <4> DEFINE x == [task[t] EXCEPT !.v = NoChunks]
      <4>1. x \in Job /\ x.by = task[t].by /\ x.at = task[t].at /\ x.v = NoChunks
        BY <3>1, RegistryAssumption DEF Job, NoChunks
      <4>2. task'[t] = x
        BY <2>1, <3>2
      <4> HIDE DEF x
      <4> QED
        BY <3>2, <4>1, <4>2
    <3>3. CASE ~(t \in E /\ task[t].at \in {"embeddings", "chunks", "metadata"})
      <4>1. task'[t] = task[t]
        BY <2>1, <3>3
      <4> QED
        BY <3>1, <4>1
    <3> QED
      BY <3>2, <3>3
  <2>8. task' \in [Scopes -> Job]
    BY <2>1, <2>7
  <2>9. RegistryTypeOK'
    BY <1>1, <1>2, <2>4, <2>5, <2>6, <2>8 DEF RegistryTypeOK
  <2>10. ASSUME NEW t \in Scopes PROVE TaskSound(t)' /\ CacheSound(t)' /\ StatusSound(t)'
    <3>1. TaskSound(t)'
      BY <1>1, <2>6, <2>7, NoTaskIs DEF TaskSound, NoIndex, NoChunks
    <3>2. StatusSound(t)'
      BY <1>1, <2>2, <2>4, <2>5, <2>7 DEF StatusSound, Working, Loaded
    <3>3. CacheSound(t)'
      BY <1>1, <2>7 DEF CacheSound
    <3> QED
      BY <3>1, <3>2, <3>3
  <2> QED
    BY <2>9, <2>10 DEF RegistryInv
<1> QED
  BY <1>3, <1>4

(* Other steps of the loop. *)
LEMMA LoopKeeps ==
    ASSUME RegistryInv, Loop \/ \E r \in Requests : retrieve(r.primary, r.others, r.async)
    PROVE  RegistryInv'
<1>0. RegistryTypeOK /\ loop \in Handling
  BY DEF RegistryInv, RegistryTypeOK
<1>1. ASSUME UNCHANGED <<index, status, watcher, pending, waiting, task, file, cache, ghost>>,
             loop' \in Handling, loop'.at \in {"idle", "next"}
      PROVE  RegistryInv'
  <2>1. RegistryTypeOK'
    BY <1>0, <1>1 DEF RegistryTypeOK
  <2> QED
    BY <1>1, <2>1, SoundElsewhere DEF RegistryInv
<1>2. ASSUME NEW r \in Requests, retrieve(r.primary, r.others, r.async) PROVE RegistryInv'
  <2>1. loop' = [at |-> "next", todo |-> r.others \ {r.primary}, primary |-> r.primary,
                 scope |-> NoScope, async |-> r.async]
    BY <1>2 DEF retrieve
  <2>2. r.others \ {r.primary} \in SUBSET Scopes /\ r.primary \in Scopes \cup {NoScope} /\ r.async \in BOOLEAN
    BY RegistryAssumption DEF NoScope
  <2>3. loop' \in Handling /\ loop'.at = "next"
    BY <2>1, <2>2 DEF Handling
  <2> QED
    BY <1>1, <1>2, <2>3 DEF retrieve
<1>3. CASE EnsureNext
  <2>1. loop.todo \subseteq Scopes /\ (loop.primary # NoScope => loop.primary \in Scopes)
    BY <1>0 DEF Handling
  <2> QED
    BY <1>3, <2>1, EnsureKeeps DEF EnsureNext
<1>4. CASE NothingToAnswer
  <2>1. loop' \in Handling /\ loop'.at = "idle"
    BY <1>4 DEF NothingToAnswer, IdleLoop, Handling
  <2> QED
    BY <1>1, <1>4, <2>1 DEF NothingToAnswer
<1>5. CASE LoopLocks
  <2>1. loop.scope \in Scopes
    BY <1>0, <1>5 DEF LoopLocks, RegistryTypeOK
  <2> QED
    BY <1>5, <2>1, LocksKeep
<1>6. CASE Answer
  <2>0. PICK s \in Scopes : s = loop.primary
    BY <1>0, <1>6 DEF Answer, Handling
  <2>1. UNCHANGED <<index, watcher, pending, task, file, cache, ghost>> /\ loop' \in Handling /\ loop'.at = "idle"
    BY <1>6 DEF Answer, IdleLoop, Handling
  <2>2. CASE UNCHANGED <<status, waiting>>
    BY <1>1, <2>1, <2>2
  <2>3. CASE maybe_promote(s)
    <3>1. status' = [status EXCEPT ![s] = "promoting"] /\ waiting' = [waiting EXCEPT ![s].promote = waiting[s].promote + 1]
      BY <2>3 DEF maybe_promote, _begin_package_rebuild
    <3>2. waiting[s].promote + 1 \in Nat
      BY <1>0, WaitingAre
    <3>3. /\ waiting' \in [Scopes -> Waiting] /\ waiting'[s].watch = waiting[s].watch
          /\ \A t \in Scopes \ {s} : waiting'[t] = waiting[t]
      BY <1>0, <3>1, <3>2, WaitingCounts
    <3>4. status' \in [Scopes -> Statuses] /\ status'[s] = "promoting" /\ \A t \in Scopes \ {s} : status'[t] = status[t]
      BY <1>0, <3>1 DEF RegistryTypeOK, Statuses
    <3>5. RegistryTypeOK'
      BY <1>0, <2>1, <3>3, <3>4 DEF RegistryTypeOK
    <3>6. TaskSound(s)' /\ CacheSound(s)' /\ StatusSound(s)'
      BY <2>1, <3>3, <3>4 DEF RegistryInv, TaskSound, CacheSound, StatusSound
    <3> QED
      BY <2>1, <3>3, <3>4, <3>5, <3>6, StepAt
  <2> QED
    BY <1>6, <2>0, <2>2, <2>3 DEF Answer
<1> QED
  BY <1>2, <1>3, <1>4, <1>5, <1>6, KickoffKeeps DEF Loop

(* A process that dies leaves nothing but its caches. *)
LEMMA RestartedSound ==
    ASSUME RegistryInv, ProcessRestarts
    PROVE  RegistryInv'
<1>1. IdleLoop \in Handling /\ IdleLoop.at = "idle"
  BY DEF IdleLoop, Handling
<1>2. NoneWaiting \in Waiting
  BY DEF NoneWaiting, Waiting
<1>3. NoIndex \in -1..MaxVersion /\ "pending" \in Statuses
  BY RegistryAssumption DEF NoIndex, Statuses
<1>4. /\ RegistryTypeOK /\ (\A s \in Scopes : CacheSound(s)) /\ UNCHANGED <<file, cache>>
      /\ ghost'.broken = Broken(Scopes) /\ ghost'.found = {}
      /\ ghost' \in [broken : SUBSET Scopes, found : SUBSET Scopes]
  BY DEF RegistryInv, RegistryTypeOK, ProcessRestarts, Broken
<1>5. RegistryTypeOK'
  BY <1>1, <1>2, <1>3, <1>4, NoTaskIs DEF ProcessRestarts, RegistryTypeOK
<1>6. ASSUME NEW s \in Scopes PROVE TaskSound(s)' /\ CacheSound(s)' /\ StatusSound(s)'
  <2>1. task'[s] = NoTask /\ status'[s] = "pending"
    BY DEF ProcessRestarts
  <2>2. TaskSound(s)' /\ StatusSound(s)'
    BY <2>1, NoTaskIs DEF TaskSound, StatusSound, Nobody
  <2>3. CacheSound(s)'
    BY <1>4, <2>1, NoTaskIs DEF CacheSound, Broken
  <2> QED
    BY <2>2, <2>3
<1> QED
  BY <1>5, <1>6 DEF RegistryInv

(* For any scopes, versions, requests and edits, however builds, promotions, *)
(* watcher updates, failures, evictions and crashes interleave: "indexing"   *)
(* means that some thread is at work or that the last one found the index    *)
(* there, an evicted scope holds nothing, and a cache that loads is of one   *)
(* build unless its last save is under way or was broken off.                *)
THEOREM RegistryConsistentForAll == RegistrySpec => []RegistryConsistent
<1>1. RegistryInit => RegistryInv
  <2> SUFFICES ASSUME RegistryInit PROVE RegistryInv
    OBVIOUS
  <2>1. IdleLoop \in Handling /\ IdleLoop.at = "idle"
    BY DEF IdleLoop, Handling
  <2>2. NoneWaiting \in Waiting
    BY DEF NoneWaiting, Waiting
  <2>3. Present \in 1..MaxVersion /\ NoIndex \in -1..MaxVersion /\ "pending" \in Statuses /\ cache \in [Scopes -> CacheFiles]
    BY RegistryAssumption DEF NoIndex, Present, Statuses, RegistryInit
  <2>4. RegistryTypeOK
    BY <2>1, <2>2, <2>3, NoTaskIs DEF RegistryInit, RegistryTypeOK
  <2>5. \A s \in Scopes : task[s] = NoTask /\ status[s] = "pending" /\ cache[s].chunks \in {0, cache[s].emb}
    BY RegistryAssumption DEF RegistryInit
  <2>6. \A s \in Scopes : TaskSound(s) /\ CacheSound(s) /\ StatusSound(s)
    BY <2>5, NoTaskIs DEF TaskSound, CacheSound, StatusSound, Nobody
  <2> QED
    BY <2>4, <2>6 DEF RegistryInv
<1>2. RegistryInv /\ [RegistryNext]_rvars => RegistryInv'
  <2> SUFFICES ASSUME RegistryInv, [RegistryNext]_rvars PROVE RegistryInv'
    OBVIOUS
  <2>1. CASE UNCHANGED rvars
    <3>1. RegistryTypeOK'
      BY <2>1 DEF rvars, RegistryInv, RegistryTypeOK
    <3> QED
      BY <2>1, <3>1, SoundElsewhere DEF rvars, RegistryInv
  <2>2. ASSUME NEW s \in Scopes, Worker(s) \/ Edit(s) PROVE RegistryInv'
    BY <2>2, LocksKeep, BuildIndexKeeps, JobFailsKeeps, InstallIndexKeeps, InstallStatusKeeps, SavesKeep,
       SaveFailsKeeps, AttachKeeps, WatchKeeps DEF Worker
  <2> QED
    BY <2>1, <2>2, LoopKeeps, EvictionKeeps, RestartedSound DEF RegistryNext
<1>3. RegistryInv => RegistryConsistent
  <2> SUFFICES ASSUME RegistryInv, NEW s \in Scopes
               PROVE  /\ status[s] = "indexing" => Working(s) \/ s \in ghost.found
                      /\ (CacheLoads(s) /\ task[s].at # "chunks" /\ s \notin ghost.broken) =>
                           cache[s].emb = cache[s].chunks
                      /\ status[s] = "evicted" => ~Loaded(s) \/ task[s].at # "none"
    BY DEF RegistryConsistent, IndexingMeansWork, CacheIsOneBuild, EvictedHoldsNothing
  <2>1. TaskSound(s) /\ CacheSound(s) /\ StatusSound(s)
    BY DEF RegistryInv
  <2> QED
    BY <2>1 DEF CacheSound, StatusSound, CacheLoads, Loaded, NoIndex, NoChunks
<1> QED
  BY <1>1, <1>2, <1>3, PTL DEF RegistrySpec

-----------------------------------------------------------------------------
(* Scope tracking, for any mentions and thresholds. *)

(* The directories that qualify are candidates, and there are finitely many. *)
LEMMA QualifyingIs ==
    ASSUME NEW paths \in SUBSET Mentionable, NEW m \in Nat, NEW k \in Nat
    PROVE  /\ IsFiniteSet(Qualifying(paths, m, k))
           /\ Qualifying(paths, m, k) \subseteq Dirs
           /\ \A d \in Qualifying(paths, m, k) :
                 Len(d) >= k /\ Cardinality(FilesUnder(d, paths)) >= m
<1> DEFINE all == {Ancestors(p) : p \in paths}
<1>1. IsFiniteSet(paths)
  BY FS_Subset, MentionableAssumption
<1>2. ASSUME NEW p \in paths PROVE IsFiniteSet(Ancestors(p))
  <2> DEFINE f == [n \in 1..(Len(p) - 1) |-> SubSeq(p, 1, n)]
  <2>1. Len(p) - 1 \in Int
    BY MentionableAssumption
  <2>2. IsFiniteSet(1..(Len(p) - 1))
    BY <2>1, FS_Interval
  <2>3. IsFiniteSet({f[n] : n \in 1..(Len(p) - 1)})
    BY <2>2, FiniteImage
  <2> QED
    BY <2>3 DEF Ancestors
<1>3. IsFiniteSet(all)
  <2> DEFINE f == [p \in paths |-> Ancestors(p)]
  <2>1. IsFiniteSet({f[p] : p \in paths})
    BY <1>1, FiniteImage
  <2> QED
    BY <2>1
<1>4. IsFiniteSet(UNION all)
  <2>1. \A T \in all : IsFiniteSet(T)
    BY <1>2
  <2> HIDE DEF all
  <2> QED
    BY <1>3, <2>1, FS_UNION
<1>5. Qualifying(paths, m, k) \in SUBSET UNION all
  BY DEF Qualifying
<1>6. IsFiniteSet(Qualifying(paths, m, k))
  BY <1>4, <1>5, FS_Subset
<1>7. Qualifying(paths, m, k) \subseteq Dirs
  BY <1>5 DEF Dirs
<1> QED
  BY <1>6, <1>7 DEF Qualifying

(* Directories are sequences. *)
LEMMA DirLen == \A d \in Dirs : Len(d) \in Nat
<1> SUFFICES ASSUME NEW p \in Mentionable, NEW n \in 1..(Len(p) - 1)
             PROVE  Len(SubSeq(p, 1, n)) \in Nat
  BY DEF Dirs, Ancestors
<1>1. p \in Seq(STRING)
  BY MentionableAssumption
<1> QED
  BY <1>1

(* Of a finite set, what is greatest in some measure. *)
LEMMA Greatest ==
    ASSUME NEW S, IsFiniteSet(S), S # {}, NEW f \in [S -> Nat]
    PROVE  \E x \in S : \A y \in S : f[y] <= f[x]
<1> DEFINE T == {f[x] : x \in S}
<1>1. IsFiniteSet(T) /\ T \subseteq Nat /\ T # {}
  BY FiniteImage
<1> HIDE DEF T
<1>2. Max(T) \in T /\ \A y \in T : y <= Max(T)
  BY <1>1, MaxIsGreatest
<1> QED
  BY <1>2 DEF T

(* The keys of the candidates differ, so one of them is the best: the        *)
(* cluster is a directory that qualifies.                                    *)
LEMMA ClusterIsBest ==
    ASSUME NEW paths \in SUBSET Mentionable, NEW m \in Nat, NEW k \in Nat,
           Qualifying(paths, m, k) # {}
    PROVE  LET c == cluster_paths(paths, m, k)
           IN /\ c \in Qualifying(paths, m, k)
              /\ \A o \in Qualifying(paths, m, k) \ {c} : Better(c, o, paths)
<1> DEFINE q == Qualifying(paths, m, k)
           files(d) == Cardinality(FilesUnder(d, paths))
<1>1. q # {}
  OBVIOUS
<1>2. IsFiniteSet(q) /\ q \subseteq Dirs
  BY QualifyingIs
<1>3. \A d \in q : files(d) \in Nat /\ Len(d) \in Nat /\ LexRank(d) \in Nat
  <2> TAKE d \in q
  <2>1. FilesUnder(d, paths) \in SUBSET Mentionable
    BY DEF FilesUnder
  <2>2. files(d) \in Nat
    BY <2>1, FS_Subset, FS_CardinalityType, MentionableAssumption
  <2> QED
    BY <1>2, <2>2, DirLen, MentionableAssumption
<1>4. PICK a \in q : \A d \in q : files(d) <= files(a)
  <2> DEFINE f == [d \in q |-> files(d)]
  <2>1. f \in [q -> Nat]
    BY <1>3
  <2>2. \E a \in q : \A d \in q : f[d] <= f[a]
    <3> HIDE DEF f, q
    <3> QED
      BY <1>1, <1>2, <2>1, Greatest
  <2> QED
    BY <2>2
<1> DEFINE qa == {d \in q : files(d) = files(a)}
<1>5. PICK b \in qa : \A d \in qa : Len(d) <= Len(b)
  <2> DEFINE f == [d \in qa |-> Len(d)]
  <2>1. f \in [qa -> Nat]
    BY <1>3
  <2>2. IsFiniteSet(qa) /\ qa # {}
    <3>1. qa \in SUBSET q /\ a \in qa
      OBVIOUS
    <3> HIDE DEF q, qa
    <3> QED
      BY <1>2, <3>1, FS_Subset
  <2>3. \E b \in qa : \A d \in qa : f[d] <= f[b]
    <3> HIDE DEF f, qa
    <3> QED
      BY <2>1, <2>2, Greatest
  <2> QED
    BY <2>3
<1> DEFINE qb == {d \in qa : Len(d) = Len(b)}
<1>6. PICK c \in qb : \A d \in qb : LexRank(d) <= LexRank(c)
  <2> DEFINE f == [d \in qb |-> LexRank(d)]
  <2>1. f \in [qb -> Nat]
    BY <1>3
  <2>2. IsFiniteSet(qb) /\ qb # {}
    <3>1. qb \in SUBSET q /\ b \in qb
      OBVIOUS
    <3> HIDE DEF q, qb
    <3> QED
      BY <1>2, <3>1, FS_Subset
  <2>3. \E c \in qb : \A d \in qb : f[d] <= f[c]
    <3> HIDE DEF f, qb
    <3> QED
      BY <2>1, <2>2, Greatest
  <2> QED
    BY <2>3
<1>7. ASSUME NEW o \in q \ {c} PROVE Better(c, o, paths)
  <2>1. c \in q /\ files(c) = files(a) /\ Len(c) = Len(b) /\ files(o) <= files(a)
    BY <1>4
  <2>2. files(o) = files(c) => Len(o) <= Len(c)
    BY <1>5, <2>1
  <2>3. files(o) = files(c) /\ Len(o) = Len(c) => LexRank(o) <= LexRank(c) /\ LexRank(o) # LexRank(c)
    BY <1>2, <1>6, <2>1, MentionableAssumption
  <2>4. /\ files(o) \in Nat /\ files(c) \in Nat /\ Len(o) \in Nat /\ Len(c) \in Nat
        /\ LexRank(o) \in Nat /\ LexRank(c) \in Nat
    BY <1>3, <2>1
  <2> HIDE DEF q, qa, qb, files
  <2>5. \/ files(c) > files(o)
        \/ files(c) = files(o) /\ Len(c) > Len(o)
        \/ files(c) = files(o) /\ Len(c) = Len(o) /\ LexRank(c) > LexRank(o)
    BY <2>1, <2>2, <2>3, <2>4
  <2> QED
    BY <2>5 DEF Better, files
<1>8. c \in q
  OBVIOUS
<1> HIDE DEF q
<1>9. cluster_paths(paths, m, k) = CHOOSE d \in q : \A o \in q \ {d} : Better(d, o, paths)
  BY <1>1 DEF cluster_paths, q
<1> QED
  BY <1>7, <1>8, <1>9 DEF q

LEMMA ClusterQualifies ==
    ASSUME NEW paths \in SUBSET Mentionable, NEW m \in Nat, NEW k \in Nat,
           cluster_paths(paths, m, k) # NoDir
    PROVE  cluster_paths(paths, m, k) \in Qualifying(paths, m, k)
<1>1. Qualifying(paths, m, k) # {}
  BY DEF cluster_paths
<1> QED
  BY <1>1, ClusterIsBest

Phases == {"none", "watch", "speculative", "active", "demoted"}

(* No two scopes of ph are active. *)
AtMostOne(ph) == \A a, b \in Dirs : ph[a] = "active" /\ ph[b] = "active" => a = b

(* The strengthening of PhasesSound: a candidate that was refreshed was       *)
(* mentioned, so quiet never runs ahead of idle.                              *)
TrackInv ==
    /\ TrackerTypeOK
    /\ AtMostOne(phases)
    /\ AliveOnEvidence
    /\ \A d \in Dirs : phases[d] # "none" => quiet[d] <= idle[d]

(* Fresh evidence changes the phase of the candidate it is about; another one *)
(* can only be demoted by it, and none is activated beside an active one.     *)
LEMMA UpdatedPhases ==
    ASSUME phases \in [Dirs -> Phases], AtMostOne(phases),
           NEW anc \in Dirs, NEW n \in Nat, NEW turns \in Nat
    PROVE  /\ _update_phases(anc, n, turns) \in [Dirs -> Phases]
           /\ AtMostOne(_update_phases(anc, n, turns))
           /\ \A d \in Dirs \ {anc} : _update_phases(anc, n, turns)[d] \in {phases[d], "demoted"}
           /\ \A d \in Dirs \ {anc} : phases[d] = "none" => _update_phases(anc, n, turns)[d] = "none"
<1>1. PICK r : r = Revived(anc)
  OBVIOUS
<1>2. /\ r \in [Dirs -> Phases] /\ AtMostOne(r)
      /\ \A d \in Dirs \ {anc} : r[d] = phases[d]
  BY <1>1 DEF Revived, AtMostOne, Phases
<1>3. PICK dr : dr = Drift(r, anc, n)
  OBVIOUS
<1>4. /\ dr \in [Dirs -> Phases]
      /\ \A d \in Dirs : dr[d] = r[d] \/ (r[d] = "active" /\ dr[d] = "demoted")
  BY <1>2, <1>3 DEF Drift, Phases
<1>5. AtMostOne(dr)
  BY <1>2, <1>4 DEF AtMostOne
<1>6. PICK spec : spec = IF dr[anc] = "watch" /\ n >= SpecMin
                         THEN [dr EXCEPT ![anc] = "speculative"] ELSE dr
  OBVIOUS
<1>7. /\ spec \in [Dirs -> Phases] /\ AtMostOne(spec)
      /\ \A d \in Dirs \ {anc} : spec[d] = dr[d]
  BY <1>4, <1>5, <1>6 DEF AtMostOne, Phases
<1>8. PICK la : la = Ladder(dr, anc, n, turns)
  OBVIOUS
<1>9. \/ la = spec
      \/ la = [spec EXCEPT ![anc] = "active"] /\ Actives(spec) \subseteq {anc}
  BY <1>6, <1>8 DEF Ladder
<1>10. /\ la \in [Dirs -> Phases] /\ AtMostOne(la)
       /\ \A d \in Dirs \ {anc} : la[d] = dr[d]
  BY <1>7, <1>9 DEF AtMostOne, Phases, Actives
<1>11. la = _update_phases(anc, n, turns)
  BY <1>1, <1>3, <1>8 DEF _update_phases
<1>12. \A d \in Dirs \ {anc} : la[d] \in {phases[d], "demoted"} /\ (phases[d] = "none" => la[d] = "none")
  BY <1>2, <1>4, <1>10
<1> QED
  BY <1>10, <1>11, <1>12

(* What is alive after _demote_idle was so before, and is not idle. *)
LEMMA DemotedPhases ==
    ASSUME NEW ph \in [Dirs -> Phases], AtMostOne(ph), NEW age \in [Dirs -> 0..DemoteAfter]
    PROVE  /\ _demote_idle(ph, age) \in [Dirs -> Phases]
           /\ AtMostOne(_demote_idle(ph, age))
           /\ \A d \in Dirs : /\ _demote_idle(ph, age)[d] # "none" <=> ph[d] # "none"
                              /\ _demote_idle(ph, age)[d] \in {"speculative", "active"} =>
                                    _demote_idle(ph, age)[d] = ph[d] /\ age[d] < DemoteAfter
<1>1. PICK de : de = _demote_idle(ph, age)
  OBVIOUS
<1>2. de = [d \in Dirs |-> IF ph[d] \in {"speculative", "active"} /\ age[d] >= DemoteAfter
                           THEN "demoted" ELSE ph[d]]
  BY <1>1 DEF _demote_idle
<1>3. de \in [Dirs -> Phases] /\ AtMostOne(de)
  BY <1>2 DEF AtMostOne, Phases
<1>4. ASSUME NEW d \in Dirs
      PROVE  /\ de[d] # "none" <=> ph[d] # "none"
             /\ de[d] \in {"speculative", "active"} => de[d] = ph[d] /\ age[d] < DemoteAfter
  BY <1>2, TrackerAssumption
<1> QED
  BY <1>1, <1>3, <1>4

LEMMA CappedIs == \A n, cap \in Nat : Capped(n, cap) \in 0..cap /\ Capped(n, cap) <= n
  BY DEF Capped

LEMMA CappedMono == \A n, m, cap \in Nat : n <= m => Capped(n, cap) <= Capped(m, cap)
  BY DEF Capped

(* The files under a directory are some of the mentionable ones; a longer     *)
(* list of paths has no fewer of them.                                        *)
LEMMA FilesCount ==
    ASSUME NEW d, NEW seen \in SUBSET Mentionable
    PROVE  /\ IsFiniteSet(FilesUnder(d, seen))
           /\ Cardinality(FilesUnder(d, seen)) \in 0..Cardinality(Mentionable)
           /\ \A some \in SUBSET seen : Cardinality(FilesUnder(d, some)) <= Cardinality(FilesUnder(d, seen))
<1>1. FilesUnder(d, seen) \in SUBSET Mentionable
  BY DEF FilesUnder
<1>2. IsFiniteSet(FilesUnder(d, seen)) /\ Cardinality(FilesUnder(d, seen)) <= Cardinality(Mentionable)
  BY <1>1, FS_Subset, MentionableAssumption
<1>3. Cardinality(FilesUnder(d, seen)) \in Nat /\ Cardinality(Mentionable) \in Nat
  BY <1>2, FS_CardinalityType, MentionableAssumption
<1>4. ASSUME NEW some \in SUBSET seen
      PROVE  Cardinality(FilesUnder(d, some)) <= Cardinality(FilesUnder(d, seen))
  <2>1. FilesUnder(d, some) \in SUBSET FilesUnder(d, seen)
    BY DEF FilesUnder
  <2> QED
    BY <1>2, <2>1, FS_Subset
<1> QED
  BY <1>2, <1>3, <1>4

LEMMA TrackerStart == TrackerInit => TrackInv
<1> SUFFICES ASSUME TrackerInit PROVE TrackInv
  OBVIOUS
<1>1. Cardinality(Mentionable) \in Nat
  BY FS_CardinalityType, MentionableAssumption
<1>2. TrackerTypeOK
  BY <1>1, TrackerAssumption DEF TrackerInit, TrackerTypeOK
<1>3. \A d \in Dirs : phases[d] = "none" /\ quiet[d] <= idle[d]
  BY DEF TrackerInit
<1> QED
  BY <1>2, <1>3 DEF TrackInv, AtMostOne, AliveOnEvidence

(* A turn. *)
LEMMA ObserveKeeps ==
    ASSUME TrackInv, NEW paths \in SUBSET Mentionable, observe(paths)
    PROVE  TrackInv'
<1>1. PICK seen : seen = paths_seen \cup paths
  OBVIOUS
<1>2. PICK top : top = cluster_paths(seen, SpecMin, MinDepth)
  OBVIOUS
<1>3. PICK fresh \in BOOLEAN : fresh = (top # NoDir /\ FilesUnder(top, paths) # {})
  OBVIOUS
<1>4. PICK n : n = Cardinality(FilesUnder(top, seen))
  OBVIOUS
<1>5. PICK older : older = [d \in Dirs |-> IF phases[d] = "none" THEN 0 ELSE Capped(idle[d] + 1, DemoteAfter)]
  OBVIOUS
<1>6. PICK longer : longer = [d \in Dirs |-> IF phases[d] = "none" THEN 0 ELSE Capped(sustained[d] + 1, ActiveMinTurns)]
  OBVIOUS
<1>7. PICK restarts \in BOOLEAN : restarts = (fresh /\ phases[top] \in {"none", "demoted"})
  OBVIOUS
<1>8. PICK age : age = IF fresh THEN [older EXCEPT ![top] = 0] ELSE older
  OBVIOUS
<1>9. PICK turns : turns = IF restarts THEN [longer EXCEPT ![top] = Capped(1, ActiveMinTurns)] ELSE longer
  OBVIOUS
<1>10. PICK ph : ph = IF fresh THEN _update_phases(top, n, turns[top]) ELSE phases
  OBVIOUS
<1>11. /\ paths_seen' = seen /\ idle' = age /\ sustained' = turns
       /\ unique' = IF fresh THEN [unique EXCEPT ![top] = n] ELSE unique
  BY <1>1, <1>2, <1>3, <1>4, <1>5, <1>6, <1>7, <1>8, <1>9 DEF observe
<1>12. phases' = _demote_idle(ph, age)
  BY <1>1, <1>2, <1>3, <1>4, <1>10, <1>11 DEF observe
<1>13. quiet' = [d \in Dirs |-> IF FilesUnder(d, paths) # {} THEN 0 ELSE Capped(quiet[d] + 1, DemoteAfter)]
  BY DEF observe
<1>14. seen \in SUBSET Mentionable /\ paths_seen \in SUBSET seen
  BY <1>1 DEF TrackInv, TrackerTypeOK
<1>15. n \in 0..Cardinality(Mentionable) /\ n \in Nat
  <2>1. Cardinality(Mentionable) \in Nat
    BY FS_CardinalityType, MentionableAssumption
  <2> QED
    BY <1>4, <1>14, <2>1, FilesCount
<1>16. fresh => top \in Dirs /\ Len(top) >= MinDepth /\ n >= SpecMin
  <2> SUFFICES ASSUME fresh PROVE top \in Dirs /\ Len(top) >= MinDepth /\ n >= SpecMin
    OBVIOUS
  <2>1. SpecMin \in Nat /\ MinDepth \in Nat
    BY TrackerAssumption DEF MinDepth
  <2>2. top \in Qualifying(seen, SpecMin, MinDepth)
    BY <1>2, <1>3, <1>14, <2>1, ClusterQualifies
  <2> QED
    BY <1>4, <1>14, <2>1, <2>2, QualifyingIs
<1>17. older \in [Dirs -> 0..DemoteAfter] /\ longer \in [Dirs -> 0..ActiveMinTurns]
  <2>1. \A d \in Dirs : idle[d] + 1 \in Nat /\ sustained[d] + 1 \in Nat
    BY TrackerAssumption DEF TrackInv, TrackerTypeOK
  <2>2. DemoteAfter \in Nat /\ ActiveMinTurns \in Nat
    BY TrackerAssumption
  <2>3. \A d \in Dirs : /\ Capped(idle[d] + 1, DemoteAfter) \in 0..DemoteAfter
                        /\ Capped(sustained[d] + 1, ActiveMinTurns) \in 0..ActiveMinTurns
    BY <2>1, <2>2, CappedIs
  <2> QED
    BY <1>5, <1>6, <2>2, <2>3
<1>18. age \in [Dirs -> 0..DemoteAfter] /\ turns \in [Dirs -> 0..ActiveMinTurns]
  <2>1. DemoteAfter \in Nat /\ ActiveMinTurns \in Nat
    BY TrackerAssumption
  <2>2. Capped(1, ActiveMinTurns) \in 0..ActiveMinTurns
    BY <2>1, CappedIs
  <2>3. age \in [Dirs -> 0..DemoteAfter]
    <3>1. 0 \in 0..DemoteAfter
      BY <2>1
    <3> QED
      BY <1>8, <1>17, <3>1
  <2>4. turns \in [Dirs -> 0..ActiveMinTurns]
    BY <1>9, <1>17, <2>2
  <2> QED
    BY <2>3, <2>4
<1>19. /\ phases \in [Dirs -> Phases] /\ AtMostOne(phases)
  BY DEF TrackInv, TrackerTypeOK, Phases
<1>20. /\ ph \in [Dirs -> Phases] /\ AtMostOne(ph)
       /\ \A d \in Dirs : ~(fresh /\ d = top) =>
             ph[d] \in {phases[d], "demoted"} /\ (phases[d] = "none" => ph[d] = "none")
  <2>1. CASE ~fresh
    BY <1>10, <1>19, <2>1
  <2>2. CASE fresh
    <3>1. top \in Dirs /\ turns[top] \in Nat
      BY <1>16, <1>18, <2>2, TrackerAssumption
    <3> QED
      BY <1>10, <1>15, <1>19, <2>2, <3>1, UpdatedPhases
  <2> QED
    BY <2>1, <2>2
<1>21. /\ phases' \in [Dirs -> Phases] /\ AtMostOne(phases')
       /\ \A d \in Dirs : /\ phases'[d] # "none" <=> ph[d] # "none"
                          /\ phases'[d] \in {"speculative", "active"} =>
                                phases'[d] = ph[d] /\ age[d] < DemoteAfter
  BY <1>12, <1>18, <1>20, DemotedPhases
<1>22. /\ unique' \in [Dirs -> 0..Cardinality(Mentionable)]
       /\ quiet' \in [Dirs -> 0..DemoteAfter]
  <2>1. unique' \in [Dirs -> 0..Cardinality(Mentionable)]
    BY <1>11, <1>15 DEF TrackInv, TrackerTypeOK
  <2>2. quiet' \in [Dirs -> 0..DemoteAfter]
    <3>1. DemoteAfter \in Nat /\ \A d \in Dirs : quiet[d] + 1 \in Nat
      BY TrackerAssumption DEF TrackInv, TrackerTypeOK
    <3>2. \A d \in Dirs : Capped(quiet[d] + 1, DemoteAfter) \in 0..DemoteAfter
      BY <3>1, CappedIs
    <3> QED
      BY <1>13, <3>1, <3>2
  <2> QED
    BY <2>1, <2>2
<1>23. TrackerTypeOK'
  BY <1>11, <1>14, <1>18, <1>21, <1>22 DEF TrackerTypeOK, Phases
<1>24. ASSUME NEW d \in Dirs, phases'[d] # "none"
       PROVE  quiet'[d] <= idle'[d]
  <2>1. CASE fresh /\ d = top
    <3>1. idle'[d] = 0
      BY <1>8, <1>11, <1>17, <2>1
    <3>2. quiet'[d] = 0
      BY <1>3, <1>13, <2>1
    <3> QED
      BY <3>1, <3>2
  <2>2. CASE ~(fresh /\ d = top)
    <3>1. phases[d] # "none"
      BY <1>20, <1>21, <1>24, <2>2
    <3>2. /\ idle'[d] = Capped(idle[d] + 1, DemoteAfter)
          /\ quiet'[d] = IF FilesUnder(d, paths) # {} THEN 0 ELSE Capped(quiet[d] + 1, DemoteAfter)
      BY <1>5, <1>8, <1>11, <1>13, <1>17, <2>2, <3>1
    <3>3. quiet[d] <= idle[d] /\ quiet[d] \in Nat /\ idle[d] \in Nat /\ DemoteAfter \in Nat
      BY <3>1, TrackerAssumption DEF TrackInv, TrackerTypeOK
    <3>4. quiet[d] + 1 <= idle[d] + 1 /\ quiet[d] + 1 \in Nat /\ idle[d] + 1 \in Nat
      BY <3>3
    <3>5. Capped(quiet[d] + 1, DemoteAfter) <= Capped(idle[d] + 1, DemoteAfter)
      BY <3>3, <3>4, CappedMono
    <3>6. Capped(idle[d] + 1, DemoteAfter) \in 0..DemoteAfter
      BY <3>3, <3>4, CappedIs
    <3> QED
      BY <3>2, <3>5, <3>6
  <2> QED
    BY <2>1, <2>2
<1>25. ASSUME NEW d \in Dirs, phases'[d] \in {"speculative", "active"}
       PROVE  /\ SpecMin <= unique'[d] /\ unique'[d] <= Cardinality(FilesUnder(d, seen))
              /\ Len(d) >= MinDepth
              /\ quiet'[d] < DemoteAfter
  <2>1. quiet'[d] < DemoteAfter
    <3>1. quiet'[d] <= age[d] /\ age[d] < DemoteAfter
      BY <1>11, <1>21, <1>24, <1>25
    <3> QED
      BY <1>18, <1>22, <3>1, TrackerAssumption
  <2>2. CASE fresh /\ d = top
    <3>1. unique'[d] = n
      BY <1>11, <2>2 DEF TrackInv, TrackerTypeOK
    <3> QED
      BY <1>4, <1>15, <1>16, <2>1, <2>2, <3>1
  <2>3. CASE ~(fresh /\ d = top)
    <3>1. phases[d] \in {"speculative", "active"}
      BY <1>20, <1>21, <1>25, <2>3
    <3>2. unique'[d] = unique[d]
      BY <1>11, <2>3 DEF TrackInv, TrackerTypeOK
    <3>3. /\ SpecMin <= unique[d] /\ unique[d] <= Cardinality(FilesUnder(d, paths_seen))
          /\ Len(d) >= MinDepth
      BY <3>1 DEF TrackInv, AliveOnEvidence
    <3>4. Cardinality(FilesUnder(d, paths_seen)) <= Cardinality(FilesUnder(d, seen))
      BY <1>14, FilesCount
    <3>5. /\ Cardinality(FilesUnder(d, paths_seen)) \in Int /\ Cardinality(FilesUnder(d, seen)) \in Int
          /\ unique[d] \in Int
      BY <1>14, FilesCount, FS_CardinalityType DEF TrackInv, TrackerTypeOK
    <3> QED
      BY <2>1, <3>2, <3>3, <3>4, <3>5
  <2> QED
    BY <2>2, <2>3
<1>26. AliveOnEvidence'
  BY <1>11, <1>25 DEF AliveOnEvidence
<1> QED
  BY <1>21, <1>23, <1>24, <1>26 DEF TrackInv, AtMostOne

(* TrackInv is inductive. *)
LEMMA TrackedOn == TrackInv /\ [TrackerNext]_tvars => TrackInv'
<1> SUFFICES ASSUME TrackInv, [TrackerNext]_tvars PROVE TrackInv'
  OBVIOUS
<1>1. CASE TrackerNext
  BY <1>1, ObserveKeeps DEF TrackerNext
<1>2. CASE UNCHANGED tvars
  BY <1>2 DEF tvars, TrackInv, TrackerTypeOK, AtMostOne, AliveOnEvidence
<1> QED
  BY <1>1, <1>2

-----------------------------------------------------------------------------
(* Which directory a session or a prompt is about. *)

(* The ancestors of a path are its beginnings. *)
LEMMA AncestorIs ==
    ASSUME NEW T, NEW p \in Seq(T), NEW d \in Ancestors(p)
    PROVE  /\ d \in Seq(T) /\ Len(d) \in Nat /\ 1 <= Len(d) /\ Len(d) < Len(p)
           /\ d = SubSeq(p, 1, Len(d)) /\ d # NoDir
<1>1. PICK n \in 1 .. (Len(p) - 1) : d = SubSeq(p, 1, n)
  BY DEF Ancestors
<1>2. Len(p) \in Nat /\ n \in Nat /\ n >= 1 /\ n < Len(p)
  OBVIOUS
<1>3. d \in Seq(T) /\ Len(d) = n
  BY <1>1, <1>2
<1>4. d # NoDir
  BY <1>2, <1>3 DEF NoDir
<1> QED
  BY <1>1, <1>2, <1>3, <1>4

LEMMA AncestorOfBeginning ==
    ASSUME NEW T, NEW p \in Seq(T), NEW m \in Nat, m <= Len(p), NEW n \in 1 .. m
    PROVE  SubSeq(SubSeq(p, 1, m), 1, n) = SubSeq(p, 1, n)
  OBVIOUS

(* Of two ancestors the shorter is an ancestor of the longer. *)
LEMMA TwoAncestors ==
    ASSUME NEW T, NEW p \in Seq(T), NEW d \in Ancestors(p), NEW e \in Ancestors(p), Len(d) <= Len(e)
    PROVE  d = e \/ d \in Ancestors(e)
<1>1. /\ Len(d) \in Nat /\ Len(e) \in Nat /\ 1 <= Len(d) /\ Len(e) <= Len(p)
      /\ d = SubSeq(p, 1, Len(d)) /\ e = SubSeq(p, 1, Len(e)) /\ e \in Seq(T)
      /\ Len(p) \in Nat
  BY AncestorIs
<1>2. CASE Len(d) = Len(e)
  BY <1>1, <1>2
<1>3. CASE Len(d) < Len(e)
  <2>1. Len(d) \in 1 .. Len(e) /\ Len(d) \in 1 .. (Len(e) - 1)
    BY <1>1, <1>3
  <2>2. SubSeq(SubSeq(p, 1, Len(e)), 1, Len(d)) = SubSeq(p, 1, Len(d))
    BY <1>1, <2>1, AncestorOfBeginning
  <2>3. d = SubSeq(e, 1, Len(d))
    BY <1>1, <2>2
  <2> QED
    BY <2>1, <2>3 DEF Ancestors
<1>4. Len(d) = Len(e) \/ Len(d) < Len(e)
  <2>1. Len(d) \in Nat /\ Len(e) \in Nat
    BY <1>1
  <2> QED
    BY <2>1
<1> QED
  BY <1>2, <1>3, <1>4

LEMMA AncestorOfAncestor ==
    ASSUME NEW p \in Seq(STRING), NEW e \in Ancestors(p), NEW d \in Ancestors(e)
    PROVE  d \in Ancestors(p)
<1>1. /\ Len(e) \in Nat /\ Len(e) < Len(p) /\ e = SubSeq(p, 1, Len(e)) /\ e \in Seq(STRING)
      /\ Len(p) \in Nat
  BY AncestorIs
<1>2. PICK n \in 1 .. (Len(e) - 1) : d = SubSeq(e, 1, n)
  BY DEF Ancestors
<1>3. n \in 1 .. Len(e) /\ n \in 1 .. (Len(p) - 1) /\ Len(e) <= Len(p)
  BY <1>1
<1>4. SubSeq(SubSeq(p, 1, Len(e)), 1, n) = SubSeq(p, 1, n)
  BY <1>1, <1>3, AncestorOfBeginning
<1> QED
  BY <1>1, <1>2, <1>3, <1>4 DEF Ancestors

LEMMA AncestorsFinite ==
    ASSUME NEW T, NEW p \in Seq(T)
    PROVE  IsFiniteSet(Ancestors(p))
<1> DEFINE f == [n \in 1..(Len(p) - 1) |-> SubSeq(p, 1, n)]
<1>1. Len(p) - 1 \in Int
  OBVIOUS
<1>2. IsFiniteSet(1..(Len(p) - 1))
  BY <1>1, FS_Interval
<1>3. IsFiniteSet({f[n] : n \in 1..(Len(p) - 1)})
  BY <1>2, FiniteImage
<1> QED
  BY <1>3 DEF Ancestors

(* Of finitely many ancestors one is the deepest. *)
LEMMA DeepestExists ==
    ASSUME NEW S, IsFiniteSet(S), S # {}, \A d \in S : Len(d) \in Nat
    PROVE  \E d \in S : \A o \in S : Len(o) <= Len(d)
<1> DEFINE f == [d \in S |-> Len(d)]
<1>1. f \in [S -> Nat]
  OBVIOUS
<1>2. \E d \in S : \A o \in S : f[o] <= f[d]
  <2> HIDE DEF f
  <2> QED
    BY <1>1, Greatest
<1> QED
  BY <1>2

(* A cluster is the only directory that is better than all others. *)
LEMMA ClusterIs ==
    ASSUME NEW paths \in SUBSET Mentionable, NEW m \in Nat, NEW k \in Nat,
           NEW c \in Qualifying(paths, m, k),
           \A o \in Qualifying(paths, m, k) \ {c} : Better(c, o, paths)
    PROVE  cluster_paths(paths, m, k) = c
<1> DEFINE q == Qualifying(paths, m, k)
           b == cluster_paths(paths, m, k)
<1>1. b \in q /\ \A o \in q \ {b} : Better(b, o, paths)
  BY ClusterIsBest
<1>2. q \subseteq Dirs
  BY QualifyingIs
<1> HIDE DEF b, q
<1>3. ASSUME b # c PROVE FALSE
  <2>1. Better(b, c, paths) /\ Better(c, b, paths)
    BY <1>1, <1>3 DEF q
  <2>2. /\ Cardinality(FilesUnder(b, paths)) \in Nat /\ Cardinality(FilesUnder(c, paths)) \in Nat
        /\ Len(b) \in Nat /\ Len(c) \in Nat /\ LexRank(b) \in Nat /\ LexRank(c) \in Nat
    BY <1>1, <1>2, FilesCount, DirLen, MentionableAssumption DEF q
  <2> QED
    BY <2>1, <2>2 DEF Better
<1> QED
  BY <1>3 DEF b

(* Where all files share a directory, the cluster is the deepest such one. *)
LEMMA SharedIsCluster ==
    ASSUME paths_seen \subseteq Mentionable
    PROVE  ClusterIsShared
<1> DEFINE common == {d \in Dirs : paths_seen # {} /\ FilesUnder(d, paths_seen) = paths_seen}
           q == Qualifying(paths_seen, SpecMin, MinDepth)
           all == UNION {Ancestors(p) : p \in paths_seen}
<1> SUFFICES ASSUME NEW shared \in common, Cardinality(paths_seen) >= SpecMin, Len(shared) >= MinDepth,
                    \A o \in common : Len(o) <= Len(shared)
             PROVE  cluster_paths(paths_seen, SpecMin, MinDepth) = shared
  BY DEF ClusterIsShared
<1>1. paths_seen # {} /\ FilesUnder(shared, paths_seen) = paths_seen
  OBVIOUS
<1>2. SpecMin \in Nat /\ MinDepth \in Nat /\ IsFiniteSet(paths_seen)
  BY TrackerAssumption, MentionableAssumption, FS_Subset DEF MinDepth
<1>3. shared \in q
  <2>1. shared \in all
    BY <1>1 DEF FilesUnder
  <2> QED
    BY <1>1, <2>1 DEF Qualifying
<1>4. q \subseteq Dirs /\ q \subseteq all
  BY <1>2, QualifyingIs DEF Qualifying
<1> HIDE DEF q
<1>5. PICK p \in paths_seen : shared \in Ancestors(p)
  BY <1>1 DEF FilesUnder
<1>6. ASSUME NEW o \in q \ {shared} PROVE Better(shared, o, paths_seen)
  <2>1. FilesUnder(o, paths_seen) \in SUBSET paths_seen
    BY DEF FilesUnder
  <2>2. Cardinality(FilesUnder(o, paths_seen)) <= Cardinality(paths_seen)
        /\ (Cardinality(paths_seen) = Cardinality(FilesUnder(o, paths_seen)) => paths_seen = FilesUnder(o, paths_seen))
    BY <1>2, <2>1, FS_Subset
  <2>3. /\ FilesUnder(shared, paths_seen) = paths_seen /\ Cardinality(paths_seen) \in Nat
        /\ Cardinality(FilesUnder(o, paths_seen)) \in Nat /\ Len(o) \in Nat /\ Len(shared) \in Nat
    BY <1>1, <1>2, <1>3, <1>4, FilesCount, DirLen, FS_CardinalityType
  <2>4. CASE FilesUnder(o, paths_seen) # paths_seen
    <3>1. Cardinality(paths_seen) > Cardinality(FilesUnder(o, paths_seen))
      BY <2>2, <2>3, <2>4
    <3> QED
      BY <2>3, <3>1 DEF Better
  <2>5. CASE FilesUnder(o, paths_seen) = paths_seen
    <3>1. o \in common /\ o \in Ancestors(p)
      BY <1>1, <1>4, <2>5 DEF FilesUnder
    <3>2. Len(o) <= Len(shared)
      BY <3>1
    <3>3. p \in Seq(STRING) /\ shared \in Ancestors(p)
      BY <1>5, MentionableAssumption
    <3>4. Len(o) # Len(shared)
      <4>1. ASSUME Len(o) = Len(shared) PROVE FALSE
        <5>1. o \in Ancestors(shared) /\ shared \in Seq(STRING)
          BY <2>3, <3>1, <3>3, <4>1, TwoAncestors, AncestorIs
        <5> QED
          BY <2>3, <4>1, <5>1, AncestorIs
      <4> QED
        BY <4>1
    <3> QED
      BY <2>3, <2>5, <3>2, <3>4 DEF Better
  <2> QED
    BY <2>4, <2>5
<1> QED
  BY <1>2, <1>3, <1>6, ClusterIs DEF q

(* What an entry of a sorted list that is kept, and comes first, precedes. *)
LEMMA AmongSorted ==
    ASSUME NEW S, IsFiniteSet(S), NEW R, Orders(R, S), NEW T
    PROVE  LET a == Among(Sorted(S, R), T)
           IN /\ a = <<>> <=> S \cap T = {}
              /\ a # <<>> => a[1] \in S \cap T /\ \A o \in (S \cap T) \ {a[1]} : <<a[1], o>> \in R
<1> DEFINE s == Sorted(S, R)
           a == Among(s, T)
<1>1. /\ s \in Seq(S) /\ \A x \in S : \E i \in DOMAIN s : s[i] = x
      /\ \A i, j \in DOMAIN s : i < j <=> <<s[i], s[j]>> \in R
  BY SortedIs
<1> HIDE DEF s
<1>2. a \in Seq(S \cap T)
  <2>1. Among(s, T) \in Seq(S \cap T)
    BY <1>1, AmongIs
  <2> QED
    BY <2>1
<1>3. \A i \in DOMAIN s : s[i] \in T => \E k \in DOMAIN a : a[k] = s[i]
  <2>1. /\ Among(s, T) \in Seq(S \cap T)
        /\ \A i \in DOMAIN s : s[i] \in T => \E k \in DOMAIN Among(s, T) : Among(s, T)[k] = s[i]
    BY <1>1, AmongIs
  <2> QED
    BY <2>1
<1>4. \A k, m \in DOMAIN a : k < m => \E i, j \in DOMAIN s : i < j /\ s[i] = a[k] /\ s[j] = a[m]
  <2>1. /\ Among(s, T) \in Seq(S \cap T)
        /\ \A k, m \in DOMAIN Among(s, T) : k < m =>
              \E i, j \in DOMAIN s : i < j /\ s[i] = Among(s, T)[k] /\ s[j] = Among(s, T)[m]
    BY <1>1, AmongIs
  <2> QED
    BY <2>1
<1> HIDE DEF a
<1>5. DOMAIN a = 1 .. Len(a) /\ Len(a) \in Nat /\ (a # <<>> <=> 1 \in DOMAIN a) /\ (a = <<>> => DOMAIN a = {})
  BY <1>2
<1>6. ASSUME NEW o \in S \cap T PROVE \E k \in DOMAIN a : a[k] = o
  BY <1>1, <1>3
<1>7. ASSUME NEW k \in DOMAIN a PROVE a[k] \in S \cap T
  BY <1>2
<1>8. ASSUME a # <<>>, NEW o \in (S \cap T) \ {a[1]} PROVE <<a[1], o>> \in R
  <2>1. PICK m \in DOMAIN a : a[m] = o
    BY <1>6
  <2>2. 1 < m /\ 1 \in DOMAIN a
    BY <1>5, <1>8, <2>1
  <2>3. PICK i, j \in DOMAIN s : i < j /\ s[i] = a[1] /\ s[j] = a[m]
    BY <1>4, <2>2
  <2> QED
    BY <1>1, <2>1, <2>3
<1> QED
  BY <1>5, <1>6, <1>7, <1>8 DEF a, s

LEMMA BestOfAll ==
    ASSUME paths_seen \subseteq Mentionable
    PROVE  ClusterIsFirst
<1> DEFINE deep == {d \in Dirs : Len(d) >= MinDepth}
           q1 == Qualifying(paths_seen, SpecMin, 1)
           q2 == Qualifying(paths_seen, SpecMin, MinDepth)
           R == {e \in Pairs(q1) : Better(e[1], e[2], paths_seen)}
           all == Among(Sorted(q1, R), deep)
<1>0. SpecMin \in Nat /\ MinDepth \in Nat /\ 1 \in Nat
  BY TrackerAssumption DEF MinDepth
<1>1. IsFiniteSet(q1) /\ q1 \subseteq Dirs /\ q2 \subseteq Dirs
  BY <1>0, QualifyingIs
<1>2. q1 \cap deep = q2
  <2>1. \A d \in Dirs : Len(d) >= MinDepth => Len(d) >= 1
    BY DirLen DEF MinDepth
  <2>2. \A d \in q1 : d \in Dirs
    BY <1>1
  <2>3. \A d \in q2 : d \in Dirs
    BY <1>1
  <2> QED
    BY <2>1, <2>2, <2>3 DEF Qualifying
<1>3. \A x, y \in q1 : <<x, y>> \in R <=> Better(x, y, paths_seen)
  BY DEF Pairs
<1>4. Orders(R, q1)
  <2> DEFINE n(d) == Cardinality(FilesUnder(d, paths_seen))
  <2>1. \A d \in q1 : n(d) \in Nat /\ Len(d) \in Nat /\ LexRank(d) \in Nat
    BY <1>1, FilesCount, DirLen, MentionableAssumption
  <2>2. \A c, d \in q1 : LexRank(c) = LexRank(d) => c = d
    BY <1>1, MentionableAssumption
  <2>3. \A x, y \in q1 : <<x, y>> \in R <=>
          \/ n(x) > n(y)
          \/ n(x) = n(y) /\ Len(x) > Len(y)
          \/ n(x) = n(y) /\ Len(x) = Len(y) /\ LexRank(x) > LexRank(y)
    BY <1>3 DEF Better
  <2> HIDE DEF R, q1, n
  <2>4. \A x, y \in q1 : <<x, y>> \in R => <<y, x>> \notin R
    BY <2>1, <2>3
  <2>5. \A x, y \in q1 : x = y \/ <<x, y>> \in R \/ <<y, x>> \in R
    <3> TAKE x, y \in q1
    <3>1. /\ n(x) \in Nat /\ n(y) \in Nat /\ Len(x) \in Nat /\ Len(y) \in Nat
          /\ LexRank(x) \in Nat /\ LexRank(y) \in Nat
      BY <2>1
    <3>2. \/ n(x) > n(y) \/ n(y) > n(x)
          \/ n(x) = n(y) /\ (Len(x) > Len(y) \/ Len(y) > Len(x))
          \/ n(x) = n(y) /\ Len(x) = Len(y)
              /\ (LexRank(x) > LexRank(y) \/ LexRank(y) > LexRank(x) \/ LexRank(x) = LexRank(y))
      BY <3>1
    <3> QED
      BY <2>2, <2>3, <3>2
  <2>6. \A x, y, z \in q1 : <<x, y>> \in R /\ <<y, z>> \in R => <<x, z>> \in R
    BY <2>1, <2>3
  <2> QED
    BY <2>4, <2>5, <2>6 DEF Orders
<1>5. all_clusters(paths_seen, SpecMin) = Sorted(q1, R)
  BY DEF all_clusters
<1> HIDE DEF q1, R, deep
<1>6. /\ all = <<>> <=> q1 \cap deep = {}
      /\ all # <<>> =>
           all[1] \in q1 \cap deep /\ \A o \in (q1 \cap deep) \ {all[1]} : <<all[1], o>> \in R
  BY <1>1, <1>4, AmongSorted
<1> HIDE DEF all
<1>7. ASSUME all = <<>> PROVE cluster_paths(paths_seen, SpecMin, MinDepth) = NoDir
  BY <1>2, <1>6, <1>7 DEF cluster_paths, q2
<1>8. ASSUME all # <<>> PROVE cluster_paths(paths_seen, SpecMin, MinDepth) = Head(all)
  <2>1. all[1] \in q2 /\ \A o \in q2 \ {all[1]} : Better(all[1], o, paths_seen)
    <3>1. all[1] \in q1 /\ all[1] \in q2
      BY <1>2, <1>6, <1>8
    <3>2. ASSUME NEW o \in q2 \ {all[1]} PROVE Better(all[1], o, paths_seen)
      <4>1. o \in q1 /\ <<all[1], o>> \in R
        BY <1>2, <1>6, <1>8
      <4> QED
        BY <1>3, <3>1, <4>1
    <3> QED
      BY <3>1, <3>2
  <2>2. cluster_paths(paths_seen, SpecMin, MinDepth) = all[1]
    BY <1>0, <2>1, ClusterIs
  <2>3. Head(all) = all[1]
    BY DEF Head
  <2> QED
    BY <1>8, <2>2, <2>3
<1> QED
  BY <1>5, <1>7, <1>8 DEF all, deep, ClusterIsFirst

(* PhasesSound of tracker.py, for any paths, thresholds and turns: a session  *)
(* never has two active scopes, a speculative or active scope has the files   *)
(* it counts and was mentioned in the last DemoteAfter turns, and the cluster *)
(* is the deepest directory the files share, or the best with enough of them. *)
THEOREM PhasesSoundForAll == TrackerSpec => []PhasesSound
<1>1. TrackInv /\ [TrackerNext]_tvars => TrackInv'
  BY TrackedOn
<1>2. TrackInv => PhasesSound
  <2> SUFFICES ASSUME TrackInv PROVE OneActive
    BY SharedIsCluster, BestOfAll DEF TrackInv, TrackerTypeOK, PhasesSound
  <2>1. CASE Actives(phases) = {}
    BY <2>1, FS_EmptySet DEF OneActive
  <2>2. CASE Actives(phases) # {}
    <3>1. PICK a : Actives(phases) = {a}
      BY <2>2 DEF TrackInv, AtMostOne, Actives
    <3> QED
      BY <3>1, FS_Singleton DEF OneActive
  <2> QED
    BY <2>1, <2>2
<1> QED
  BY <1>1, <1>2, TrackerStart, PTL DEF TrackerSpec

(* A path is its beginning and the rest. *)
LEMMA Rejoined ==
    ASSUME NEW p \in Seq(STRING), NEW n \in Nat, n <= Len(p)
    PROVE  SubSeq(p, 1, n) \o SubSeq(p, n + 1, Len(p)) = p
<1> DEFINE a == SubSeq(p, 1, n)
           b == SubSeq(p, n + 1, Len(p))
<1>1. Len(p) \in Nat
  OBVIOUS
<1>2. a \in Seq(STRING) /\ Len(a) = n /\ \A i \in 1 .. n : a[i] = p[i]
  BY <1>1
<1>3. b \in Seq(STRING) /\ Len(b) = Len(p) - n /\ \A i \in 1 .. (Len(p) - n) : b[i] = p[n + i]
  BY <1>1
<1> HIDE DEF a, b
<1>4. a \o b \in Seq(STRING) /\ Len(a \o b) = Len(p)
  BY <1>1, <1>2, <1>3
<1>5. ASSUME NEW i \in 1 .. Len(p) PROVE (a \o b)[i] = p[i]
  <2>0. i \in Nat /\ (i <= n \/ n < i)
    BY <1>1
  <2>1. CASE i <= n
    BY <1>1, <1>2, <1>3, <2>1
  <2>2. CASE n < i
    <3>1. i - n \in 1 .. (Len(p) - n) /\ n + (i - n) = i
      BY <1>1, <2>2
    <3>2. (a \o b)[i] = b[i - n]
      BY <1>1, <1>2, <1>3, <2>2
    <3> QED
      BY <1>3, <3>1, <3>2
  <2> QED
    BY <2>0, <2>1, <2>2
<1> QED
  BY <1>4, <1>5, SeqEqual DEF a, b

(* The directories upwards from a path are its beginnings. *)
LEMMA UpwardsIs ==
    ASSUME NEW p \in Seq(STRING), NEW d \in Upwards(p)
    PROVE  /\ d \in Seq(STRING) /\ Len(d) \in Nat /\ Len(p) \in Nat /\ Len(d) <= Len(p)
           /\ d \in Ancestors(p) \/ d = p
<1>1. d \in Ancestors(p) \/ d = p
  BY DEF Upwards
<1>2. ASSUME d \in Ancestors(p) PROVE d \in Seq(STRING) /\ Len(d) \in Nat /\ Len(d) < Len(p)
  BY <1>2, AncestorIs
<1>3. Len(p) \in Nat
  OBVIOUS
<1> QED
  BY <1>1, <1>2, <1>3

LEMMA TwoUpwards ==
    ASSUME NEW p \in Seq(STRING), NEW d \in Upwards(p), NEW e \in Upwards(p), Len(d) <= Len(e)
    PROVE  d = e \/ d \in Ancestors(e)
<1>1. (d \in Ancestors(p) \/ d = p) /\ (e \in Ancestors(p) \/ e = p)
  BY UpwardsIs
<1>2. ASSUME d = p, e \in Ancestors(p) PROVE FALSE
  <2>1. Len(e) < Len(p) /\ Len(e) \in Nat /\ Len(p) \in Nat
    BY <1>2, AncestorIs
  <2> QED
    BY <1>2, <2>1
<1>3. ASSUME d \in Ancestors(p), e \in Ancestors(p) PROVE d = e \/ d \in Ancestors(e)
  BY <1>3, TwoAncestors
<1> QED
  BY <1>1, <1>2, <1>3

LEMMA UpwardsFinite ==
    ASSUME NEW p \in Seq(STRING)
    PROVE  IsFiniteSet(Upwards(p))
<1>1. IsFiniteSet(Ancestors(p))
  BY AncestorsFinite
<1>2. IsFiniteSet({p}) /\ IsFiniteSet({})
  BY FS_Singleton, FS_EmptySet
<1> QED
  BY <1>1, <1>2, FS_Union DEF Upwards

(* The root of a path is the deepest sentinel directory upwards from it. *)
LEMMA RootIs ==
    ASSUME NEW p \in Seq(STRING)
    PROVE  LET r == find_sentinel_root(p)
               hits == Upwards(p) \cap SentinelDirs
           IN /\ r = NoDir <=> hits = {}
              /\ r # NoDir => r \in hits /\ \A o \in hits : Len(o) <= Len(r)
<1> DEFINE hits == Upwards(p) \cap SentinelDirs
           r == find_sentinel_root(p)
<1>1. CASE hits = {}
  BY <1>1 DEF find_sentinel_root
<1>2. CASE hits # {}
  <2>1. hits \in SUBSET Upwards(p)
    OBVIOUS
  <2>2. IsFiniteSet(hits)
    BY <2>1, UpwardsFinite, FS_Subset
  <2>3. r = CHOOSE d \in hits : \A o \in hits : Len(o) <= Len(d)
    BY <1>2 DEF find_sentinel_root
  <2>4. \A d \in hits : Len(d) \in Nat /\ d # NoDir
    BY UpwardsIs, GivenAssumption
  <2> HIDE DEF hits, r
  <2>5. \E d \in hits : \A o \in hits : Len(o) <= Len(d)
    BY <1>2, <2>2, <2>4, DeepestExists
  <2>6. r \in hits /\ \A o \in hits : Len(o) <= Len(r)
    BY <2>3, <2>5
  <2> QED
    BY <1>2, <2>4, <2>6 DEF hits, r
<1> QED
  BY <1>1, <1>2

LEMMA NearestIsRoot ==
    ASSUME NEW p \in Seq(STRING), NEW r \in SentinelDirs
    PROVE  Nearest(p, r) <=> find_sentinel_root(p) = r
<1> DEFINE root == find_sentinel_root(p)
           hits == Upwards(p) \cap SentinelDirs
<1>0. r # NoDir
  BY GivenAssumption
<1>1. /\ root = NoDir <=> hits = {}
      /\ root # NoDir => root \in hits /\ \A o \in hits : Len(o) <= Len(root)
  BY RootIs
<1> HIDE DEF root
<1>2. ASSUME Nearest(p, r) PROVE root = r
  <2>1. r \in hits /\ r \in Seq(STRING) /\ Len(r) \in Nat
    BY <1>2, UpwardsIs DEF Nearest
  <2>2. root \in hits /\ Len(r) <= Len(root)
    BY <1>1, <2>1
  <2>3. root \in Ancestors(r) \/ root = r
    BY <1>2, <2>2 DEF Nearest
  <2>4. root \in Ancestors(r) => Len(root) < Len(r) /\ Len(root) \in Nat
    BY <2>1, AncestorIs
  <2> QED
    BY <2>1, <2>2, <2>3, <2>4
<1>3. ASSUME root = r PROVE Nearest(p, r)
  <2>1. r \in hits /\ \A o \in hits : Len(o) <= Len(r)
    BY <1>0, <1>1, <1>3
  <2>2. ASSUME NEW d \in SentinelDirs \cap Upwards(p) PROVE d \in Ancestors(r) \cup {r}
    BY <2>1, <2>2, TwoUpwards
  <2> QED
    BY <2>1, <2>2 DEF Nearest
<1> QED
  BY <1>2, <1>3 DEF root

(* The mentions of a root, and how many they are. *)
RootedAt(s, r) == {k \in DOMAIN s : find_sentinel_root(s[k]) = r}

LEMMA OfRootIs ==
    ASSUME NEW s \in Seq(Seq(STRING)), NEW r
    PROVE  /\ OfRoot(s, r) \in Seq(Seq(STRING)) /\ Len(OfRoot(s, r)) = Cardinality(RootedAt(s, r))
           /\ IsFiniteSet(RootedAt(s, r)) /\ Cardinality(RootedAt(s, r)) \in Nat
           /\ Range(OfRoot(s, r)) = {p \in Range(s) : find_sentinel_root(p) = r}
           /\ OfRoot(s, r) # <<>> <=> RootedAt(s, r) # {}
<1> DEFINE S == {p \in Range(s) : find_sentinel_root(p) = r}
           I == {i \in DOMAIN s : s[i] \in S}
<1>1. I = RootedAt(s, r)
  BY DEF RootedAt, Range
<1>2. OfRoot(s, r) = Picked(s, I)
  BY DEF OfRoot, Among
<1>3. OfRoot(s, r) = Among(s, S)
  BY DEF OfRoot
<1>4. I \in SUBSET (DOMAIN s)
  OBVIOUS
<1>5. IsFiniteSet(DOMAIN s)
  <2>1. DOMAIN s = 1 .. Len(s) /\ Len(s) \in Int /\ 1 \in Int
    OBVIOUS
  <2> QED
    BY <2>1, SpanCounts
<1> HIDE DEF I, S
<1>6. Picked(s, I) \in Seq(Seq(STRING)) /\ Len(Picked(s, I)) = Cardinality(I) /\ Cardinality(I) \in Nat
  BY <1>4, PickedIs
<1>7. IsFiniteSet(I)
  BY <1>4, <1>5, FS_Subset
<1>8. Range(Among(s, S)) = Range(s) \cap S
  BY AmongFinds
<1>9. OfRoot(s, r) # <<>> <=> I # {}
  <2>1. OfRoot(s, r) = <<>> <=> Cardinality(I) = 0
    BY <1>2, <1>6
  <2> QED
    BY <1>7, <2>1, FS_EmptySet
<1> QED
  BY <1>1, <1>2, <1>3, <1>6, <1>7, <1>8, <1>9 DEF S

(* Of the roots with the most mentions, the first met. *)
LEMMA MostCommonIs ==
    ASSUME NEW s \in Seq(Seq(STRING)), \E k \in DOMAIN s : find_sentinel_root(s[k]) # NoDir
    PROVE  \E k \in DOMAIN s :
             /\ MostCommon(s) = find_sentinel_root(s[k]) /\ MostCommon(s) # NoDir
             /\ \A j \in DOMAIN s : find_sentinel_root(s[j]) # NoDir =>
                  LET v(i) == Cardinality(RootedAt(s, find_sentinel_root(s[i])))
                  IN v(j) < v(k) \/ (v(j) = v(k) /\ k <= j)
<1> DEFINE rooted == {k \in DOMAIN s : find_sentinel_root(s[k]) # NoDir}
           v(i) == Cardinality(RootedAt(s, find_sentinel_root(s[i])))
           Votes(k) == Len(OfRoot(s, find_sentinel_root(s[k])))
           First(k) == \A j \in rooted : Votes(j) < Votes(k) \/ (Votes(j) = Votes(k) /\ k <= j)
           f == [k \in rooted |-> v(k)]
<1>1. \A k \in rooted : Votes(k) = v(k) /\ v(k) \in Nat
  BY OfRootIs
<1>2. IsFiniteSet(rooted) /\ rooted # {} /\ rooted \subseteq Nat
  <2>1. DOMAIN s = 1 .. Len(s) /\ Len(s) \in Int /\ 1 \in Int /\ rooted \in SUBSET (DOMAIN s)
    OBVIOUS
  <2>2. IsFiniteSet(DOMAIN s)
    BY <2>1, SpanCounts
  <2>3. IsFiniteSet(rooted)
    BY <2>1, <2>2, FS_Subset
  <2> QED
    BY <2>1, <2>3
<1>3. f \in [rooted -> Nat]
  BY <1>1
<1>4. MostCommon(s) = find_sentinel_root(s[CHOOSE k \in rooted : First(k)])
  BY DEF MostCommon
<1>5. PICK m \in rooted : \A j \in rooted : v(j) <= v(m)
  <2>1. \E m \in rooted : \A j \in rooted : f[j] <= f[m]
    <3> HIDE DEF f, rooted
    <3> QED
      BY <1>2, <1>3, Greatest
  <2> QED
    BY <2>1
<1> DEFINE most == {k \in rooted : v(k) = v(m)}
<1>6. PICK k \in most : \A j \in most : k <= j
  <2>1. most \subseteq Nat /\ most # {}
    BY <1>2
  <2> HIDE DEF most
  <2> QED
    BY <2>1, LeastNat
<1> HIDE DEF v, Votes
<1>7. First(k)
  <2> TAKE j \in rooted
  <2>1. v(j) <= v(k) /\ v(j) \in Nat /\ v(k) \in Nat
    BY <1>1, <1>5
  <2>2. v(j) = v(k) => k <= j
    BY <1>6
  <2> QED
    BY <1>1, <2>1, <2>2
<1> HIDE DEF First
<1>8. PICK c \in rooted : c = (CHOOSE x \in rooted : First(x)) /\ First(c)
  BY <1>7
<1>9. \A j \in rooted : v(j) < v(c) \/ (v(j) = v(c) /\ c <= j)
  BY <1>1, <1>8 DEF First
<1> QED
  BY <1>4, <1>8, <1>9 DEF v

(* What the mentions of a root share is a beginning of the first of them. *)
LEMMA SharedIs ==
    ASSUME NEW s \in Seq(Seq(STRING)), s # <<>>, _shared_subpath(s) # NoDir
    PROVE  LET shared == _shared_subpath(s)
           IN shared \in Ancestors(s[1]) \/ shared = s[1]
<1> DEFINE p == s[1]
           shared == _shared_subpath(s)
           common == {d \in Beginnings(p) : \A k \in DOMAIN s : d \in Beginnings(s[k])}
<1>1. p \in Seq(STRING) /\ Len(p) \in Nat
  <2>1. 1 \in DOMAIN s
    OBVIOUS
  <2>2. p \in Seq(STRING)
    BY <2>1, EntryIsIn
  <2> QED
    BY <2>2
<1>2. \A d \in Beginnings(p) : (d \in Ancestors(p) \/ d = p) /\ Len(d) \in Nat
  <2> TAKE d \in Beginnings(p)
  <2> HIDE DEF p
  <2>1. PICK n \in 1 .. Len(p) : d = SubSeq(p, 1, n)
    BY DEF Beginnings
  <2>2. Len(d) \in Nat
    BY <1>1, <2>1
  <2>3. CASE n = Len(p)
    BY <1>1, <2>1, <2>2, <2>3
  <2>4. CASE n # Len(p)
    <3>1. n \in 1 .. (Len(p) - 1)
      BY <1>1, <2>4
    <3> QED
      BY <2>1, <2>2, <3>1 DEF Ancestors
  <2> QED
    BY <2>3, <2>4
<1>3. CASE Len(s) = 1 /\ p \notin DirPaths
  <2>1. shared = SubSeq(p, 1, Len(p) - 1)
    BY <1>3 DEF _shared_subpath
  <2> HIDE DEF p, shared
  <2>2. CASE Len(p) - 1 \in 1 .. (Len(p) - 1)
    BY <2>1, <2>2 DEF Ancestors, shared, p
  <2>3. CASE Len(p) - 1 \notin 1 .. (Len(p) - 1)
    <3>1. Len(p) <= 1
      BY <1>1, <2>3
    <3>2. SubSeq(p, 1, Len(p) - 1) = <<>>
      BY <1>1, <3>1
    <3> QED
      BY <2>1, <3>2 DEF NoDir, shared
  <2> QED
    BY <2>2, <2>3
<1>4. CASE ~(Len(s) = 1 /\ p \notin DirPaths)
  <2>1. shared = IF common = {} THEN NoDir ELSE CHOOSE d \in common : \A o \in common : Len(o) <= Len(d)
    BY <1>4 DEF _shared_subpath
  <2>2. common # {} /\ common \in SUBSET (Ancestors(p) \cup {p})
    BY <1>2, <2>1
  <2>3. IsFiniteSet(common)
    <3>1. IsFiniteSet(Ancestors(p)) /\ IsFiniteSet({p})
      BY <1>1, AncestorsFinite, FS_Singleton
    <3>2. IsFiniteSet(Ancestors(p) \cup {p})
      BY <3>1, FS_Union
    <3> HIDE DEF common
    <3> QED
      BY <2>2, <3>2, FS_Subset
  <2>4. \A d \in common : Len(d) \in Nat
    BY <1>2
  <2> HIDE DEF common
  <2>5. \E d \in common : \A o \in common : Len(o) <= Len(d)
    BY <2>2, <2>3, <2>4, DeepestExists
  <2>6. shared \in common
    BY <2>1, <2>2, <2>5
  <2> QED
    BY <2>2, <2>6
<1> QED
  BY <1>3, <1>4

(* The most common root is never refined: a sentinel directory that its       *)
(* mentions share below it would be their root.                               *)
LEMMA NothingDeeper ==
    ASSUME NEW s \in Seq(Seq(STRING)), NEW top, top # NoDir, RootedAt(s, top) # {}
    PROVE  LET shared == _shared_subpath(OfRoot(s, top))
               sub == find_sentinel_root(shared)
           IN ~(shared # NoDir /\ sub # NoDir /\ top \in Ancestors(sub))
<1> DEFINE inside == OfRoot(s, top)
           shared == _shared_subpath(inside)
           sub == find_sentinel_root(shared)
           p == inside[1]
<1> SUFFICES ASSUME shared # NoDir, sub # NoDir, top \in Ancestors(sub) PROVE FALSE
  OBVIOUS
<1>1. /\ inside \in Seq(Seq(STRING)) /\ inside # <<>>
      /\ Range(inside) = {x \in Range(s) : find_sentinel_root(x) = top}
  BY OfRootIs
<1>2. shared \in Ancestors(p) \/ shared = p
  <2> HIDE DEF inside
  <2> QED
    BY <1>1, SharedIs
<1> HIDE DEF inside, shared, sub
<1>3. p \in Seq(STRING) /\ find_sentinel_root(p) = top
  <2>1. 1 \in DOMAIN inside
    BY <1>1
  <2>2. p \in Range(inside) /\ p \in Seq(STRING)
    BY <1>1, <2>1, EntryIsIn DEF Range
  <2> QED
    BY <1>1, <2>2
<1> HIDE DEF p
<1>4. shared \in Seq(STRING)
  BY <1>2, <1>3, AncestorIs
<1>5. sub \in Upwards(shared) /\ sub \in SentinelDirs
  BY <1>4, RootIs DEF sub
<1>6. sub \in Upwards(p)
  <2>1. CASE sub \in Ancestors(shared)
    BY <1>2, <1>3, <2>1, AncestorOfAncestor DEF Upwards
  <2>2. CASE sub = shared /\ sub \in DirPaths
    BY <1>2, <2>2 DEF Upwards
  <2> QED
    BY <1>5, <2>1, <2>2 DEF Upwards
<1>7. Len(sub) <= Len(top)
  BY <1>3, <1>5, <1>6, RootIs
<1>8. sub \in Seq(STRING)
  BY <1>3, <1>6, UpwardsIs
<1>9. Len(top) < Len(sub) /\ Len(top) \in Nat /\ Len(sub) \in Nat
  BY <1>8, AncestorIs
<1> QED
  BY <1>7, <1>9

(* What detect_scope finds: nothing, or a most common root. *)
LEMMA DetectedIs ==
    ASSUME NEW s \in Seq(Seq(STRING))
    PROVE  LET r == detect_scope(NoDir, s).root
           IN /\ (\A k \in DOMAIN s : find_sentinel_root(s[k]) = NoDir) => r = NoDir
              /\ (\E k \in DOMAIN s : find_sentinel_root(s[k]) # NoDir) => r = MostCommon(s)
<1> DEFINE S == {p \in Range(s) : find_sentinel_root(p) # NoDir}
           rooted == Among(s, S)
<1>1. rooted = <<>> <=> S = {}
  <2>1. /\ Range(s) \cap S # {} => Among(s, S) # <<>>
        /\ Range(Among(s, S)) = Range(s) \cap S /\ Among(s, S) \in Seq(Seq(STRING))
    <3> HIDE DEF S
    <3> QED
      BY AmongFinds
  <2>2. Range(s) \cap S = S
    OBVIOUS
  <2>3. rooted # <<>> => S # {}
    <3> HIDE DEF S
    <3>1. rooted # <<>> => 1 \in DOMAIN rooted
      BY <2>1
    <3> QED
      BY <2>1, <2>2, <3>1 DEF Range
  <2> QED
    BY <2>1, <2>2, <2>3
<1>2. S = {} <=> \A k \in DOMAIN s : find_sentinel_root(s[k]) = NoDir
  BY DEF Range
<1> HIDE DEF rooted, S
<1>3. ASSUME rooted = <<>> PROVE detect_scope(NoDir, s).root = NoDir
  BY <1>3 DEF detect_scope, rooted, S
<1>4. ASSUME \E k \in DOMAIN s : find_sentinel_root(s[k]) # NoDir
      PROVE  detect_scope(NoDir, s).root = MostCommon(s)
  <2> DEFINE top == MostCommon(s)
             shared == _shared_subpath(OfRoot(s, top))
             sub == find_sentinel_root(shared)
             refined == /\ shared # NoDir /\ shared # top /\ top \in Ancestors(shared)
                        /\ sub # NoDir /\ sub # top /\ top \in Ancestors(sub)
  <2>1. rooted # <<>>
    BY <1>1, <1>2, <1>4
  <2>2. top # NoDir /\ RootedAt(s, top) # {}
    <3>1. PICK k \in DOMAIN s : top = find_sentinel_root(s[k]) /\ top # NoDir
      BY <1>4, MostCommonIs
    <3> QED
      BY <3>1 DEF RootedAt
  <2>3. ~refined
    <3> HIDE DEF top
    <3> QED
      BY <2>2, NothingDeeper
  <2>4. detect_scope(NoDir, s) = [root |-> IF refined THEN sub ELSE top, mentioned |-> rooted]
    BY <2>1 DEF detect_scope, rooted, S
  <2> HIDE DEF refined, top, sub
  <2> QED
    BY <2>3, <2>4 DEF top
<1> QED
  BY <1>1, <1>2, <1>3, <1>4

(* The paths of a prompt are paths. *)
LEMMA MetIs ==
    ASSUME NEW T, NEW ms \in Seq(T)
    PROVE  FirstMet(ms) \in Seq(T)
<1> DEFINE I == {k \in DOMAIN ms : \A j \in 1..k - 1 : ms[j] # ms[k]}
<1>1. I \in SUBSET (DOMAIN ms)
  OBVIOUS
<1> HIDE DEF I
<1>2. Picked(ms, I) \in Seq(T)
  BY <1>1, PickedIs
<1> QED
  BY <1>2 DEF FirstMet, I

LEMMA MappedIs ==
    ASSUME NEW T, NEW s \in Seq(T), NEW S, NEW f \in [T -> S]
    PROVE  [k \in DOMAIN s |-> f[s[k]]] \in Seq(S)
<1>1. \A k \in DOMAIN s : f[s[k]] \in S
  OBVIOUS
<1>2. DOMAIN s = 1 .. Len(s) /\ Len(s) \in Nat
  OBVIOUS
<1>3. [k \in DOMAIN s |-> f[s[k]]] \in [1 .. Len(s) -> S]
  BY <1>1, <1>2
<1> QED
  BY <1>2, <1>3

LEMMA ExtractedIs ==
    ASSUME NEW ms \in Seq(Mention), NEW work \in Seq(STRING), NEW there
    PROVE  extract_paths_from_prefill(ms, work, there) \in Seq(Seq(STRING))
<1> DEFINE seen == FirstMet(ms)
           matched == {m \in Range(seen) : Recognised(m)}
           A == {m \in matched : m.absolute}
           R == {m \in matched : ~m.absolute /\ work # NoDir /\ work \o m.path \in there}
           f == [m \in Mention |-> m.path]
           g == [m \in Mention |-> work \o m.path]
           absolute == Among(seen, A)
           relative == Among(seen, R)
<1>1. absolute \in Seq(Mention) /\ relative \in Seq(Mention)
  <2>1. seen \in Seq(Mention)
    BY MetIs
  <2> HIDE DEF seen, A, R
  <2> QED
    BY <2>1, AmongFinds
<1>2. f \in [Mention -> Seq(STRING)] /\ g \in [Mention -> Seq(STRING)]
  <2>1. \A m \in Mention : m.path \in Seq(STRING) /\ work \o m.path \in Seq(STRING)
    BY DEF Mention
  <2> QED
    BY <2>1
<1>3. [k \in DOMAIN absolute |-> f[absolute[k]]] \in Seq(Seq(STRING))
  <2> HIDE DEF absolute, f
  <2> QED
    BY <1>1, <1>2, MappedIs
<1>4. [k \in DOMAIN relative |-> g[relative[k]]] \in Seq(Seq(STRING))
  <2> HIDE DEF relative, g
  <2> QED
    BY <1>1, <1>2, MappedIs
<1>5. /\ [k \in DOMAIN absolute |-> f[absolute[k]]] = [k \in DOMAIN absolute |-> absolute[k].path]
      /\ [k \in DOMAIN relative |-> g[relative[k]]] = [k \in DOMAIN relative |-> work \o relative[k].path]
  <2>1. (\A k \in DOMAIN absolute : absolute[k] \in Mention) /\ (\A k \in DOMAIN relative : relative[k] \in Mention)
    <3> HIDE DEF absolute, relative
    <3> QED
      BY <1>1, EntryIsIn
  <2> HIDE DEF absolute, relative
  <2> QED
    BY <2>1
<1>6. extract_paths_from_prefill(ms, work, there)
        = [k \in DOMAIN absolute |-> absolute[k].path] \o [k \in DOMAIN relative |-> work \o relative[k].path]
  BY DEF extract_paths_from_prefill
<1> DEFINE x == [k \in DOMAIN absolute |-> absolute[k].path]
           y == [k \in DOMAIN relative |-> work \o relative[k].path]
<1>7. x \in Seq(Seq(STRING)) /\ y \in Seq(Seq(STRING))
  <2> HIDE DEF absolute, relative, f, g
  <2> QED
    BY <1>3, <1>4, <1>5
<1>8. extract_paths_from_prefill(ms, work, there) = x \o y
  <2> HIDE DEF absolute, relative, f, g
  <2> QED
    BY <1>6
<1> HIDE DEF x, y
<1> QED
  BY <1>7, <1>8

LEMMA DetectedIsNearest ==
    ASSUME PathsNamed \in Seq(Seq(STRING))
    PROVE  DetectIsNearestRoot
<1> DEFINE s == PathsNamed
           root(k) == find_sentinel_root(s[k])
           r == detect_scope(NoDir, s).root
<1>0. \A k \in DOMAIN s : s[k] \in Seq(STRING)
  BY EntryIsIn
<1>1. \A o \in SentinelDirs : o # NoDir /\ Owned(o) = RootedAt(s, o)
  BY <1>0, NearestIsRoot, GivenAssumption DEF Owned, RootedAt
<1>2. \A k \in DOMAIN s : root(k) # NoDir => root(k) \in SentinelDirs
  BY <1>0, RootIs
<1>3. /\ (\A k \in DOMAIN s : root(k) = NoDir) => r = NoDir
      /\ (\E k \in DOMAIN s : root(k) # NoDir) => r = MostCommon(s)
  BY DetectedIs
<1>4. \A o : IsFiniteSet(RootedAt(s, o)) /\ Cardinality(RootedAt(s, o)) \in Nat
  BY OfRootIs
<1> HIDE DEF r
<1>5. CASE \A k \in DOMAIN s : root(k) = NoDir
  <2>1. \A o \in SentinelDirs : Owned(o) = {}
    BY <1>1, <1>5 DEF RootedAt
  <2>2. r = NoDir
    BY <1>3, <1>5
  <2> QED
    BY <2>1, <2>2 DEF DetectIsNearestRoot, r, detect_scope
<1>6. CASE \E k \in DOMAIN s : root(k) # NoDir
  <2> DEFINE v(i) == Cardinality(RootedAt(s, root(i)))
  <2>1. PICK k \in DOMAIN s :
          /\ r = root(k) /\ r # NoDir
          /\ \A j \in DOMAIN s : root(j) # NoDir => v(j) < v(k) \/ (v(j) = v(k) /\ k <= j)
    <3>1. r = MostCommon(s)
      BY <1>3, <1>6
    <3> QED
      BY <1>6, <3>1, MostCommonIs
  <2>2. r \in SentinelDirs /\ k \in Owned(r)
    BY <1>1, <1>2, <2>1 DEF RootedAt
  <2>3. ASSUME NEW o \in SentinelDirs \ {r}
        PROVE  \/ Cardinality(Owned(o)) < Cardinality(Owned(r))
               \/ /\ Cardinality(Owned(o)) = Cardinality(Owned(r))
                  /\ \A j \in Owned(o) : k < j
    <3>1. Owned(o) = RootedAt(s, o) /\ Owned(r) = RootedAt(s, r) /\ o # NoDir /\ v(k) = Cardinality(Owned(r))
      BY <1>1, <2>1, <2>2
    <3>2. \A j \in Owned(o) : j \in DOMAIN s /\ root(j) = o /\ v(j) = Cardinality(Owned(o)) /\ j # k
      BY <2>1, <2>3, <3>1 DEF RootedAt
    <3>3. IsFiniteSet(Owned(o)) /\ IsFiniteSet(Owned(r)) /\ Cardinality(Owned(o)) \in Nat /\ Cardinality(Owned(r)) \in Nat
      BY <1>4, <3>1
    <3>4. CASE Owned(o) = {}
      <4>1. Cardinality(Owned(o)) = 0 /\ Cardinality(Owned(r)) # 0
        BY <2>2, <3>3, <3>4, FS_EmptySet
      <4> QED
        BY <3>3, <4>1
    <3>5. CASE Owned(o) # {}
      <4> HIDE DEF v
      <4>1. \A j \in Owned(o) : \/ Cardinality(Owned(o)) < Cardinality(Owned(r))
                                \/ Cardinality(Owned(o)) = Cardinality(Owned(r)) /\ k <= j
        BY <2>1, <3>1, <3>2
      <4>2. \A j \in Owned(o) : k <= j => k < j
        <5>1. \A j \in DOMAIN s : j \in Nat
          OBVIOUS
        <5> QED
          BY <2>1, <3>2, <5>1
      <4> QED
        BY <3>5, <4>1, <4>2
    <3> QED
      BY <3>4, <3>5
  <2>4. r # NoDir /\ Owned(r) # {} /\ ~ \A o \in SentinelDirs : Owned(o) = {}
    BY <2>1, <2>2
  <2> QED
    BY <2>2, <2>3, <2>4 DEF DetectIsNearestRoot, r, detect_scope
<1> QED
  BY <1>5, <1>6

LEMMA SharedOut ==
    ASSUME PathsNamed \in Seq(Seq(STRING))
    PROVE  ScopesShareOut
<1> DEFINE s == PathsNamed
           scopes == detect_scopes(s)
           r == detect_scope(NoDir, s).root
<1>0. \A p \in Range(s) : p \in Seq(STRING)
  BY EntryIsIn DEF Range
<1>1. /\ DOMAIN scopes = {find_sentinel_root(p) : p \in Range(s)} \ {NoDir}
      /\ \A o \in DOMAIN scopes : scopes[o] = OfRoot(s, o)
  BY DEF detect_scopes
<1>2. \A o \in DOMAIN scopes : o \in SentinelDirs
  BY <1>0, <1>1, RootIs
<1>3. \A o \in DOMAIN scopes : Range(scopes[o]) = {p \in Range(s) : find_sentinel_root(p) = o}
  BY <1>1, OfRootIs
<1> HIDE DEF scopes
<1>4. ASSUME NEW o \in DOMAIN scopes PROVE scopes[o] # <<>> /\ \A p \in Range(scopes[o]) : Nearest(p, o)
  <2>1. Range(scopes[o]) # {} /\ Range(<<>>) = {}
    <3>1. PICK p \in Range(s) : find_sentinel_root(p) = o
      BY <1>1
    <3>2. p \in Range(scopes[o])
      BY <1>3, <3>1
    <3>3. Range(<<>>) = {}
      BY DEF Range
    <3> QED
      BY <3>2, <3>3
  <2>2. \A p \in Range(scopes[o]) : Nearest(p, o)
    BY <1>0, <1>2, <1>3, NearestIsRoot
  <2> QED
    BY <2>1, <2>2
<1>5. ASSUME NEW p \in Range(s), NEW o \in SentinelDirs, Nearest(p, o)
      PROVE  o \in DOMAIN scopes /\ p \in Range(scopes[o])
  <2>1. find_sentinel_root(p) = o /\ o # NoDir
    BY <1>0, <1>5, NearestIsRoot, GivenAssumption
  <2> QED
    BY <1>1, <1>3, <2>1
<1>6. ASSUME r # NoDir PROVE r \in DOMAIN scopes
  <2>1. PICK k \in DOMAIN s : find_sentinel_root(s[k]) # NoDir
    BY <1>6, DetectedIs
  <2>2. r = MostCommon(s)
    BY <2>1, DetectedIs
  <2>3. PICK j \in DOMAIN s : r = find_sentinel_root(s[j])
    <3> HIDE DEF r
    <3> QED
      BY <2>1, <2>2, MostCommonIs
  <2>4. s[j] \in Range(s)
    BY DEF Range
  <2> QED
    BY <1>1, <1>6, <2>3, <2>4
<1> QED
  BY <1>4, <1>5, <1>6 DEF ScopesShareOut, scopes

(* A selection by a condition that all entries, or none, meet. *)
LEMMA NoneAmong ==
    ASSUME NEW T, NEW s \in Seq(T)
    PROVE  Among(s, {}) = <<>>
<1>1. Among(s, {}) \in Seq(T) /\ Range(Among(s, {})) = {}
  BY AmongFinds
<1>2. ASSUME Among(s, {}) # <<>> PROVE FALSE
  <2>1. 1 \in DOMAIN Among(s, {})
    BY <1>1, <1>2
  <2> QED
    BY <1>1, <2>1 DEF Range
<1> QED
  BY <1>2

(* The mentions of a prompt without repetitions, given the positions of the   *)
(* first ones.                                                                *)
LEMMA ShortIsFull ==
    ASSUME prompt \in Prompt
    PROVE  RelativeIsFull
<1> DEFINE ms == prompt.mentions
           work == prompt.default_scope
           short == [k \in DOMAIN ms |-> Shortened(ms[k], work)]
<1> SUFFICES ASSUME work # NoDir,
                    \A k \in DOMAIN ms :
                      /\ ms[k].absolute /\ Recognised(ms[k]) /\ ms[k].ext /\ ms[k].path \in Existing
                      /\ work \in Ancestors(ms[k].path) /\ Len(ms[k].path) > Len(work) + 1
             PROVE  extract_paths_from_prefill(short, work, Existing) = PathsNamed
  BY DEF RelativeIsFull
<1>0. ms \in Seq(Mention) /\ work \in Seq(STRING) /\ DOMAIN ms = 1 .. Len(ms) /\ Len(ms) \in Nat
  BY DEF Prompt
<1> HIDE DEF ms, work
<1> DEFINE rest(k) == SubSeq(ms[k].path, Len(work) + 1, Len(ms[k].path))
<1>1. ASSUME NEW k \in DOMAIN ms
      PROVE  /\ ms[k] = [absolute |-> ms[k].absolute, path |-> ms[k].path, ext |-> ms[k].ext]
             /\ ms[k].path \in Seq(STRING) /\ ms[k].absolute \in BOOLEAN /\ ms[k].ext \in BOOLEAN
             /\ rest(k) \in Seq(STRING) /\ work \o rest(k) = ms[k].path /\ Len(rest(k)) > 1
  <2>1. ms[k] \in Mention
    BY <1>0, EntryIsIn
  <2> DEFINE p == ms[k].path
  <2>2. /\ ms[k] = [absolute |-> ms[k].absolute, path |-> p, ext |-> ms[k].ext]
        /\ p \in Seq(STRING) /\ ms[k].absolute \in BOOLEAN /\ ms[k].ext \in BOOLEAN
    BY <2>1 DEF Mention
  <2>3. work \in Ancestors(p) /\ Len(p) > Len(work) + 1
    OBVIOUS
  <2> HIDE DEF p
  <2>4. Len(work) \in Nat /\ Len(work) < Len(p) /\ work = SubSeq(p, 1, Len(work)) /\ Len(p) \in Nat
    BY <2>2, <2>3, AncestorIs
  <2>5. SubSeq(p, 1, Len(work)) \o SubSeq(p, Len(work) + 1, Len(p)) = p
    <3>1. Len(work) \in Nat /\ Len(work) <= Len(p)
      BY <2>4
    <3> QED
      BY <2>2, <3>1, Rejoined
  <2>6. SubSeq(p, Len(work) + 1, Len(p)) \in Seq(STRING) /\ Len(SubSeq(p, Len(work) + 1, Len(p))) > 1
    BY <2>2, <2>3, <2>4
  <2> QED
    BY <2>2, <2>4, <2>5, <2>6 DEF p
<1>2. \A k \in DOMAIN ms : short[k] = [absolute |-> FALSE, path |-> rest(k), ext |-> ms[k].ext]
  BY DEF Shortened
<1>22. \A k \in DOMAIN ms : short[k].absolute = FALSE /\ short[k].path = rest(k) /\ short[k].ext = ms[k].ext
  <2> TAKE k \in DOMAIN ms
  <2> DEFINE x == short[k]
             y == rest(k)
             z == ms[k].ext
  <2>1. x = [absolute |-> FALSE, path |-> y, ext |-> z]
    BY <1>2
  <2> HIDE DEF x, y, z
  <2>2. x.absolute = FALSE /\ x.path = y /\ x.ext = z
    BY <2>1
  <2> QED
    BY <2>2 DEF x, y, z
<1>3. short \in Seq(Mention) /\ DOMAIN short = DOMAIN ms
  <2>1. \A k \in DOMAIN ms : [absolute |-> FALSE, path |-> rest(k), ext |-> ms[k].ext] \in Mention
    BY <1>1 DEF Mention
  <2>2. \A k \in 1 .. Len(ms) : short[k] \in Mention
    <3> HIDE DEF short, rest
    <3> QED
      BY <1>0, <1>2, <2>1
  <2>3. short = [k \in 1 .. Len(ms) |-> short[k]]
    BY <1>0
  <2> HIDE DEF short
  <2>4. short \in [1 .. Len(ms) -> Mention]
    BY <2>2, <2>3
  <2> QED
    BY <1>0, <2>4
<1> HIDE DEF rest, short
<1>4. \A j, k \in DOMAIN ms : short[j] = short[k] <=> ms[j] = ms[k]
  <2> TAKE j, k \in DOMAIN ms
  <2>1. ASSUME short[j] = short[k] PROVE ms[j] = ms[k]
    <3>1. rest(j) = rest(k) /\ ms[j].ext = ms[k].ext
      BY <1>22, <2>1
    <3>2. ms[j].path = ms[k].path
      BY <1>1, <3>1
    <3>3. ms[j].absolute = ms[k].absolute
      <4>1. ms[j].absolute /\ ms[k].absolute
        OBVIOUS
      <4> QED
        BY <1>1, <4>1
    <3> QED
      BY <1>1, <3>1, <3>2, <3>3
  <2>2. ASSUME ms[j] = ms[k] PROVE short[j] = short[k]
    BY <2>2 DEF short
  <2> QED
    BY <2>1, <2>2
<1> DEFINE I == {k \in DOMAIN ms : \A j \in 1..k - 1 : ms[j] # ms[k]}
           seen == FirstMet(ms)
           sseen == FirstMet(short)
           c == Cardinality(I)
<1>5. {k \in DOMAIN short : \A j \in 1..k - 1 : short[j] # short[k]} = I
  <2>1. \A k \in DOMAIN ms : \A j \in 1..k - 1 : j \in DOMAIN ms
    BY <1>0
  <2> QED
    BY <1>3, <1>4, <2>1
<1>6. I \in SUBSET (DOMAIN ms)
  OBVIOUS
<1>7. seen = Picked(ms, I) /\ sseen = Picked(short, I)
  BY <1>5 DEF FirstMet
<1> HIDE DEF I, seen, sseen
<1>8. /\ seen \in Seq(Mention) /\ sseen \in Seq(Mention) /\ c \in Nat
      /\ DOMAIN seen = 1 .. c /\ DOMAIN sseen = 1 .. c
      /\ \A k \in 1 .. c : Nth(I, k) \in DOMAIN ms /\ seen[k] = ms[Nth(I, k)] /\ sseen[k] = short[Nth(I, k)]
  <2>1. /\ Picked(ms, I) \in Seq(Mention) /\ c \in Nat /\ DOMAIN Picked(ms, I) = 1 .. c
        /\ \A k \in 1 .. c : Nth(I, k) \in I /\ Picked(ms, I)[k] = ms[Nth(I, k)]
    BY <1>0, <1>6, PickedIs
  <2>2. /\ Picked(short, I) \in Seq(Mention) /\ DOMAIN Picked(short, I) = 1 .. c
        /\ \A k \in 1 .. c : Picked(short, I)[k] = short[Nth(I, k)]
    BY <1>3, <1>6, PickedIs
  <2> HIDE DEF c
  <2> QED
    BY <1>6, <1>7, <2>1, <2>2
<1> HIDE DEF c
<1> DEFINE matched == {m \in Range(seen) : Recognised(m)}
           smatched == {m \in Range(sseen) : Recognised(m)}
           A == {m \in matched : m.absolute}
           R == {m \in matched : ~m.absolute /\ work # NoDir /\ work \o m.path \in Existing}
           sA == {m \in smatched : m.absolute}
           sR == {m \in smatched : ~m.absolute /\ work # NoDir /\ work \o m.path \in Existing}
<1>9. A = Range(seen) /\ R = {}
  <2>1. \A m \in Range(seen) : Recognised(m) /\ m.absolute
    BY <1>8 DEF Range
  <2> QED
    BY <2>1
<1>10. sA = {} /\ sR = Range(sseen)
  <2>1. ASSUME NEW k \in 1 .. c PROVE ~sseen[k].absolute /\ Recognised(sseen[k]) /\ work \o sseen[k].path \in Existing
    <3>1. PICK i \in DOMAIN ms : sseen[k] = short[i]
      BY <1>8
    <3>2. /\ sseen[k].absolute = FALSE /\ sseen[k].path = rest(i) /\ sseen[k].ext = ms[i].ext
      BY <1>22, <3>1
    <3>3. ms[i].ext /\ ms[i].path \in Existing /\ Len(rest(i)) > 1 /\ work \o rest(i) = ms[i].path
      BY <1>1
    <3> QED
      BY <3>2, <3>3 DEF Recognised
  <2>2. \A m \in Range(sseen) : ~m.absolute /\ Recognised(m) /\ work \o m.path \in Existing
    BY <1>8, <2>1 DEF Range
  <2> QED
    BY <2>2
<1> HIDE DEF A, R, sA, sR
<1>11. Among(seen, A) = seen /\ Among(seen, R) = <<>> /\ Among(sseen, sA) = <<>> /\ Among(sseen, sR) = sseen
  <2>1. seen \in Seq(Range(seen)) /\ sseen \in Seq(Range(sseen))
    BY <1>8, SeqInto
  <2> QED
    BY <1>8, <1>9, <1>10, <2>1, AmongAll, NoneAmong
<1> DEFINE full == [k \in 1 .. c |-> seen[k].path]
           back == [k \in 1 .. c |-> work \o sseen[k].path]
           none(x) == [k \in DOMAIN <<>> |-> x]
<1>12. full = back /\ full \in Seq(Seq(STRING))
  <2>1. ASSUME NEW k \in 1 .. c PROVE seen[k].path = work \o sseen[k].path /\ seen[k].path \in Seq(STRING)
    <3>1. PICK i \in DOMAIN ms : seen[k] = ms[i] /\ sseen[k] = short[i]
      BY <1>8
    <3>2. sseen[k].path = rest(i)
      BY <1>22, <3>1
    <3> QED
      BY <1>1, <3>1, <3>2
  <2>2. full = back
    BY <2>1
  <2>3. full \in [1 .. c -> Seq(STRING)]
    BY <2>1
  <2> QED
    BY <1>8, <2>2, <2>3
<1>13. PathsNamed = full \o <<>>
  <2>1. PathsNamed = [k \in DOMAIN Among(seen, A) |-> Among(seen, A)[k].path]
                       \o [k \in DOMAIN Among(seen, R) |-> work \o Among(seen, R)[k].path]
    BY DEF PathsNamed, extract_paths_from_prefill, ms, work, seen, A, R
  <2>2. [k \in DOMAIN <<>> |-> work \o <<>>[k].path] = <<>>
    OBVIOUS
  <2>3. [k \in DOMAIN seen |-> seen[k].path] = full
    BY <1>8
  <2> HIDE DEF full
  <2> QED
    BY <1>11, <2>1, <2>2, <2>3
<1>14. extract_paths_from_prefill(short, work, Existing) = <<>> \o back
  <2>1. extract_paths_from_prefill(short, work, Existing)
          = [k \in DOMAIN Among(sseen, sA) |-> Among(sseen, sA)[k].path]
              \o [k \in DOMAIN Among(sseen, sR) |-> work \o Among(sseen, sR)[k].path]
    BY DEF extract_paths_from_prefill, sseen, sA, sR
  <2>2. [k \in DOMAIN <<>> |-> <<>>[k].path] = <<>>
    OBVIOUS
  <2>3. [k \in DOMAIN sseen |-> work \o sseen[k].path] = back
    BY <1>8
  <2> HIDE DEF back
  <2> QED
    BY <1>11, <2>1, <2>2, <2>3
<1> HIDE DEF full, back
<1>15. full \o <<>> = full /\ <<>> \o full = full
  BY <1>12
<1> QED
  BY <1>12, <1>13, <1>14, <1>15

(* The directory a prompt is about, for any mentions, sentinel directories and *)
(* files that exist: the nearest sentinel directory of most mentions, the      *)
(* first met of such; detect_scopes gives every mention to its own; and files  *)
(* named relative to the working directory, with a directory between, count as *)
(* those named in full.                                                        *)
THEOREM ScopeIsNearestForAll == PromptSpec => []ScopeIsNearest
<1>1. prompt \in Prompt => ScopeIsNearest
  <2> SUFFICES ASSUME prompt \in Prompt PROVE ScopeIsNearest
    OBVIOUS
  <2>1. PathsNamed \in Seq(Seq(STRING))
    <3>1. prompt.mentions \in Seq(Mention) /\ prompt.default_scope \in Seq(STRING)
      BY DEF Prompt
    <3> QED
      BY <3>1, ExtractedIs DEF PathsNamed
  <2> QED
    BY <2>1, DetectedIsNearest, SharedOut, ShortIsFull DEF ScopeIsNearest
<1>2. PromptInit => prompt \in Prompt
  <2>1. <<>> \in Seq(Mention) /\ <<>> \in Seq(STRING)
    OBVIOUS
  <2> QED
    BY <2>1 DEF PromptInit, NoPrompt, NoDir, Prompt
<1>3. prompt \in Prompt /\ [PromptNext]_prompt => (prompt \in Prompt)'
  BY GivenAssumption DEF PromptNext
<1> QED
  BY <1>1, <1>2, <1>3, PTL DEF PromptSpec

-----------------------------------------------------------------------------
(* Sidecars *)

(* Every step of an engine or of its child preserves the invariant.          *)
LEMMA SidecarStep == ChildInv /\ [SidecarNext]_svars => ChildInv'
<1> SUFFICES ASSUME ChildInv, [SidecarNext]_svars PROVE ChildInv'
  OBVIOUS
<1> USE DEF ChildInv, SidecarTypeOK, NoChildLeft, Alive, Move
<1>1. CASE UNCHANGED svars
  BY <1>1 DEF svars
<1>2. ASSUME NEW e \in Engines, pick_port(e) PROVE ChildInv'
  <2>1. chosen' \in [Engines -> Ports \cup {OsPort}]
    <3>1. _free_port \in Ports \cup {OsPort}
      BY MinIsLeast, SidecarAssumption DEF _free_port
    <3> QED
      BY <1>2, <3>1 DEF pick_port
  <2> QED
    BY <1>2, <2>1 DEF pick_port
<1>3. ASSUME NEW e \in Engines, spawn_sidecar(e) PROVE ChildInv'
  BY <1>3 DEF spawn_sidecar
<1>4. ASSUME NEW e \in Engines, _wait_healthy(e) PROVE ChildInv'
  BY <1>4 DEF _wait_healthy
<1>5. ASSUME NEW e \in Engines, BootTimeout(e) PROVE ChildInv'
  BY <1>5 DEF BootTimeout, Terminated
<1>6. ASSUME NEW e \in Engines, StopSidecar(e) PROVE ChildInv'
  BY <1>6 DEF StopSidecar, Terminated
<1>7. ASSUME NEW e \in Engines, StopWaits(e) PROVE ChildInv'
  BY <1>7 DEF StopWaits
<1>8. ASSUME NEW e \in Engines, ChildBinds(e) PROVE ChildInv'
  BY <1>8 DEF ChildBinds
<1>9. ASSUME NEW e \in Engines, ChildDies(e) PROVE ChildInv'
  BY <1>9 DEF ChildDies
<1>10. ASSUME NEW e \in Engines, ChildHangs(e) PROVE ChildInv'
  BY <1>10 DEF ChildHangs
<1>11. ASSUME NEW e \in Engines, HealthPollRaises(e) PROVE ChildInv'
  BY <1>11 DEF HealthPollRaises
<1> QED
  BY <1>1, <1>2, <1>3, <1>4, <1>5, <1>6, <1>7, <1>8, <1>9, <1>10, <1>11 DEF SidecarNext

(* Whatever ports are taken and whenever children die or hang: a stopped     *)
(* engine has no child, and a start that timed out at most one that hangs.   *)
THEOREM SidecarsEnd == SidecarSpec => []NoChildLeft
<1>1. SidecarInit => ChildInv
  BY DEF SidecarInit, ChildInv, SidecarTypeOK, NoChildLeft, Alive
<1>2. ChildInv => NoChildLeft
  BY DEF ChildInv
<1> QED
  BY <1>1, <1>2, SidecarStep, PTL DEF SidecarSpec
=============================================================================
