---------------------------- MODULE LexicalIndex ----------------------------
(***************************************************************************)
(* The BM25 cache of longctx_daemon/storage/sqlite_store.py: an in-memory   *)
(* index over the chunks table, a dirty flag, and a pickle that survives    *)
(* the process.  Statements and rebuilds run under the store's lock, but a  *)
(* write sets the dirty flag only after it has released that lock.          *)
(*                                                                          *)
(* A BM25 index is the function (chunk id |-> text) it was built from; a    *)
(* chunk's text and its content_hash determine each other.                  *)
(***************************************************************************)
EXTENDS Integers

CONSTANTS
    Writers,    \* the threads that write chunks
    Hashes,     \* chunk texts / content hashes
    NoHash,     \* "", the digest's entry for an id that is gone
    None,
    MaxId       \* bound: the largest chunk id

ASSUME NoHashAssumption == NoHash \notin Hashes
ASSUME MaxIdAssumption == MaxId \in Nat

VARIABLES
    chunks,     \* table chunks: id |-> content_hash
    bm25,       \* self._bm25 with _bm25_chunk_ids: id |-> text, or None
    dirty,      \* self._bm25_dirty
    pickle,     \* the pickle: None or [corpus, digest]
    corpus,     \* the rows a rebuild in progress has read, or None
    flagging,   \* the writers past their statement and before dirty = True
    open        \* the process runs and the connection is open

vars == <<chunks, bm25, dirty, pickle, corpus, flagging, open>>

Table == UNION {[ids -> Hashes] : ids \in SUBSET (1..MaxId)}

Init ==
    /\ chunks = [i \in {} |-> i]
    /\ bm25 = None
    /\ dirty = TRUE
    /\ pickle = None
    /\ corpus = None
    /\ flagging = {}
    /\ open = TRUE

(* self._lock is free: no rebuild is running. *)
Unlocked == open /\ corpus = None

(* INTEGER PRIMARY KEY without AUTOINCREMENT: one more than the largest. *)
IsNextId(id) ==
    /\ \A i \in DOMAIN chunks : i < id
    /\ id = 1 \/ id - 1 \in DOMAIN chunks

(* upsert_chunks(n chunks), up to the release of the lock. *)
upsert_chunks(w, n, hs) ==
    /\ Unlocked /\ w \notin flagging
    /\ \E id \in 1 .. MaxId - n + 1 :
         /\ IsNextId(id)
         /\ chunks' = [i \in DOMAIN chunks \cup (id .. id + n - 1) |->
                         IF i \in DOMAIN chunks THEN chunks[i] ELSE hs[i - id + 1]]
    /\ flagging' = flagging \cup {w}
    /\ UNCHANGED <<bm25, dirty, pickle, corpus, open>>

(* delete_chunks_by_file, delete_file and delete_project, up to the release *)
(* of the lock: the chunks of the file or project go.                       *)
delete_chunks(w, ids) ==
    /\ Unlocked /\ w \notin flagging
    /\ chunks' = [i \in DOMAIN chunks \ ids |-> chunks[i]]
    /\ flagging' = flagging \cup {w}
    /\ UNCHANGED <<bm25, dirty, pickle, corpus, open>>

(* The writer's last statement, outside the lock: self._bm25_dirty = True. *)
SetDirty(w) ==
    /\ open /\ w \in flagging
    /\ dirty' = TRUE
    /\ flagging' = flagging \ {w}
    /\ UNCHANGED <<chunks, bm25, pickle, corpus, open>>

(* search_lexical -> _ensure_bm25 -> _rebuild_bm25 reads the table.  With a *)
(* clean, non-empty index the search uses that and changes nothing.         *)
RebuildRead ==
    /\ Unlocked
    /\ dirty \/ bm25 = None
    /\ corpus' = chunks
    /\ UNCHANGED <<chunks, bm25, dirty, pickle, flagging, open>>

(* _save_bm25: the digest pairs the index's ids with the hashes the table   *)
(* has for them NOW.                                                        *)
Pickle(b) == [corpus |-> b, digest |-> [i \in DOMAIN b |-> IF i \in DOMAIN chunks
                                                           THEN chunks[i] ELSE NoHash]]

(* The rebuild installs its index and clears the flag, even one that was    *)
(* set since the read; it tries to persist (an OSError is only logged).     *)
RebuildInstall ==
    /\ open /\ corpus # None
    /\ dirty' = FALSE
    /\ corpus' = None
    /\ IF DOMAIN corpus = {}
       THEN bm25' = None /\ UNCHANGED pickle
       ELSE bm25' = corpus /\ pickle' \in {pickle, Pickle(corpus)}
    /\ UNCHANGED <<chunks, flagging, open>>

(* invalidate_lexical *)
invalidate_lexical ==
    /\ Unlocked
    /\ dirty' = TRUE
    /\ UNCHANGED <<chunks, bm25, pickle, corpus, flagging, open>>

(* close(): persist a clean index, close the connection.  A writer that has *)
(* not set the flag yet only sets it on a store that is closed by then.     *)
close ==
    /\ Unlocked
    /\ pickle' = IF bm25 # None /\ ~dirty THEN Pickle(bm25) ELSE pickle
    /\ open' = FALSE
    /\ bm25' = None /\ flagging' = {}
    /\ UNCHANGED <<chunks, dirty, corpus>>

(* The process dies; the table and the pickle stay. *)
Crash ==
    /\ open
    /\ open' = FALSE
    /\ bm25' = None /\ corpus' = None /\ flagging' = {}
    /\ UNCHANGED <<chunks, dirty, pickle>>

(* Mutant: the ids are compared and the digest is not. *)
PickleSameIds ==
    /\ pickle # None
    /\ DOMAIN pickle.corpus = DOMAIN chunks

(* __init__ -> _load_bm25_if_valid: ids and digest must match the table. *)
PickleValid ==
    /\ pickle # None
    /\ DOMAIN pickle.corpus = DOMAIN chunks
    /\ pickle.digest = chunks

_load_bm25_if_valid ==
    /\ ~open
    /\ open' = TRUE
    /\ bm25' = IF PickleValid THEN pickle.corpus ELSE None
    /\ dirty' = ~PickleValid
    /\ UNCHANGED <<chunks, pickle, corpus, flagging>>

Next ==
    \/ \E w \in Writers :
         \/ \E n \in 1..2 : \E hs \in [1..n -> Hashes] : upsert_chunks(w, n, hs)
         \/ \E ids \in SUBSET DOMAIN chunks : delete_chunks(w, ids)
         \/ SetDirty(w)
    \/ RebuildRead \/ RebuildInstall
    \/ invalidate_lexical \/ close \/ Crash \/ _load_bm25_if_valid

Spec == Init /\ [][Next]_vars

-----------------------------------------------------------------------------
(* Properties *)

(* Every variable has the type the code gives it. *)
TypeOK ==
    /\ chunks \in Table
    /\ bm25 \in Table \cup {None} /\ corpus \in Table \cup {None}
    /\ dirty \in BOOLEAN /\ open \in BOOLEAN
    /\ flagging \subseteq Writers
    /\ pickle # None =>
         /\ pickle.corpus \in Table
         /\ pickle.digest \in [DOMAIN pickle.corpus -> Hashes \cup {NoHash}]

(* An index that search_lexical would use as it is was built from the chunks *)
(* the table has, unless a writer is about to set the flag.  So a search is  *)
(* stale at most while a write is returning, also when the flag was set      *)
(* during a rebuild, after a crash, and when a pickle was taken over.        *)
CleanMeansCurrent ==
    open /\ ~dirty /\ bm25 # None /\ flagging = {} => bm25 = chunks

(* sqlite_store.py: "the pickle is validated against the live chunks table   *)
(* on load and rebuilt on mismatch".  A pickle that passes describes the     *)
(* table.                                                                    *)
ValidPickleIsCurrent == ~open /\ PickleValid => pickle.corpus = chunks

(* CleanMeansCurrent and ValidPickleIsCurrent: lexical search never trusts   *)
(* an index, in memory or on disk, of another table than the one it serves.  *)
LexicalIsCurrent == CleanMeansCurrent /\ ValidPickleIsCurrent

-----------------------------------------------------------------------------
(* What makes the two properties inductive with one writer: index, rebuild   *)
(* and pickle may miss chunks or have too many, but where both they and the  *)
(* table (or the digest) have an id, they agree on it.                       *)

AgreeWithTable(b) == \A i \in DOMAIN b \cap DOMAIN chunks : b[i] = chunks[i]

CacheAgrees ==
    /\ open /\ ~dirty /\ bm25 # None => AgreeWithTable(bm25)
    /\ corpus # None => open /\ corpus = chunks

PickleHonest ==
    pickle # None => \A i \in DOMAIN pickle.corpus : pickle.digest[i] \in {pickle.corpus[i], NoHash}

(* The inductive invariant. *)
IInv == TypeOK /\ CleanMeansCurrent /\ CacheAgrees /\ PickleHonest /\ (~open => flagging = {})
=============================================================================
