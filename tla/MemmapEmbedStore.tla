-------------------------- MODULE MemmapEmbedStore --------------------------
(***************************************************************************)
(* longctx_daemon/storage/memmap_store.py: the dense-embedding store, a     *)
(* memory-mapped file of rows plus a pickled sidecar (num_rows, freelist,   *)
(* capacity, model digest).  Every write runs under one RLock, so a single  *)
(* operation is in progress at a time; its steps are separate actions       *)
(* because the process may die between any two of them.                     *)
(***************************************************************************)
EXTENDS Integers, Sequences

CONSTANTS
    Texts,          \* the chunk texts that get embedded
    Shas,           \* the digests of the embedder models in use
    InitialRows,    \* initial_rows
    GrowthNum,      \* growth_factor = GrowthNum / GrowthDen
    GrowthDen,
    OnMismatch,     \* "raise" or "warn", for _open_existing
    Zero,           \* an all-zero row
    MaxBatch,       \* bound: vectors per append_batch
    MaxRows         \* bound: rows ever appended at the tail

(* The checks of __init__ (memmap_store.py:231-238). *)
ASSUME InitialRowsAssumption == InitialRows \in Nat \ {0}
ASSUME GrowthAssumption ==
    /\ GrowthNum \in Nat /\ GrowthDen \in Nat
    /\ 0 < GrowthDen /\ GrowthDen < GrowthNum
ASSUME OnMismatchAssumption == OnMismatch \in {"raise", "warn"}
ASSUME BoundsAssumption == MaxBatch \in Nat /\ MaxRows \in Nat

VARIABLES
    mm,         \* the .npy file: row |-> embedding; a process crash keeps it
    idx,        \* the .idx sidecar on disk
    st,         \* self._state, the in-memory copy of the sidecar
    open,       \* self._mm is not None
    job,        \* the write in progress under the lock
    held,       \* observation: row |-> embedding, for rows callers own
    orphans     \* observation: rows allocated on disk that a crash took from their caller

vars == <<mm, idx, st, open, job, held, orphans>>

Elems(s) == {s[i] : i \in DOMAIN s}

Vectors == [text : Texts, sha : Shas]

(* The embedding of a text by the model the store was opened for. *)
Embedding(t) == [text |-> t, sha |-> st.sha]

NoJob == [pc |-> "idle", vecs |-> <<>>, rows |-> <<>>]

Indexes == [num_rows : Nat, freelist : Seq(Nat), capacity : Nat, sha : Shas]

(* What is free and what is allocated according to a sidecar. *)
Allocated(s) == (0 .. s.num_rows - 1) \ Elems(s.freelist)

-----------------------------------------------------------------------------
(* __init__ -> _create_new: zeroed rows, an empty index, the sidecar saved. *)
_create_new(sha) ==
    /\ mm = [r \in 0 .. InitialRows - 1 |-> Zero]
    /\ st = [num_rows |-> 0, freelist |-> <<>>, capacity |-> InitialRows, sha |-> sha]
    /\ idx = st

Init ==
    /\ \E sha \in Shas : _create_new(sha)
    /\ open = TRUE
    /\ job = NoJob
    /\ held = [r \in {} |-> r]
    /\ orphans = {}

-----------------------------------------------------------------------------
Smaller(a, b) == IF a < b THEN a ELSE b
Larger(a, b) == IF a > b THEN a ELSE b

(* m with vecs written to rows, one after the other. *)
WriteRows(m, rows, vecs) ==
    [r \in DOMAIN m |->
        IF r \in Elems(rows)
        THEN vecs[CHOOSE i \in DOMAIN rows : rows[i] = r]
        ELSE m[r]]

(* The rows `freelist.pop()` yields when it is called k times. *)
Popped(freelist, k) == [i \in 1..k |-> freelist[Len(freelist) - i + 1]]

(* Mutant: the rows are read off the freelist but not taken from it. *)
RecycleWithoutPop(n, vecs) ==
    /\ open /\ job.pc = "idle"
    /\ st.num_rows + n <= MaxRows
    /\ LET k == Smaller(n, Len(st.freelist))
           rows == Popped(st.freelist, k)
       IN /\ mm' = WriteRows(mm, rows, vecs)
          /\ job' = [pc |-> IF k < n THEN "tail" ELSE "save", vecs |-> vecs, rows |-> rows]
    /\ UNCHANGED <<st, idx, open, held, orphans>>

(***************************************************************************)
(* append / append_batch, first half: recycle from the end of the freelist. *)
(* append(v) is append_batch(<<v>>): the two take the same branches.        *)
(***************************************************************************)
AppendFromFreelist(n, vecs) ==
    /\ open /\ job.pc = "idle"
    /\ st.num_rows + n <= MaxRows
    /\ LET k == Smaller(n, Len(st.freelist))
           rows == Popped(st.freelist, k)
       IN /\ st' = [st EXCEPT !.freelist = SubSeq(st.freelist, 1, Len(st.freelist) - k)]
          /\ mm' = WriteRows(mm, rows, vecs)
          /\ job' = [pc |-> IF k < n THEN "tail" ELSE "save", vecs |-> vecs, rows |-> rows]
    /\ UNCHANGED <<idx, open, held, orphans>>

Remaining == Len(job.vecs) - Len(job.rows)

(* Mutant: truncated growth, without the + 1 and the minimum. *)
NewCapacityTruncated(cap, minExtra) == (cap * GrowthNum) \div GrowthDen

(* The capacity _grow asks for. *)
NewCapacity(cap, minExtra) ==
    Larger(((cap * GrowthNum) \div GrowthDen) + 1, cap + Larger(minExtra, 1))

(* One round of `while num_rows + remaining > capacity: _grow(remaining)`:  *)
(* the file is extended (never truncated) and the new tail zeroed.          *)
_grow ==
    /\ job.pc = "tail"
    /\ st.num_rows + Remaining > st.capacity
    /\ LET cap == NewCapacity(st.capacity, Remaining) IN
         /\ mm' = [r \in DOMAIN mm \cup (0 .. cap - 1) |->
                     IF r \in st.capacity .. cap - 1 THEN Zero ELSE mm[r]]
         /\ st' = [st EXCEPT !.capacity = cap]
    /\ UNCHANGED <<idx, open, job, held, orphans>>

(* The vectors the freelist had no room for go to the tail. *)
AppendAtTail ==
    /\ job.pc = "tail"
    /\ st.num_rows + Remaining <= st.capacity
    /\ LET k == Len(job.rows)
           rows == [i \in 1 .. Len(job.vecs) |->
                      IF i <= k THEN job.rows[i] ELSE st.num_rows + i - k - 1]
       IN /\ mm' = WriteRows(mm, rows, job.vecs)
          /\ job' = [job EXCEPT !.pc = "save", !.rows = rows]
    /\ st' = [st EXCEPT !.num_rows = @ + Remaining]
    /\ UNCHANGED <<idx, open, held, orphans>>

(* Mutant: the sidecar is saved by close alone. *)
SaveOnCloseOnly ==
    /\ job.pc \in {"save", "save_free"}
    /\ job' = IF job.pc = "save" THEN [job EXCEPT !.pc = "return"] ELSE NoJob
    /\ UNCHANGED <<mm, idx, st, open, held, orphans>>

(* _save_index: pickle to a temporary file, then os.replace. *)
_save_index ==
    /\ job.pc \in {"save", "save_free"}
    /\ idx' = st
    /\ job' = IF job.pc = "save" THEN [job EXCEPT !.pc = "return"] ELSE NoJob
    /\ UNCHANGED <<mm, st, open, held, orphans>>

(* append_batch returns: the rows are the caller's. *)
AppendReturn ==
    /\ job.pc = "return"
    /\ held' = [r \in DOMAIN held \cup Elems(job.rows) |->
                  IF r \in Elems(job.rows)
                  THEN job.vecs[CHOOSE i \in DOMAIN job.rows : job.rows[i] = r]
                  ELSE held[r]]
    /\ job' = NoJob
    /\ UNCHANGED <<mm, idx, st, open, orphans>>

(***************************************************************************)
(* free_row(row), up to its _save_index.  Any row in range may be passed;   *)
(* one that is free already returns at once, one out of range raises.       *)
(***************************************************************************)
free_row(row) ==
    /\ open /\ job.pc = "idle"
    /\ row \in 0 .. st.num_rows - 1
    /\ row \notin Elems(st.freelist)
    /\ mm' = [mm EXCEPT ![row] = Zero]
    /\ st' = [st EXCEPT !.freelist = Append(@, row)]
    /\ held' = [r \in DOMAIN held \ {row} |-> held[r]]
    /\ orphans' = orphans \ {row}
    /\ job' = [pc |-> "save_free", vecs |-> <<>>, rows |-> <<row>>]
    /\ UNCHANGED <<idx, open>>

(* close(): flush, save the sidecar, drop the mapping. *)
close ==
    /\ open /\ job.pc = "idle"
    /\ idx' = st
    /\ open' = FALSE
    /\ UNCHANGED <<mm, st, job, held, orphans>>

(* Rows the sidecar has as allocated and no caller can name. *)
Unreturned == IF job.pc \in {"return", "save_free"} THEN Elems(job.rows) ELSE {}

(* The process dies and its memory with it.  Rows of an append whose        *)
(* sidecar is saved stay allocated although nobody was told of them; so     *)
(* does the row of a free_row whose sidecar is not saved.                   *)
Crash ==
    /\ open
    /\ open' = FALSE
    /\ job' = NoJob
    /\ orphans' = orphans \cup Unreturned
    /\ st' = idx
    /\ UNCHANGED <<mm, idx, held>>

(* __init__ -> _open_existing with the digest of the model now installed.   *)
(* A different digest raises, unless on_mismatch = "warn" adopts it.        *)
_open_existing(sha) ==
    /\ ~open
    /\ idx.sha = sha \/ OnMismatch = "warn"
    /\ st' = [idx EXCEPT !.sha = sha]
    /\ idx' = st'
    /\ open' = TRUE
    /\ UNCHANGED <<mm, job, held, orphans>>

-----------------------------------------------------------------------------
append_batch ==
    \E n \in 1..MaxBatch : \E ts \in [1..n -> Texts] :
        AppendFromFreelist(n, [i \in 1..n |-> Embedding(ts[i])])

Step == _grow \/ AppendAtTail \/ _save_index \/ AppendReturn

Next ==
    \/ append_batch
    \/ Step
    \/ \E row \in 0 .. MaxRows - 1 : free_row(row)
    \/ close
    \/ Crash
    \/ \E sha \in Shas : _open_existing(sha)

Spec == Init /\ [][Next]_vars

(* The thread inside the store keeps running while the process lives. *)
FairSpec == Spec /\ WF_vars(Step)

-----------------------------------------------------------------------------
(* Properties *)

(* Every variable has the type the code gives it. *)
TypeOK ==
    /\ DOMAIN mm \subseteq Nat /\ mm \in [DOMAIN mm -> Vectors \cup {Zero}]
    /\ st \in Indexes /\ idx \in Indexes
    /\ open \in BOOLEAN
    /\ job \in [pc : {"idle", "tail", "save", "return", "save_free"},
               vecs : Seq(Vectors), rows : Seq(Nat)]
    /\ DOMAIN held \subseteq Nat /\ held \in [DOMAIN held -> Vectors]
    /\ orphans \subseteq Nat

Distinct(s) == \A i, j \in DOMAIN s : i # j => s[i] # s[j]

IndexSound(s) ==
    /\ Distinct(s.freelist)
    /\ Elems(s.freelist) \subseteq 0 .. s.num_rows - 1
    /\ s.num_rows <= s.capacity /\ s.num_rows <= MaxRows
    /\ 0 .. s.capacity - 1 \subseteq DOMAIN mm

(* No row is on the freelist twice, a free row is one that was appended, and *)
(* the file always has the rows that memory and the sidecar count on: also   *)
(* after a crash between extending the file and saving the sidecar.          *)
FreelistSound == IndexSound(st) /\ IndexSound(idx)

(* A row that a caller owns is allocated in memory and in the sidecar on     *)
(* disk: no crash and restart gives the row to a second caller.              *)
HeldDurable == DOMAIN held \subseteq Allocated(st) \cap Allocated(idx)

(* A row that a caller owns still holds the embedding it was appended with,  *)
(* whatever batches, recycling, growth and crashes came after.               *)
HeldIntact == \A r \in DOMAIN held : r \in DOMAIN mm /\ mm[r] = held[r]

(* Every allocated row is accounted for exactly once: owned by a caller, in  *)
(* the operation under way, or orphaned by a crash.  Nothing else leaks.     *)
RowsAccounted ==
    /\ Allocated(idx) = DOMAIN held \cup orphans \cup Unreturned
    /\ DOMAIN held \cap orphans = {}
    /\ (DOMAIN held \cup orphans) \cap Unreturned = {}

(* With on_mismatch = "raise" all owned rows come from the model the store   *)
(* is open for: a swapped model never mixes with cached embeddings.          *)
ModelIdentity ==
    OnMismatch = "raise" => \A r \in DOMAIN held : held[r].sha = st.sha

(* A write that took the lock gives it back: the growth loop ends.           *)
OperationEnds == [](job.pc # "idle" => <>(job.pc = "idle"))

(* The store implements the row allocator: held is the abstract state.       *)
Allocator == INSTANCE RowAllocator WITH live <- held, Rows <- 0 .. MaxRows - 1
AllocatorSpec == Allocator!Spec

-----------------------------------------------------------------------------
(* The step of the operation in progress, which makes the above inductive.   *)

JobRowsSound ==
    job.pc # "idle" => /\ open /\ st.sha = idx.sha
                       /\ Distinct(job.rows)
                       /\ Elems(job.rows) \cap DOMAIN held = {}

(* Until the sidecar is saved the job's rows are free on disk. *)
FreshRows ==
    job.pc \in {"tail", "save"} =>
        /\ Allocated(st) = Allocated(idx) \cup Elems(job.rows)
        /\ Allocated(idx) \cap Elems(job.rows) = {}

WrittenRows ==
    job.pc \in {"tail", "save", "return"} =>
        /\ Len(job.rows) <= Len(job.vecs)
        /\ \A i \in DOMAIN job.rows : mm[job.rows[i]] = job.vecs[i]

JobPoint ==
    /\ job.pc = "idle" => st = idx /\ job = NoJob
    /\ job.pc = "tail" => /\ Len(job.rows) < Len(job.vecs)
                          /\ st.num_rows = idx.num_rows
                          /\ st.num_rows + Remaining <= MaxRows
    /\ job.pc \in {"save", "return"} => Len(job.rows) = Len(job.vecs)
    /\ job.pc = "return" => st = idx
    /\ job.pc = "save_free" => Allocated(st) = Allocated(idx) \ Elems(job.rows)

JobSound == JobRowsSound /\ FreshRows /\ WrittenRows /\ JobPoint

(* The inductive invariant of the store: the four safety invariants and      *)
(* JobSound, what each point of the operation under way relies on.           *)
IInv == TypeOK /\ FreelistSound /\ HeldDurable /\ HeldIntact /\ RowsAccounted /\ JobSound
=============================================================================
