------------------------------ MODULE Searcher ------------------------------
(***************************************************************************)
(* Searcher.search of longctx_daemon/searcher.py against the stores, while  *)
(* the indexer replaces the chunks of a file.  Each call into a store takes *)
(* that store's lock on its own, so a search is a chain of locked reads     *)
(* with the indexer's writes in between: BM25 hits, chunk ids of the scope, *)
(* their embedding rows, dense hits over rows, rows back to chunk ids,      *)
(* chunks, file records.  The chunk table and its BM25 cache are those of   *)
(* LexicalIndex.                                                            *)
(*                                                                          *)
(* No ranking has a cut here: what is followed is WHICH chunks a search     *)
(* returns and under which file; SearchPipeline has the order and the cuts. *)
(* A chunk text occurs in one file only, so the text names its file.  The   *)
(* process does not stop here: LexicalIndex and Indexer have its restarts.   *)
(***************************************************************************)
EXTENDS LexicalIndex, FiniteSets, Sequences, SequencesExt

CONSTANTS
    Files,      \* the files; each is the one file of a project
    FileOf,     \* [Hashes -> Files]: the file a text is in
    MaxRow,     \* bound: the largest embedding row
    Persist,    \* whether the cache directory takes the BM25 pickle
    Indexer     \* the one writer

ASSUME FileOfAssumption == FileOf \in [Hashes -> Files]
ASSUME MaxRowAssumption == MaxRow \in Nat
ASSUME IndexerAssumption == Writers = {Indexer} /\ Files # {}

VARIABLES
    files,      \* table files: the file of each id, in the order of the ids
    rowOf,      \* chunks.embedding_row: chunk id |-> row
    fileId,     \* chunks.file_id: chunk id |-> file id
    vec,        \* the embedding store: live row |-> the text embedded there
    job,        \* the indexer's call in progress
    q,          \* the search in progress, or its result
    touched     \* ghost: files written while the search ran

svars == <<files, rowOf, fileId, vec, job, q, touched>>
allVars == <<vars, svars>>

Rows == 0..MaxRow
Idle == [at |-> "idle"]
NoSearch == [at |-> "none"]

SInit ==
    /\ Init
    /\ files = <<>> /\ rowOf = <<>> /\ fileId = <<>> /\ vec = <<>>
    /\ job = Idle /\ q = NoSearch
    /\ touched = {}

ChunksOf(f) == {i \in DOMAIN chunks : FileOf[chunks[i]] = f}
Without(fn, dom) == [x \in DOMAIN fn \ dom |-> fn[x]]
With(fn, more) == [x \in DOMAIN fn \cup DOMAIN more |-> IF x \in DOMAIN fn THEN fn[x] ELSE more[x]]
TableIdle == UNCHANGED vars

-----------------------------------------------------------------------------
(* The writer: _index_one of indexer.py for one file, step by step.          *)

(* The content hash differs.  The file record is written first (and created  *)
(* on the first write); old chunks whose text is not in the new set give     *)
(* their rows back.                                                          *)
FreeStale(f, H) ==
    /\ open /\ job = Idle /\ flagging = {}
    /\ {h \in H : FileOf[h] # f} = {}
    /\ f \in Range(files) => H # {chunks[i] : i \in ChunksOf(f)}
    /\ vec' = Without(vec, {rowOf[i] : i \in {j \in ChunksOf(f) : chunks[j] \notin H}})
    /\ files' = IF f \in Range(files) THEN files ELSE Append(files, f)
    /\ job' = [at |-> IF H = {} THEN "drop" ELSE "append", file |-> f, new |-> H, rows |-> <<>>]
    /\ touched' = IF q = NoSearch THEN {} ELSE touched \cup {f}
    /\ TableIdle /\ UNCHANGED <<rowOf, fileId, q>>

(* append_batch: free rows for the texts that have none; the others keep     *)
(* theirs.                                                                   *)
AppendRows ==
    /\ open /\ job.at = "append"
    /\ LET old == [h \in {chunks[i] : i \in ChunksOf(job.file)} \cap job.new |->
                     rowOf[CHOOSE i \in ChunksOf(job.file) : chunks[i] = h]]
       IN \E fresh \in [job.new \ DOMAIN old -> Rows \ DOMAIN vec] :
            /\ \A g, h \in DOMAIN fresh : g # h => fresh[g] # fresh[h]
            /\ vec' = With(vec, [r \in Range(fresh) |-> CHOOSE h \in DOMAIN fresh : fresh[h] = r])
            /\ job' = [job EXCEPT !.at = "drop", !.rows = With(old, fresh)]
    /\ TableIdle /\ UNCHANGED <<files, rowOf, fileId, q, touched>>

(* delete_chunks_by_file *)
DropOld ==
    /\ job.at = "drop"
    /\ delete_chunks(Indexer, ChunksOf(job.file))
    /\ rowOf' = Without(rowOf, ChunksOf(job.file))
    /\ fileId' = Without(fileId, ChunksOf(job.file))
    /\ job' = [job EXCEPT !.at = "flag"]
    /\ UNCHANGED <<files, vec, q, touched>>

(* upsert_chunks of the new set *)
InsertNew ==
    /\ job.at = "insert"
    /\ \E hs \in SetToSeqs(job.new) :
         /\ upsert_chunks(Indexer, Len(hs), hs)
         /\ LET new == DOMAIN chunks' \ DOMAIN chunks
            IN /\ rowOf' = With(rowOf, [i \in new |-> job.rows[chunks'[i]]])
               /\ fileId' = With(fileId, [i \in new |-> CHOOSE n \in DOMAIN files :
                                                          files[n] = job.file])
    /\ job' = [job EXCEPT !.at = "flag", !.new = {}]
    /\ UNCHANGED <<files, vec, q, touched>>

(* The statement has returned and sets the dirty flag. *)
WriterFlags ==
    /\ job.at = "flag"
    /\ SetDirty(Indexer)
    /\ job' = IF job.new = {} THEN Idle ELSE [job EXCEPT !.at = "insert"]
    /\ UNCHANGED <<files, rowOf, fileId, vec, q, touched>>

-----------------------------------------------------------------------------
(* The search. *)

(* A decision to search these files' projects, or all (no filter) when there *)
(* is no project at all; select_policy switches BM25 off for prose.          *)
Scopes == (SUBSET Files) \ {{}}

BeginSearch(scope, bm25On) ==
    /\ open /\ q = NoSearch
    /\ q' = [at |-> IF bm25On THEN "bm25" ELSE "ids", scope |-> scope,
             lex |-> {}, dense |-> {}, got |-> {}]
    /\ touched' = IF job = Idle THEN {} ELSE {job.file}
    /\ TableIdle /\ UNCHANGED <<files, rowOf, fileId, vec, job>>

(* _scope_chunk_ids *)
IdsInScope == {i \in DOMAIN chunks : files[fileId[i]] \in q.scope}

(* search_lexical on a clean index *)
LexicalClean ==
    /\ q.at = "bm25" /\ Unlocked /\ ~dirty
    /\ q' = [q EXCEPT !.at = "ids",
                      !.lex = IF bm25 = None THEN {} ELSE DOMAIN bm25 \cap IdsInScope]
    /\ TableIdle /\ UNCHANGED <<files, rowOf, fileId, vec, job, touched>>

(* search_lexical rebuilds first, and scores under the same lock. *)
LexicalRead ==
    /\ q.at = "bm25" /\ RebuildRead
    /\ UNCHANGED svars

(* Mutant: the rebuilt index is used only if no write came meanwhile. *)
RetryUntilClean ==
    /\ q.at = "bm25" /\ RebuildInstall
    /\ Persist \/ pickle' = pickle
    /\ UNCHANGED svars

LexicalInstall ==
    /\ q.at = "bm25" /\ RebuildInstall
    /\ Persist \/ pickle' = pickle
    /\ q' = [q EXCEPT !.at = "ids",
                      !.lex = IF bm25' = None THEN {} ELSE DOMAIN bm25' \cap IdsInScope]
    /\ UNCHANGED <<files, rowOf, fileId, vec, job, touched>>

(* list_chunk_ids_in_scope *)
ListIds ==
    /\ q.at = "ids" /\ Unlocked
    /\ q' = [q EXCEPT !.at = "rows", !.dense = IdsInScope]
    /\ TableIdle /\ UNCHANGED <<files, rowOf, fileId, vec, job, touched>>

(* Mutant: the ids are passed on as rows. *)
IdsAsRows == q.dense

(* get_embedding_rows_by_chunk_ids *)
RowsOfIds == {rowOf[i] : i \in q.dense \cap DOMAIN rowOf}

(* _scope_to_embedding_rows *)
_scope_to_embedding_rows ==
    /\ q.at = "rows" /\ Unlocked
    /\ q' = [q EXCEPT !.at = "dense", !.dense = RowsOfIds]
    /\ TableIdle /\ UNCHANGED <<files, rowOf, fileId, vec, job, touched>>

(* search_dense: live rows among the allowed; freed rows are masked. *)
SearchDense ==
    /\ open /\ q.at = "dense"
    /\ q' = [q EXCEPT !.at = "translate", !.dense = q.dense \cap DOMAIN vec]
    /\ TableIdle /\ UNCHANGED <<files, rowOf, fileId, vec, job, touched>>

(* get_chunk_ids_by_embedding_rows; a row no chunk names stands for itself. *)
IdsOfRow(r) ==
    LET ids == {i \in DOMAIN rowOf : rowOf[i] = r} IN IF ids = {} THEN {r} ELSE ids

(* _rrf_fuse joins both key spaces; ids stand for what they stood for.  Of   *)
(* two chunks that name one row the reader gets either.                      *)
TranslateRows ==
    /\ q.at = "translate" /\ Unlocked
    /\ \E pick \in [q.dense -> Rows \cup 1..MaxId] :
         /\ \A r \in q.dense : pick[r] \in IdsOfRow(r)
         /\ q' = [q EXCEPT !.at = "fetch", !.dense = Range(pick)]
    /\ TableIdle /\ UNCHANGED <<files, rowOf, fileId, vec, job, touched>>

(* get_chunks_by_id: ids that are gone are left out, and an id may name      *)
(* another chunk by now.                                                     *)
FetchChunks ==
    /\ q.at = "fetch" /\ Unlocked
    /\ q' = [q EXCEPT !.at = "cite", !.lex = {}, !.dense = {},
                      !.got = {[id |-> i, text |-> chunks[i], file |-> fileId[i]] :
                                 i \in (q.lex \cup q.dense) \cap DOMAIN chunks}]
    /\ TableIdle /\ UNCHANGED <<files, rowOf, fileId, vec, job, touched>>

(* _build_citation: the file record each chunk names; the result goes out. *)
_build_citation(g) == [g EXCEPT !.file = files[g.file]]
Result == {_build_citation(g) : g \in q.got}

ReturnResult ==
    /\ q.at = "cite" /\ Unlocked
    /\ q' = NoSearch /\ touched' = {}
    /\ TableIdle /\ UNCHANGED <<files, rowOf, fileId, vec, job>>

InvalidateLexical == invalidate_lexical /\ UNCHANGED svars

SearchSteps ==
    \/ LexicalClean \/ LexicalRead \/ LexicalInstall
    \/ ListIds \/ _scope_to_embedding_rows \/ SearchDense \/ TranslateRows
    \/ FetchChunks \/ ReturnResult

WriterSteps == AppendRows \/ DropOld \/ InsertNew \/ WriterFlags

SNext ==
    \/ \E f \in Files : \E H \in SUBSET Hashes : FreeStale(f, H)
    \/ WriterSteps
    \/ \E scope \in Scopes : \E on \in BOOLEAN : BeginSearch(scope, on)
    \/ SearchSteps
    \/ InvalidateLexical

(* Every store call ends, whoever makes it. *)
SSpec == SInit /\ [][SNext]_allVars /\ WF_allVars(SearchSteps)

-----------------------------------------------------------------------------
(* Properties *)

(* A file that nobody writes while the search runs is found, whatever        *)
(* happens to other files meanwhile: all its chunks come back if it is in    *)
(* scope.  And a search beside which nobody writes returns chunks of its     *)
(* scope only, each cited with the file it is from.                          *)
SearchIsFaithful ==
    [][ReturnResult =>
         /\ \A i \in DOMAIN chunks :
              FileOf[chunks[i]] \in q.scope \ touched =>
                [id |-> i, text |-> chunks[i], file |-> FileOf[chunks[i]]] \in Result
         /\ touched = {} => \A g \in Result : g.file \in q.scope /\ FileOf[g.text] = g.file]_allVars

(* What makes it inductive.  The table: a chunk has a row of its own, and its *)
(* file's id; its text is embedded in that row, unless the indexer has just  *)
(* freed the row and is about to drop the chunk.                             *)
JobRecord ==
    [at : {"append", "drop", "flag", "insert"}, file : Files, new : SUBSET Hashes,
     rows : UNION {[texts -> Rows] : texts \in SUBSET Hashes}]
Hit == [id : 1..MaxId, text : Hashes, file : Nat]
SearchRecord ==
    [at : {"bm25", "ids", "rows", "dense", "translate", "fetch", "cite"}, scope : Scopes,
     lex : SUBSET Int, dense : SUBSET Int, got : SUBSET Hit]
Embedded(i) ==
    \/ job = Idle \/ FileOf[chunks[i]] # job.file \/ job.at \in {"flag", "insert"}
    \/ job.at = "append" /\ chunks[i] \in job.new
TableSound ==
    /\ chunks \in Table /\ files \in Seq(Files) /\ DOMAIN vec \subseteq Rows
    /\ rowOf \in [DOMAIN chunks -> Rows] /\ fileId \in [DOMAIN chunks -> DOMAIN files]
    /\ \A i \in DOMAIN chunks : files[fileId[i]] = FileOf[chunks[i]]
    /\ \A i, j \in DOMAIN chunks : rowOf[i] = rowOf[j] => i = j
    /\ \A i \in DOMAIN chunks : Embedded(i) => rowOf[i] \in DOMAIN vec

(* The indexer: from append_batch on it has a row for each new text, which   *)
(* no other file's chunk has; and the search knows whose chunks it changes.  *)
RowsReady ==
    /\ job.new \subseteq DOMAIN job.rows
    /\ \A h \in job.new : job.rows[h] \in DOMAIN vec
    /\ \A g, h \in job.new : job.rows[g] = job.rows[h] => g = h
    /\ \A h \in job.new, i \in DOMAIN chunks :
         FileOf[chunks[i]] # job.file => rowOf[i] # job.rows[h]
JobSound ==
    job # Idle =>
      /\ job \in JobRecord /\ job.file \in Range(files)
      /\ \A h \in job.new : FileOf[h] = job.file
      /\ job.at # "append" => RowsReady
      /\ job.at = "insert" \/ (job.at = "flag" /\ job.new # {}) => ChunksOf(job.file) = {}
      /\ q # NoSearch => job.file \in touched

(* The search: at each step of the chain the keys in hand stand for all      *)
(* chunks in scope that nobody wrote (Sure), and while nobody has written,   *)
(* for chunks in scope only.                                                 *)
InScope == {i \in DOMAIN chunks : FileOf[chunks[i]] \in q.scope}
Sure == {i \in InScope : FileOf[chunks[i]] \notin touched}
Found(i) == [id |-> i, text |-> chunks[i], file |-> fileId[i]]
FindsAll ==
    \A i \in Sure :
      /\ q.at \in {"rows", "fetch"} => i \in q.dense
      /\ q.at \in {"dense", "translate"} => rowOf[i] \in q.dense
      /\ q.at = "cite" => Found(i) \in q.got
FindsOnly ==
    /\ q.lex \subseteq InScope /\ q.got \subseteq {Found(i) : i \in InScope}
    /\ q.dense \subseteq IF q.at \in {"dense", "translate"} THEN {rowOf[i] : i \in InScope} ELSE InScope
QuerySound ==
    /\ touched \subseteq Files
    /\ q # NoSearch => q \in SearchRecord /\ FindsAll /\ (touched = {} => FindsOnly)

SearchInv == TableSound /\ JobSound /\ QuerySound

(* A search ends although the indexer works, and although every write makes  *)
(* the index dirty again.                                                    *)
SearchEnds == (q # NoSearch) ~> (q = NoSearch)
=============================================================================
