------------------------------ MODULE McpTools ------------------------------
(***************************************************************************)
(* What the tool handlers of longctx_daemon/mcp_server.py do around the     *)
(* searcher: which arguments reach it, what is cut from its answer, the     *)
(* hint for the next call, and find_related.                                *)
(***************************************************************************)
EXTENDS SearchPipeline, Retrieval

CONSTANT Remembered     \* entries of recent_searches (16)

ASSUME RememberedAssumption == Remembered \in Nat \ {0}

(* The trimming loop of _handle_search_codebase, over the chunks found. *)
TrimNext(c, st, id) ==
    LET over == st.tokens + c.tokens[id] > c.max_tokens /\ st.kept # <<>>
    IN IF st.stop \/ Len(st.kept) >= c.max_results \/ over THEN [st EXCEPT !.stop = TRUE]
       ELSE [st EXCEPT !.kept = Append(@, id), !.tokens = @ + c.tokens[id]]

kept_chunks(c, chunks) ==
    FoldLeft(LAMBDA st, id : TrimNext(c, st, id), [kept |-> <<>>, tokens |-> 0, stop |-> FALSE],
             chunks).kept

(* search takes every argument of a single query. *)
_handle_search_codebase(c) == kept_chunks(c, search(c))

(* search_multi has no auto_policy: passing it raises TypeError, and the     *)
(* second attempt drops every optional argument with it, the sticky project  *)
(* and the prior context too.                                                *)
Passed(c) == IF c.auto_policy THEN [c EXCEPT !.suppress = {}, !.floor = c.default_floor] ELSE c

_handle_search_codebase_multi(cs) == search_multi([k \in DOMAIN cs |-> Passed(cs[k])])

-----------------------------------------------------------------------------
(* suggested_followup *)

NoHint == [action |-> "none", values |-> {}]

_build_suggested_followup(ids, quality, nothing, recent) ==
    LET seen == UNION {Range(r) : r \in Range(recent)}
    IN IF nothing THEN [action |-> "prior_context", values |-> {}]
       ELSE IF quality \in {"medium", "low"} /\ Range(ids) \cap seen # {}
       THEN [action |-> "suppress_ids", values |-> Range(ids)]
       ELSE NoHint

(* recent_searches.append, and pop(0) above 16. *)
Recorded(recent, ids) ==
    LET all == Append(recent, ids) IN IF Len(all) > Remembered THEN Tail(all) ELSE all

(* A session: each answer's hint is followed on the next call of the same    *)
(* query.                                                                    *)
Answered(st, ids, quality, nothing) ==
    [recent |-> Recorded(st.recent, ids), answers |-> Append(st.answers, ids),
     hint |-> _build_suggested_followup(ids, quality, nothing, st.recent)]

Turn(c, quality, st) ==
    LET asked == [c EXCEPT !.suppress = st.hint.values]
    IN Answered(st, _handle_search_codebase(asked), quality, no_relevant_results(asked))

Dialogue(c, quality, turns) ==
    FoldLeft(LAMBDA st, k : Turn(c, quality, st), [recent |-> <<>>, hint |-> NoHint, answers |-> <<>>],
             [k \in 1 .. turns |-> k]).answers

-----------------------------------------------------------------------------
(* find_related: g has the files of each project, the chunks of a file in    *)
(* order with the lines they cover, the embedding row of each chunk, and the *)
(* similarity of each row to the source.                                     *)

(* A path that begins with a project's name, else the first project by name  *)
(* that has the whole path.                                                  *)
_locate_file_record(g, path) ==
    LET named == IF Len(path) > 1 /\ Head(path) \in DOMAIN g.files /\ Tail(path) \in g.files[Head(path)]
                 THEN <<Head(path)>> ELSE <<>>
        having == Among(g.order, {p \in Range(g.order) : path \in g.files[p]})
    IN named \o having

_pick_chunk_for_line(chunks, line) ==
    LET covering == Among(chunks, {k \in Range(chunks) : k.first <= line /\ line <= k.last})
    IN IF covering # <<>> THEN covering[1] ELSE chunks[1]

(* The rows nearest to the source are taken for chunk ids: hit.chunk_id is   *)
(* the row.  Ids without a chunk are passed over.                            *)
find_related(g, source, max_results) ==
    LET hits == Take(ByScore(g.score), max_results + 1)
        kept == Take(Among(hits, Range(hits) \ {source}), max_results)
    IN Among(kept, g.chunks)
=============================================================================
