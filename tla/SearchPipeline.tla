--------------------------- MODULE SearchPipeline ---------------------------
(***************************************************************************)
(* The decisions of longctx_daemon/searcher.py and policy.py that are       *)
(* functions of their input: which projects a search is for, how rankings   *)
(* are fused, where lists are cut and what fits the budget.                 *)
(*                                                                          *)
(* A query is what its regular expressions find in it: the project names it *)
(* mentions bare and with a cue, identifiers, function words, its length.   *)
(* Paths are sequences of segments.  Cosines are in percent.                *)
(***************************************************************************)
EXTENDS Integers, Sequences, FiniteSets, SequencesExt, Ordering

CONSTANTS
    NoProject,      \* None, where a project name may be missing
    NoCwd,          \* None, where the caller gives no directory
    CommonNames,    \* COMMON_WORD_NAMES
    RrfK,           \* SearcherConfig.rrf_k
    TopN            \* SearcherConfig.default_top_k_for_fusion

ASSUME PipelineAssumption == RrfK \in Nat /\ TopN \in Nat \ {0}

FirstOf(s, S) ==
    LET good == Among(s, S) IN IF good = <<>> THEN NoProject ELSE good[1]

-----------------------------------------------------------------------------
(* Scope routing *)

Decision(primary, source, fanout) == [primary |-> primary, source |-> source, fanout |-> fanout]

(* Mutant: a common word is taken for the project of that name. *)
MentionedAnyhow(query, name) == name \in query.cued \/ name \in query.bare

(* _project_mentioned, _project_mentioned_with_cue, and the tiebreaker       *)
(* between common words and distinctive names.                               *)
Mentioned(query, name) ==
    name \in query.cued \/ (name \in query.bare /\ name \notin CommonNames)

(* _walk_to_project, first strategy: the deepest root above cwd. *)
DeepestRoot(cwd, indexed, roots) ==
    LET above == {n \in DOMAIN roots : n \in Range(indexed) /\ IsPrefix(roots[n], cwd)}
    IN IF above = {} THEN NoProject
       ELSE CHOOSE n \in above : \A m \in above : Len(roots[m]) <= Len(roots[n])

(* ... and second: the first project whose name is a segment of cwd. *)
_walk_to_project(cwd, indexed, roots) ==
    LET deepest == DeepestRoot(cwd, indexed, roots)
    IN IF deepest # NoProject THEN deepest
       ELSE FirstOf(indexed, Range(cwd))

decide_scope(query, cwd, project, sticky, indexed, roots) ==
    LET named == {n \in Range(indexed) : Mentioned(query, n)}
        matched == Among(indexed, named)
        walked == IF cwd = NoCwd THEN NoProject ELSE _walk_to_project(cwd, indexed, roots)
    IN CASE project # NoProject -> Decision(project, "explicit_project", <<project>>)
         [] project = NoProject /\ named # {} ->
              Decision(matched[1], "cross_project_pattern", matched)
         [] project = NoProject /\ named = {} /\ sticky # NoProject ->
              Decision(sticky, "active_project_sticky", <<sticky>>)
         [] project = NoProject /\ named = {} /\ sticky = NoProject /\ walked # NoProject ->
              Decision(walked, "cwd_walk_to_sentinel", <<walked>>)
         [] OTHER -> Decision(NoProject, "fanout_no_primary", indexed)

(* _scope_to_filter: no filter at all for an empty fanout. *)
_scope_to_filter(decision) ==
    IF decision.fanout = <<>> THEN [all |-> TRUE, projects |-> {}]
    ELSE [all |-> FALSE, projects |-> Range(decision.fanout)]

(* Searcher.search passes no project_roots. *)
NoRoots == [n \in {} |-> n]
SearchScope(query, cwd, project, sticky, indexed) ==
    decide_scope(query, cwd, project, sticky, indexed, NoRoots)

-----------------------------------------------------------------------------
(* Policy *)

(* A paste of several lines of code without a question. *)
classify_query_type(query) ==
    IF query.lines > 1 /\ (query.code \/ query.traceback) /\ ~query.question
    THEN "find_similar" ELSE "natural_language"

detect_query_shape(query) ==
    CASE query.chars < 5 -> "unknown"
      [] query.chars >= 5 /\ query.identifier /\ query.natural -> "mixed"
      [] query.chars >= 5 /\ query.identifier /\ ~query.natural -> "symbolic"
      [] query.chars >= 5 /\ ~query.identifier /\ (query.natural \/ query.words >= 4) -> "prose"
      [] OTHER -> "unknown"

(* _size_bucket *)
_size_bucket(chars) ==
    IF chars < 64000 THEN "short" ELSE
    IF chars < 256000 THEN "mid" ELSE
    IF chars < 1000000 THEN "long" ELSE "xlong"

(* The cells of _POLICY_TABLE, as far as this code applies them: prose goes  *)
(* dense-only at every size.                                                 *)
_POLICY_TABLE(bucket, shape) == [bm25 |-> IF shape = "prose" THEN 0 ELSE 1, dense |-> 1,
                                 hint |-> IF shape # "prose" THEN "none" ELSE
                                          IF bucket \in {"short", "mid"} THEN "bge" ELSE "MiniLM"]

(* _DEFAULT_POLICY and select_policy *)
select_policy(chars, shape) ==
    IF shape = "unknown" THEN [bm25 |-> 1, dense |-> 1, hint |-> "none"]
    ELSE _POLICY_TABLE(_size_bucket(chars), shape)

(* _resolve_policy: 8000 characters a chunk. *)
_resolve_policy(config, query, auto_policy, chunk_count) ==
    IF auto_policy THEN select_policy(chunk_count * 8000, detect_query_shape(query)) ELSE config

-----------------------------------------------------------------------------
(* Fusion *)

(* A common multiple of the denominators k + rank that can occur. *)
Scale == FoldLeft(LAMBDA product, n : product * (RrfK + n), 1, [n \in 1 .. TopN |-> n])

(* _rrf_score, times Scale. *)
_rrf_score(rank) == Scale \div (RrfK + rank)

Enumerated(ranking) == [r \in DOMAIN ranking |-> [rank |-> r, id |-> ranking[r]]]

(* What one ranking gives an id. *)
ScoreIn(ranking, id) ==
    FoldLeft(LAMBDA sum, e : IF e.id = id THEN sum + _rrf_score(e.rank) ELSE sum, 0,
             Enumerated(ranking))

TotalScore(rankings, id) == FoldLeft(LAMBDA sum, ranking : sum + ScoreIn(ranking, id), 0, rankings)

(* The domain of score by falling score, ties by id. *)
ByFalling(score) ==
    Sorted(DOMAIN score, {e \in Pairs(DOMAIN score) :
                            \/ score[e[1]] > score[e[2]]
                            \/ score[e[1]] = score[e[2]] /\ e[1] < e[2]})

_rrf_fuse(bm25_rankings, dense_rankings, weights) ==
    ByFalling([i \in UNION {Range(s) : s \in Range(bm25_rankings \o dense_rankings)} |->
                 weights.bm25 * TotalScore(bm25_rankings, i)
                 + weights.dense * TotalScore(dense_rankings, i)])

-----------------------------------------------------------------------------
(* One search after the rankers: c is the call and the corpus.               *)

(* max_results hits, and as many more as are suppressed. *)
Cap(c) ==
    LET cap == c.max_results + Cardinality(c.suppress) IN IF cap < TopN THEN cap ELSE TopN

CutAt(s, cap) == SubSeq(s, 1, IF Len(s) < cap THEN Len(s) ELSE cap)

Fused(c) == CutAt(_rrf_fuse(c.lex, c.dense, c.weights), IF Cap(c) > 1 THEN Cap(c) ELSE 1)

(* dense_cosine_by_id of the fused rank 1; a lexical-only hit has none. *)
Top1Cosine(c, fused) ==
    IF fused[1] \in UNION {Range(s) : s \in Range(c.dense)} THEN c.cosine[fused[1]] ELSE 0

(* The floor: per call, else per project, else global, resolved in c.floor. *)
BelowFloor(c, fused) == fused = <<>> \/ Top1Cosine(c, fused) < c.floor

no_relevant_results(c) == c.floor > 0 /\ c.weights.dense > 0 /\ BelowFloor(c, Fused(c))

(* Mutant: a chunk that does not fit is skipped and later ones are tried. *)
TakeWhatFits(c, st, id) ==
    IF st.stop \/ id \in c.suppress \/ (c.tokens[id] > st.budget /\ st.kept # <<>>) THEN st
    ELSE [st EXCEPT !.kept = Append(@, id), !.budget = @ - c.tokens[id],
                    !.stop = Len(st.kept) + 1 >= c.max_results]

(* The take loop's body: suppressed, seen document root, over budget, full. *)
TakeChunk(c, st, id) ==
    LET dup == c.dedup /\ c.root[id] \in st.seen
        over == c.tokens[id] > st.budget /\ st.kept # <<>>
    IN IF st.stop \/ id \in c.suppress \/ dup THEN st
       ELSE IF over THEN [st EXCEPT !.stop = TRUE]
       ELSE [kept |-> Append(st.kept, id), budget |-> st.budget - c.tokens[id],
             seen |-> st.seen \cup {c.root[id]}, stop |-> Len(st.kept) + 1 >= c.max_results]

(* The symbol-aware re-rank of a query with a code signal: files that define *)
(* a symbol of the query and source files first, else as fused.              *)
Permuted(s, order) == [k \in DOMAIN order |-> s[order[k]]]

Reranked(c, s) ==
    IF c.code_signal THEN Permuted(s, ByFalling([k \in DOMAIN s |-> c.boost[s[k]]])) ELSE s

(* get_chunks_by_id: ids without a chunk drop out after the cut. *)
ranked_chunks(c) == Reranked(c, Among(Fused(c), c.exists))

(* search, from the fused list to the chunks returned. *)
search(c) ==
    IF no_relevant_results(c) THEN <<>>
    ELSE FoldLeft(LAMBDA st, id : TakeChunk(c, st, id),
                  [kept |-> <<>>, budget |-> c.max_tokens, seen |-> {}, stop |-> FALSE],
                  ranked_chunks(c)).kept

(* _compute_retrieval_quality *)
_compute_retrieval_quality(top1, gap, abstain, n) ==
    CASE abstain -> "abstain"
      [] ~abstain /\ n = 0 -> "unknown"
      [] ~abstain /\ n > 0 /\ top1 >= 75 /\ gap >= 10 -> "high"
      [] ~abstain /\ n > 0 /\ ~(top1 >= 75 /\ gap >= 10)
           /\ (top1 >= 60 \/ (top1 >= 50 /\ gap >= 15)) -> "medium"
      [] OTHER -> "low"

(* One group: what earlier groups showed is suppressed. *)
WithGroup(acc, result) ==
    [groups |-> Append(acc.groups, result), shown |-> acc.shown \cup Range(result)]

SearchGroup(acc, c) == WithGroup(acc, search([c EXCEPT !.suppress = @ \cup acc.shown]))

(* search_multi: the groups, one per sub-query. *)
search_multi(calls) ==
    FoldLeft(LAMBDA acc, c : SearchGroup(acc, c), [groups |-> <<>>, shown |-> {}], calls).groups

(* ... and the freshness they share: the worst of them. *)
MergedFreshness(fresh) ==
    LET max_pending == CHOOSE n \in {f.pending : f \in Range(fresh)} :
                         \A f \in Range(fresh) : f.pending <= n
    IN [is_fully_fresh |-> max_pending = 0 /\ \A f \in Range(fresh) : f.is_fully_fresh,
        pending |-> max_pending]
=============================================================================
