----------------------------- MODULE Retrieval -----------------------------
(***************************************************************************)
(* Ranking and what becomes of it outside the daemon: RetrievePipeline of   *)
(* longctx_svc/retrieve/pipeline.py, RetrievalPipeline and CoarseFilter of  *)
(* longctx/rag, the embedding cache, and the splicing of chunks into a      *)
(* conversation by longctx_svc/proxy.py.                                    *)
(*                                                                          *)
(* Scores are natural numbers; a chunk is its position in the index.        *)
(* np.argsort may leave equal scores in any order, list.sort keeps theirs.  *)
(***************************************************************************)
EXTENDS Integers, Sequences, FiniteSets, SequencesExt, Ordering

CONSTANT RankK    \* rrf_k

ASSUME RankKAssumption == RankK \in Nat

Take(s, n) == SubSeq(s, 1, IF Len(s) < n THEN Len(s) ELSE n)

(* np.argsort(-scores) *)
ByScore(score) == Argsort(Len(score), {e \in Pairs(DOMAIN score) : score[e[1]] > score[e[2]]})

RankIn(order, i) == CHOOSE r \in DOMAIN order : order[r] = i

(* list.sort is stable: equal weights keep their order. *)
StableSort(s, weight(_)) ==
    LET order == Sorted(DOMAIN s, {e \in Pairs(DOMAIN s) :
                   \/ weight(s[e[1]]) > weight(s[e[2]])
                   \/ weight(s[e[1]]) = weight(s[e[2]]) /\ e[1] < e[2]})
    IN [k \in DOMAIN order |-> s[order[k]]]

-----------------------------------------------------------------------------
(* RetrievePipeline.retrieve: q is the query and the index.                  *)

(* query_features, has_code_signal, file_type_weight *)
file_type_weight(q, i) ==
    IF ~q.code_signal THEN 10
    ELSE CASE q.type[i] = "py" -> 15 [] q.type[i] = "doc" -> 6
           [] q.type[i] = "test" -> 9 [] OTHER -> 10

(* _paraphrase: the query and its restatements; a small scope asks only the  *)
(* query.  q.cos and q.bm25 have one score per paraphrase and chunk.         *)
Asked(q) == IF q.multi_query /\ q.chunks >= q.multiquery_min THEN q.cos ELSE <<q.cos[1]>>

Highest(S) == CHOOSE x \in S : \A y \in S : y <= x
Lowest(S) == CHOOSE x \in S : \A y \in S : x <= y

(* max_sims: the best cosine a chunk has with any paraphrase. *)
MaxSims(q) == [i \in 1 .. q.chunks |-> Highest({Asked(q)[p][i] : p \in DOMAIN Asked(q)})]

(* bm25_best_rank, likewise. *)
Bm25BestRank(q, i) == Lowest({RankIn(ByScore(q.bm25[p]), i) : p \in DOMAIN Asked(q)})

RanksOf(q, i) == [cos |-> RankK + RankIn(ByScore(MaxSims(q)), i), bm25 |-> RankK + Bm25BestRank(q, i)]

(* The two ranks fused: 1/(k+cos) + 1/(k+bm25) is greater for a than for b. *)
FusedAbove(a, b) == (a.cos + a.bm25) * b.cos * b.bm25 > (b.cos + b.bm25) * a.cos * a.bm25

ByFusion(ranks) ==
    Argsort(Len(ranks), {e \in Pairs(DOMAIN ranks) : FusedAbove(ranks[e[1]], ranks[e[2]])})

(* The prefilter: the best by cosine, or by fusion in a huge scope.          *)
(* _get_or_build_bm25 has an index for every scope that has chunks.          *)
Prefiltered(q) ==
    Take(IF q.coarse /\ q.chunks >= q.coarse_min
         THEN ByFusion([i \in 1 .. q.chunks |-> RanksOf(q, i)])
         ELSE ByScore(MaxSims(q)), q.prefilter)

(* The chunks of files that define a symbol of the query (symbol_grep_repo). *)
WithDefining(q, pre) ==
    pre \o Picked([i \in 1 .. q.chunks |-> i],
                  {i \in 1 .. q.chunks : q.defines[i] /\ i \notin Range(pre)})

Promoted(q) == WithDefining(q, Prefiltered(q))

(* The symbol-aware augment: promotion, then the file-type prior. *)
Augmented(q) ==
    IF q.augment THEN StableSort(Promoted(q), LAMBDA i : file_type_weight(q, i)) ELSE Prefiltered(q)

(* [s[i] for i in np.argsort(-scores)], with the scores of s's entries. *)
Rescored(s, score) ==
    LET order == ByScore([k \in DOMAIN s |-> score[s[k]]]) IN [k \in DOMAIN order |-> s[order[k]]]

(* The cross-encoder, when it is there and does not fail. *)
Reordered(q) ==
    IF q.rerank /\ q.chunks >= q.rerank_min THEN Rescored(Augmented(q), q.cross) ELSE Augmented(q)

retrieve(q) == IF q.chunks = 0 THEN <<>> ELSE Take(Reordered(q), q.top_k)

(* retrieve_multi: the scopes' results, each cut at top_k, by cosine, which  *)
(* is the score of a chunk even when it was reranked; equal ones as listed,  *)
(* scope by scope.                                                           *)
retrieve_multi(qs, top_k) ==
    LET pairs == UNION {{[scope |-> k, chunk |-> i, score |-> MaxSims(qs[k])[i]] :
                           i \in Range(retrieve(qs[k]))} : k \in DOMAIN qs}
        at(p) == RankIn(retrieve(qs[p.scope]), p.chunk)
        listed(a, b) == a.scope < b.scope \/ (a.scope = b.scope /\ at(a) < at(b))
        first(a, b) == a.score > b.score \/ (a.score = b.score /\ listed(a, b))
    IN Take(Sorted(pairs, {e \in Pairs(pairs) : first(e[1], e[2])}), top_k)

-----------------------------------------------------------------------------
(* longctx.rag: RetrievalPipeline and CoarseFilter                           *)

(* filter_multi_query: every ranking of every query adds weight/(k + rank),  *)
(* and the best top_k are kept, equal ones in the order of the first         *)
(* ranking; f.rankings holds weight and score.  The common denominator is    *)
(* the product of all k + rank.                                              *)
Denominators(n) == FoldLeft(LAMBDA acc, r : acc * (RankK + r), 1, [r \in 1 .. n |-> r])

FilterScore(f, i) ==
    FoldLeft(LAMBDA sum, k : sum + k.weight * (Denominators(f.chunks)
                                               \div (RankK + RankIn(ByScore(k.score), i))),
             0, f.rankings)

filter_multi_query(f) ==
    LET first == ByScore(f.rankings[1].score)
    IN Take(Sorted(1 .. f.chunks, {e \in Pairs(1 .. f.chunks) :
              \/ FilterScore(f, e[1]) > FilterScore(f, e[2])
              \/ /\ FilterScore(f, e[1]) = FilterScore(f, e[2])
                 /\ RankIn(first, e[1]) < RankIn(first, e[2])}), f.top_k)

(* retrieve_chunked keeps all chunks of a small input, or of one with no     *)
(* more chunks than the filter would keep.                                   *)
Kept(p) ==
    IF p.huge /\ p.chunks > p.coarse_top_n
    THEN Range(filter_multi_query([chunks |-> p.chunks, top_k |-> p.coarse_top_n,
                                   rankings |-> <<[weight |-> 1, score |-> p.bm25],
                                                  [weight |-> 1, score |-> p.sim]>>]))
    ELSE 1 .. p.chunks

(* Mutant: the last chunk of a parent decides. *)
LastOfParent(p, parent) ==
    LET mine == {j \in Kept(p) : p.parent[j] = parent}
    IN IF mine = {} THEN -1 ELSE p.sim[Highest(mine)]

(* best_per_parent; a parent without chunks scores minus infinity. *)
BestOfParent(p, parent) ==
    LET scores == {p.sim[i] : i \in {j \in Kept(p) : p.parent[j] = parent}}
    IN IF scores = {} THEN -1 ELSE Highest(scores)

InOrder(s, preserve_order) ==
    IF preserve_order THEN [k \in DOMAIN s |-> Nth(Range(s), k)] ELSE s

(* The top_k parents. *)
retrieve_chunked(p) ==
    LET best == [x \in 1 .. p.parents |-> BestOfParent(p, x)]
    IN InOrder(Take(ByScore(best), p.top_k), p.preserve_order)

(* RetrievalPipeline.retrieve: whole candidates, reranked when there is a    *)
(* reranker and more of them than it is given.                               *)
retrieve_whole(p) ==
    LET twice == 2 * p.top_k
        retrieve_k == IF twice > p.top_k + 4 THEN twice ELSE p.top_k + 4
        stage1 == Take(ByScore(p.sim), retrieve_k)
        order == IF ~p.reranker \/ retrieve_k >= p.chunks THEN Take(ByScore(p.sim), p.top_k)
                 ELSE Take(Rescored(stage1, p.cross), p.top_k)
    IN InOrder(order, p.preserve_order)

-----------------------------------------------------------------------------
(* EmbedCache.encode_with_cache: what is cached is taken, the rest is        *)
(* encoded in one batch and put where it belongs; a file that cannot be read *)
(* (torn, gone) is a miss and a write that fails is ignored.                 *)

encode_with_cache(texts, cache) ==
    LET misses == {i \in DOMAIN texts : texts[i] \notin DOMAIN cache}
        batch == Picked(texts, misses)
    IN [i \in DOMAIN texts |->
          IF i \notin misses THEN cache[texts[i]]
          ELSE batch[CHOOSE j \in DOMAIN batch : Nth(misses, j) = i]]

-----------------------------------------------------------------------------
(* The proxy. *)

Fence == 11         \* characters of a block beside header and text
Reserve == 12       \* what the loop reserves for them
Marker == 16        \* "\n... [truncated]"
Useful == 200       \* less room than this ends the loop

(* One chunk of _format_chunks_block. *)
AddBlock(budget, st, c) ==
    LET remaining == budget - st.used - (c.header + Reserve)
        text == IF c.text > remaining THEN remaining + Marker ELSE c.text
    IN IF st.stop \/ remaining <= Useful THEN [st EXCEPT !.stop = TRUE]
       ELSE [used |-> st.used + c.header + Fence + text, stop |-> FALSE,
             blocks |-> Append(st.blocks, [whole |-> c.text <= remaining])]

_format_chunks_block(budget, chunks, title) ==
    FoldLeft(LAMBDA st, c : AddBlock(budget, st, c), [used |-> title, stop |-> FALSE, blocks |-> <<>>],
             chunks)

(* A message's content is a list of parts: a text, "" where it is empty, or  *)
(* an image; a plain string is a list of one text.                           *)
Image == "image"

TextsOf(msg) == {j \in DOMAIN msg.content : msg.content[j] # Image}

(* _last_user_query: the first text of the last user message that has texts, *)
(* an empty one included.                                                    *)
_last_user_query(messages) ==
    LET users == {k \in DOMAIN messages : messages[k].role = "user" /\ TextsOf(messages[k]) # {}}
        last == messages[Highest(users)]
    IN IF users = {} THEN "" ELSE last.content[Lowest(TextsOf(last))]

(* _splice_into_messages: before the first system message's text, or in a    *)
(* message of its own.                                                       *)
_splice_into_messages(messages, block) ==
    LET system == {i \in DOMAIN messages : messages[i].role = "system"}
    IN IF system = {} THEN <<[role |-> "system", content |-> block]>> \o messages
       ELSE [messages EXCEPT ![Lowest(system)].content = block \o @]

(* _retrieve_for_messages: nothing without a scope and a query, nor when the *)
(* index cannot be built ("error") or has no embeddings ("empty").           *)
_retrieve_for_messages(messages, scope, index, chunks) ==
    IF scope /\ _last_user_query(messages) # "" /\ index = "ready" THEN chunks ELSE <<>>

proxy_chat_completions(messages, scope, index, chunks) ==
    LET got == _retrieve_for_messages(messages, scope, index, chunks)
    IN IF got = <<>> THEN messages ELSE _splice_into_messages(messages, got)
=============================================================================
