------------------------------- MODULE MCText -------------------------------
(***************************************************************************)
(* Calls of the functions of Chunking and Retrieval.                        *)
(***************************************************************************)
EXTENDS Integers, Sequences, FiniteSets, SequencesExt

CONSTANTS
    MaxText,    \* bound: characters, or lines, of a text
    MaxChunk    \* bound: characters, or lines, of a chunk

Permutations3 == {s \in [1..3 -> 1..3] : Range(s) = 1..3}

-----------------------------------------------------------------------------
(* Texts *)

CharDocs == UNION {UNION {[n : {n}, ends : SUBSET (2..n), size : {k}, overlap : 0..k - 1, slack : {0, 3}] :
                            k \in 1..MaxChunk} : n \in 0..MaxText}

(* The definitions a parser may find: none, one, or two that leave a gap. *)
Definitions(n) ==
    {<<>>} \cup {<<[from |-> a, to |-> b]>> : a \in 1..n, b \in {x \in 1..n : x > 1}}
    \cup (IF n < 4 THEN {} ELSE {<<[from |-> 1, to |-> 2], [from |-> 4, to |-> n]>>})

LineDocs ==
    UNION {UNION {[n : {n}, blank : SUBSET (1..n), size : {k}, overlap : 0..k, parser : BOOLEAN,
                   type : {"prose", "config", "code"},
                   defs : {d \in Definitions(n) : \A i \in DOMAIN d : d[i].from <= d[i].to}] :
                     k \in 1..MaxChunk} : n \in 0..MaxText}

TextCalls ==
    {[kind |-> "chars", doc |-> d] : d \in CharDocs}
    \cup {[kind |-> "lines", doc |-> d] :
            d \in {e \in LineDocs : e.type # "code" => (e.defs = <<>> /\ ~e.parser)}}

-----------------------------------------------------------------------------
(* Queries: three chunks; the scores differ in every way, or some are equal. *)

Orders3 == Permutations3 \cup {<<1, 1, 2>>}

Scored(order, unit, offset) == [i \in 1..3 |-> unit * order[i] + offset]

Types == {<<"py", "doc", "test">>, <<"doc", "other", "py">>, <<"doc", "doc", "doc">>}
Defining == {<<FALSE, FALSE, TRUE>>, <<TRUE, FALSE, TRUE>>, <<FALSE, FALSE, FALSE>>}

Queries ==
    {[chunks |-> 3, cos |-> <<Scored(<<3, 2, 1>>, 20, 0), Scored(s, 20, 10)>>,
      bm25 |-> <<Scored(b, 1, 0), <<0, 3, 0>>>>,
      multi_query |-> x.multi, multiquery_min |-> 2, coarse |-> x.coarse, coarse_min |-> 3,
      prefilter |-> x.prefilter, augment |-> x.augment, code_signal |-> x.signal, type |-> t,
      defines |-> [i \in 1..3 |-> x.signal /\ d[i]], rerank |-> x.rerank, rerank_min |-> 3,
      cross |-> Scored(b, 1, 0), top_k |-> x.top_k] :
        s \in Orders3, b \in Orders3, t \in Types, d \in Defining,
        x \in [multi : BOOLEAN, coarse : BOOLEAN, augment : BOOLEAN, signal : BOOLEAN,
               rerank : BOOLEAN, prefilter : {1, 3}, top_k : 1..2]}

(* Two chunks of one parent and one of another, or three parents. *)
Parents == {<<1, 1, 2>>, <<1, 2, 2>>, <<1, 2, 3>>}

Candidates ==
    {[chunks |-> 3, huge |-> h, coarse_top_n |-> n, bm25 |-> Scored(b, 1, 0), sim |-> Scored(s, 1, 0),
      parent |-> p, parents |-> 3, top_k |-> k, preserve_order |-> o] :
        h \in BOOLEAN, n \in 1..2, b \in Orders3, s \in Orders3, p \in Parents,
        k \in 1..3, o \in BOOLEAN}

RetrievalCalls ==
    {[kind |-> "query", q |-> q] : q \in Queries}
    \cup {[kind |-> "candidates", p |-> p] : p \in Candidates}
    \cup {[kind |-> "encode", texts |-> t, cached |-> c] :
            t \in UNION {[1..n -> 1..3] : n \in 0..3}, c \in SUBSET (1..3)}

-----------------------------------------------------------------------------
(* Splices *)

Sizes == [header : {20}, text : {100, 400, 900}]
Contents == {<<>>, <<"">>, <<"m">>, <<"image">>, <<"image", "m">>, <<"", "m">>}
Messages == [role : {"system"}, content : {<<>>, <<"m">>}] \cup [role : {"user"}, content : Contents]
            \cup [role : {"assistant"}, content : {<<"m">>}]

SpliceCalls ==
    {[kind |-> "block", budget |-> b, chunks |-> c] :
       b \in {0, 300, 800, 1500}, c \in UNION {[1..n -> Sizes] : n \in 0..4}}
    \cup {[kind |-> "splice", messages |-> ms, scope |-> s, index |-> i, chunks |-> c] :
            ms \in UNION {[1..n -> Messages] : n \in 0..3},
            s \in BOOLEAN, i \in {"ready", "error"}, c \in {<<>>, <<"b">>}}

=============================================================================
