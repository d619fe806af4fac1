----------------------------- MODULE Algorithms -----------------------------
(***************************************************************************)
(* The functions of the system, called one at a time: a state is a call,    *)
(* and the properties are about what the modelled functions return for it.  *)
(* Which calls are made is up to the constants; what a caller may pass is    *)
(* assumed of them.                                                         *)
(***************************************************************************)
EXTENDS McpTools, Chunking, PathRules, Retention, Configuration, PackRegistry

CONSTANTS
    Ids,            \* the chunks searches rank
    ProjectNames,   \* what a project may be called
    Searches, Routes, Texts, Retrievals, Splices, Walks, Evictions, Configurations, PackScans
                    \* the calls made, by what they are of

VARIABLE call       \* the call made, or NoCall

NoCall == [kind |-> "none"]

AlgInit == call = NoCall

Make(calls) == call = NoCall /\ call' \in calls

Search == Make(Searches)
Route == Make(Routes)
ChunkText == Make(Texts)
Retrieve == Make(Retrievals)
Splice == Make(Splices)
ListFiles == Make(Walks)
Discard == Make(Evictions)
Configure == Make(Configurations)
ScanPacks == Make(PackScans)

AlgNext ==
    \/ Search \/ Route \/ ChunkText \/ Retrieve \/ Splice \/ ListFiles \/ Discard \/ Configure
    \/ ScanPacks

AlgSpec == AlgInit /\ [][AlgNext]_call

(* What the calls are of. *)
ASSUME KindsAssumption ==
    /\ \A c \in Searches : c.kind = "search"
    /\ \A c \in Routes : c.kind = "route"
    /\ \A c \in Texts : c.kind \in {"chars", "lines"}
    /\ \A c \in Retrievals : c.kind \in {"query", "candidates", "encode"}
    /\ \A c \in Splices : c.kind \in {"block", "splice"}
    /\ \A c \in Walks : c.kind \in {"walk", "learn"}
    /\ \A c \in Evictions : c.kind \in {"evict", "clean"}
    /\ \A c \in Configurations : c.kind \in {"load", "reload", "init"}
    /\ \A c \in PackScans : c.kind = "packs"

-----------------------------------------------------------------------------
(* Searches *)

Rankings == {s \in Seq(Ids) : Len(s) <= TopN /\ \A i, j \in DOMAIN s : s[i] = s[j] => i = j}

SearchRecords ==
    [kind : {"search"}, lex : Seq(Seq(Ids)), dense : Seq(Seq(Ids)), weights : [bm25 : Nat, dense : Nat],
     suppress : SUBSET Ids, max_results : Nat \ {0}, max_tokens : Nat, dedup : BOOLEAN, floor : Nat,
     exists : SUBSET Ids, code_signal : BOOLEAN, auto_policy : BOOLEAN, default_floor : Nat,
     tokens : [Ids -> Nat], root : [Ids -> Nat], cosine : [Ids -> Int], boost : [Ids -> Int]]

(* Each ranker lists a chunk once, and no more than TopN of them. *)
IsSearch(c) == c \in SearchRecords /\ \A s \in Range(c.lex \o c.dense) : s \in Rankings

ASSUME SearchesAssumption ==
    /\ Ids \subseteq Nat /\ IsFiniteSet(Ids)
    /\ \A c \in Searches : IsSearch(c)

Ranked == _rrf_fuse(call.lex, call.dense, call.weights)
At(s, x) == CHOOSE i \in DOMAIN s : s[i] = x

(* _rrf_fuse: when both kinds of rankings count, a chunk that every ranking  *)
(* listing another one puts before it stays before it, whatever else the     *)
(* rankings list and miss.                                                   *)
ConsensusFirst ==
    (call.kind = "search" /\ call.weights.bm25 > 0 /\ call.weights.dense > 0) =>
      \A i, j \in Range(Ranked) :
        (i # j /\ \A s \in Range(call.lex \o call.dense) :
                    j \in Range(s) => i \in Range(s) /\ At(s, i) < At(s, j))
          => At(Ranked, i) < At(Ranked, j)

Tokens(s) == FoldLeft(LAMBDA sum, i : sum + call.tokens[i], 0, s)

(* searcher.py: widening the cut by the suppressed ids "guarantees the filter *)
(* never starves the take loop".  With room below TopN and in the budget, a   *)
(* search returns the best max_results of the chunks not shown before, as if  *)
(* the ranking had never been cut.                                            *)
SuppressNeverStarves ==
    call.kind = "search" =>
      LET c == [call EXCEPT !.max_tokens = Tokens(Ranked), !.dedup = FALSE, !.floor = 0,
                            !.exists = Ids, !.code_signal = FALSE]
          rest == Among(Ranked, Ids \ c.suppress)
      IN c.max_results + Cardinality(c.suppress) <= TopN => search(c) = Take(rest, c.max_results)

FirstOfRoots(ok) ==
    Picked(ok, {k \in DOMAIN ok : ~call.dedup \/ \A m \in 1 .. k - 1 :
                                     call.root[ok[m]] # call.root[ok[k]]})

(* The chunks of the cut list that may be returned, in its order. *)
Eligible == FirstOfRoots(Among(ranked_chunks(call), Ids \ call.suppress))

LongestPrefix(r, eligible) ==
    LET full == Len(r) \in {Len(eligible), call.max_results}
    IN /\ IsPrefix(r, eligible) /\ Len(r) <= call.max_results
       /\ eligible # <<>> => r # <<>>
       /\ Len(r) <= 1 \/ Tokens(r) <= call.max_tokens
       /\ full \/ Tokens(SubSeq(eligible, 1, Len(r) + 1)) > call.max_tokens

(* The take loop of search: the result is the longest run of eligible chunks  *)
(* from the best on that respects max_results and max_tokens, but never empty *)
(* when one is eligible and the floor is met.                                 *)
TakesLongestPrefix ==
    (call.kind = "search" /\ ~no_relevant_results(call)) => LongestPrefix(search(call), Eligible)

ShownOnce(groups) ==
    /\ Range(groups[1]) \cap Range(groups[2]) = {}
    /\ \A g \in Range(groups) : Range(g) \cap call.suppress = {}

(* searcher.py, search_multi: "the agent never sees the same chunk twice      *)
(* across sub-queries in a single multi-search call", nor one it suppressed.  *)
MultiShowsOnce ==
    call.kind = "search" => ShownOnce(search_multi(<<call, [call EXCEPT !.lex = call.dense, !.dense = call.lex]>>))

RepeatedThenNew(answers) ==
    answers[2] = answers[1] /\ Range(answers[3]) \cap Range(answers[2]) = {}

(* A session that asks the same again and follows the suppress hint of       *)
(* _build_suggested_followup: the first answer hints at nothing, the second  *)
(* repeats it, and the third shows chunks of neither.                        *)
HintsShowNew ==
    (call.kind = "search" /\ call.suppress = {}) => RepeatedThenNew(Dialogue(call, "medium", 3))

(* What search returns, search_multi and the tool handler over it: the best  *)
(* chunks that fit, no agreed order inverted, nothing starved or shown       *)
(* twice, nothing more cut by the handler's own trimming, and hints that     *)
(* lead to new chunks.                                                       *)
SearchTakesBest ==
    /\ ConsensusFirst /\ SuppressNeverStarves /\ TakesLongestPrefix /\ MultiShowsOnce /\ HintsShowNew
    /\ call.kind = "search" => _handle_search_codebase(call) = search(call)

-----------------------------------------------------------------------------
(* Routes: a query's names, where it comes from and what is indexed. *)

IsRoute(c) ==
    /\ c.cued \subseteq ProjectNames /\ c.bare \subseteq ProjectNames
    /\ c.project \in ProjectNames \cup {NoProject} /\ c.sticky \in ProjectNames \cup {NoProject}
    /\ c.identifier \in BOOLEAN /\ c.natural \in BOOLEAN
    /\ c.words \in Nat /\ c.chars \in Nat /\ c.chunks \in Nat
    /\ c.cwd \in Seq(STRING) \cup {NoCwd}
    /\ c.indexed \in Seq(ProjectNames)
    /\ DOMAIN c.roots \subseteq ProjectNames /\ \A n \in DOMAIN c.roots : c.roots[n] \in Seq(STRING)

ASSUME RoutesAssumption ==
    /\ NoProject \notin ProjectNames /\ NoCwd \notin Seq(STRING)
    /\ \A c \in Routes : IsRoute(c)

Routed(c, indexed) == decide_scope(c, c.cwd, c.project, c.sticky, indexed, c.roots)

(* The names a search of c could be routed by. *)
Heard(c) ==
    c.cued \cup c.bare \cup DOMAIN c.roots \cup (IF c.cwd = NoCwd THEN {} ELSE Range(c.cwd))

Policy(c) == _resolve_policy([bm25 |-> 1, dense |-> 1], c, TRUE, c.chunks)

(* decide_scope and _resolve_policy: a search leaves the index only for a    *)
(* project it was told; a word of the query that is also a project's name    *)
(* takes over only with a cue; indexing one more project the query does not  *)
(* mention changes nothing for a search that had a primary; of nested roots  *)
(* the inner one is meant; and a query with an identifier keeps the lexical  *)
(* ranking in an index of any size.                                          *)
RoutesAsMeant ==
    call.kind = "route" =>
      LET d == Routed(call, call.indexed)
          told == {call.project, call.sticky} \ {NoProject}
          filter == _scope_to_filter(d)
      IN /\ filter.projects \subseteq Range(call.indexed) \cup told
         /\ filter.all => call.indexed = <<>> /\ told = {}
         /\ call.project # NoProject => filter.projects = {call.project}
         /\ (d.primary \in CommonNames /\ d.source = "cross_project_pattern") => d.primary \in call.cued
         /\ d.primary # NoProject =>
              \A n \in ProjectNames \ Heard(call) : Routed(call, <<n>> \o call.indexed) = d
         /\ (d.source = "cwd_walk_to_sentinel" /\ call.cwd # NoCwd) =>
              \A n \in Range(call.indexed) \cap DOMAIN call.roots :
                IsPrefix(call.roots[n], call.cwd) => IsPrefix(call.roots[n], call.roots[d.primary])
         /\ call.identifier => Policy(call).bm25 > 0 /\ Policy(call).dense > 0

-----------------------------------------------------------------------------
(* Texts *)

(* Chunks hold something; what a parser finds lies within the text. *)
IsText(c) ==
    LET d == c.doc
    IN /\ d.n \in Nat /\ d.size \in Nat \ {0} /\ d.overlap \in Nat
       /\ c.kind = "chars" => d.slack \in Nat /\ d.ends \subseteq Nat
       /\ c.kind = "lines" => d.blank \subseteq 1 .. d.n /\ d.defs \in Seq([from : 1 .. d.n, to : 1 .. d.n])
                             /\ \A k \in DOMAIN d.defs : d.defs[k].from <= d.defs[k].to

ASSUME TextsAssumption == \A c \in Texts : IsText(c)

(* Chunker: with less slack than a chunk has characters, every character is  *)
(* in a chunk, no chunk is empty, longer than asked or inside an earlier     *)
(* one, and over several documents the positions are those of the list.      *)
CharsCovered(d) ==
    LET cs == _chunk_char_proxy(d)
        many == chunk_many(<<d, d>>)
    IN d.slack < d.size =>
         /\ UNION {c.from .. c.to - 1 : c \in Range(cs)} = 0 .. d.n - 1
         /\ \A k \in DOMAIN cs : cs[k].from < cs[k].to /\ cs[k].to - cs[k].from <= d.size
         /\ \A k \in 2 .. Len(cs) : cs[k - 1].from < cs[k].from /\ cs[k - 1].to <= cs[k].to
         /\ \A k \in DOMAIN many : many[k].position = k - 1

(* Paragraphs that are cut into windows are numbered from 1 (_chunk_lines),  *)
(* whatever their place in the file.                                         *)
LongParagraphs(d) ==
    IF d.type # "prose" THEN {}
    ELSE {p \in Range(Paragraphs(d)) : p.to - p.from + 1 > d.size}

(* chunk_text: every line that is not blank is in a chunk, no chunk has more *)
(* lines of text than asked, and the line numbers a chunk claims enclose     *)
(* what it holds (long paragraphs apart).  retrieve_chunked's own cutting    *)
(* leaves out no character.                                                  *)
LinesCovered(d) ==
    LET cs == chunk_text(d)
    IN /\ 1 .. d.n \ d.blank \subseteq UNION {c.held : c \in Range(cs)}
       /\ \A c \in Range(cs) : Cardinality(c.held) <= d.size
       /\ LongParagraphs(d) = {} =>
            \A c \in Range(cs) : c.held \subseteq c.first .. c.last /\ c.last <= Greatest(1, d.n)
       /\ UNION {c.held : c \in Range(SplitCandidate(d.n, d.size, d.overlap))} = 0 .. d.n - 1

(* The chunkers of longctx.rag and longctx-svc lose no text. *)
TextIsCovered ==
    /\ call.kind = "chars" => CharsCovered(call.doc)
    /\ call.kind = "lines" => LinesCovered(call.doc)

-----------------------------------------------------------------------------
(* Retrievals and splices *)

(* An index of any size with a score for every chunk and paraphrase; chunks  *)
(* with parents and scores; texts; headers and texts of chunks, and          *)
(* conversations that have no block yet.                                     *)
ScoresOf(n) == [1 .. n -> Nat]

IsQuery(q) ==
    /\ q = [chunks |-> q.chunks, cos |-> q.cos, bm25 |-> q.bm25, multi_query |-> q.multi_query,
            multiquery_min |-> q.multiquery_min, coarse |-> q.coarse, coarse_min |-> q.coarse_min,
            prefilter |-> q.prefilter, augment |-> q.augment, code_signal |-> q.code_signal,
            type |-> q.type, defines |-> q.defines, rerank |-> q.rerank, rerank_min |-> q.rerank_min,
            cross |-> q.cross, top_k |-> q.top_k]
    /\ q.chunks \in Nat /\ q.prefilter \in Nat /\ q.top_k \in Nat
    /\ q.cos \in Seq(ScoresOf(q.chunks)) /\ q.bm25 \in Seq(ScoresOf(q.chunks)) /\ q.cross \in ScoresOf(q.chunks)
    /\ Len(q.cos) > 0 /\ Len(q.bm25) = Len(q.cos)

IsInput(p) ==
    /\ p.chunks \in Nat /\ p.parents \in Nat /\ p.top_k \in Nat /\ p.coarse_top_n \in Nat
    /\ p.bm25 \in ScoresOf(p.chunks) /\ p.sim \in ScoresOf(p.chunks) /\ p.parent \in [1 .. p.chunks -> 1 .. p.parents]

ASSUME RetrievalsAssumption ==
    \A c \in Retrievals : /\ c.kind = "query" => IsQuery(c.q)
                          /\ c.kind = "candidates" => IsInput(c.p)
                          /\ c.kind = "encode" => c.texts \in Seq(Nat) /\ c.cached \subseteq Nat

ASSUME SplicesAssumption ==
    \A c \in Splices :
      /\ c.kind = "block" => c.budget \in Nat /\ c.chunks \in Seq([header : Nat, text : Nat])
      /\ c.kind = "splice" =>
           /\ c.messages \in Seq([role : STRING, content : Seq(STRING \ {"b"})])
           /\ c.scope \in BOOLEAN /\ c.index \in {"ready", "empty", "error"}
           /\ c.chunks \in {<<>>, <<"b">>}

DefiningBeforeDocs(q, r) ==
    \A k \in DOMAIN r : q.type[r[k]] = "doc" =>
      \A i \in 1 .. q.chunks : q.defines[i] /\ q.type[i] = "py" => i \in Range(SubSeq(r, 1, k - 1))

(* retrieve: a query that names code is not answered with a document while a *)
(* source file that defines the symbol is left out or ranked lower, even if  *)
(* the prefilter cut that file.                                              *)
DefinitionsFirst(q) ==
    (q.augment /\ q.code_signal /\ ~q.rerank) => DefiningBeforeDocs(q, retrieve(q))

(* The same index as another scope, its scores a little higher. *)
Other(q) == [q EXCEPT !.cos = [p \in DOMAIN @ |-> [i \in 1 .. q.chunks |-> @[p][i] + 5]]]

BestOf(got, all, top_k) ==
    /\ Range(got) \subseteq all
    /\ Len(got) = Least(top_k, Cardinality(all)) /\ Cardinality(Range(got)) = Len(got)
    /\ \A p \in Range(got), r \in all \ Range(got) : p.score >= r.score

AllOf(qs) ==
    {[scope |-> e[1], chunk |-> e[2], score |-> MaxSims(qs[e[1]])[e[2]]] : e \in (1 .. 2) \X (1 .. qs[1].chunks)}

(* retrieve_multi: over two scopes, the top_k are those of all their chunks  *)
(* together, when nothing but the cosine ranks them.                         *)
MultiIsGlobal(q) ==
    LET plain == [q EXCEPT !.coarse = FALSE, !.augment = FALSE, !.rerank = FALSE, !.prefilter = q.chunks]
        qs == <<plain, Other(plain)>>
    IN BestOf(retrieve_multi(qs, q.top_k), AllOf(qs), q.top_k)

(* retrieve_chunked: as many parents as asked, each once, and none left out  *)
(* has a kept chunk nearer to the query than every kept chunk of one that is *)
(* returned; the input's order is kept when asked for.                       *)
BestParentsWin(p) ==
    LET r == retrieve_chunked(p)
        scores(x) == {p.sim[i] : i \in {j \in Kept(p) : p.parent[j] = x}}
    IN /\ Len(r) = Least(p.top_k, p.parents) /\ IsInjective(r)
       /\ \A x \in Range(r), y \in 1..p.parents \ Range(r) : \A b \in scores(y) :
            \E a \in scores(x) : a >= b
       /\ p.preserve_order => \A k \in 2..Len(r) : r[k - 1] < r[k]

(* encode_with_cache: whatever part of a batch is cached, each text gets its *)
(* own embedding (here, itself).                                             *)
EachItsOwn(c) == encode_with_cache(c.texts, [t \in c.cached |-> t]) = c.texts

Title == 40

(* _format_chunks_block: the block exceeds splice_max_chars by no more than  *)
(* the mark of the truncation (or is just its title), and only its last      *)
(* chunk may be truncated.                                                   *)
BlockBounded(c) ==
    LET b == _format_chunks_block(c.budget, c.chunks, Title)
    IN /\ b.used <= Greatest(c.budget + Marker - 1, Title)
       /\ \A k \in 1 .. Len(b.blocks) - 1 : b.blocks[k].whole

(* The user's last words: a text that is not empty, the first of its message *)
(* and not followed by another user message with a text, even an empty one.  *)
Asks(messages) ==
    \E k \in DOMAIN messages :
      /\ messages[k].role = "user"
      /\ \E j \in DOMAIN messages[k].content :
           /\ messages[k].content[j] \notin {Image, ""}
           /\ \A i \in 1 .. j - 1 : messages[k].content[i] = Image
      /\ \A l \in DOMAIN messages : (l > k /\ messages[l].role = "user") =>
           \A i \in DOMAIN messages[l].content : messages[l].content[i] = Image

(* proxy_chat_completions: whatever the conversation, its messages reach the *)
(* backend in order and whole, the block at most once, before them all or in *)
(* front of the first system message; it is there when the user's last words *)
(* ask for something and there are chunks to answer it.                      *)
ConversationKept(c) ==
    LET out == proxy_chat_completions(c.messages, c.scope, c.index, c.chunks)
        old(x) == Among(x.content, Range(x.content) \ {"b"})
        bare == [k \in DOMAIN out |-> [role |-> out[k].role, content |-> old(out[k])]]
        sent == [k \in DOMAIN c.messages |-> [role |-> c.messages[k].role,
                                              content |-> c.messages[k].content]]
        spliced == {k \in DOMAIN out : "b" \in Range(out[k].content)}
    IN /\ bare = sent \/ (bare = <<[role |-> "system", content |-> <<>>]>> \o sent /\ spliced = {1})
       /\ Cardinality(spliced) <= 1
       /\ \A k \in spliced : out[k].role = "system" /\ out[k].content[1] = "b"
       /\ (spliced # {}) <=> (c.scope /\ c.index = "ready" /\ c.chunks # <<>> /\ Asks(c.messages))

(* The retrieval pipelines return what their scores say is best, and the     *)
(* proxy adds one bounded block of it to a conversation or leaves it alone.  *)
RetrievalIsExact ==
    /\ call.kind = "query" => DefinitionsFirst(call.q) /\ MultiIsGlobal(call.q)
    /\ call.kind = "candidates" => BestParentsWin(call.p)
    /\ call.kind = "encode" => EachItsOwn(call)
    /\ call.kind = "block" => BlockBounded(call)
    /\ call.kind = "splice" => ConversationKept(call)

-----------------------------------------------------------------------------
(* Walks *)

Root == <<"r">>

(* The files a walk of the root may take: not bad, not ignored from the root *)
(* down, and reached through directories that are not skipped.               *)
Allowed(t) ==
    {f \in {"f1", "f2", "f3", "f4", "f5"} : \E d \in DOMAIN t.files :
       /\ f \in Range(t.files[d]) /\ Under(d, Root) /\ f \notin t.bad
       /\ \A s \in t.skip : ~Under(d, s)
       /\ \A g \in DOMAIN t.files : Under(d, g) => f \notin t.ignores[g]}

(* walk_package_scope: below its cap the walk takes all files it may and no  *)
(* others; at the cap, that many of them.                                    *)
PackageComplete(c) ==
    LET w == walk_package_scope(c.tree, Root, c.cap)
    IN /\ Range(w) \subseteq Allowed(c.tree)
       /\ Len(w) = Cardinality(Range(w))
       /\ Len(w) = IF c.cap < Cardinality(Allowed(c.tree)) THEN c.cap ELSE Cardinality(Allowed(c.tree))

(* walk_hot_scope: no file twice, and every mentioned file of the root.  The  *)
(* cap bounds what the walks add, not the mentioned files themselves, and the *)
(* siblings of a mentioned file are taken wherever it is: beyond the cap      *)
(* there are mentioned files alone, outside the root siblings of mentioned    *)
(* ones alone.  (Its docstring caps all files, and takes mentions in the root *)
(* only.)                                                                     *)
HotBounded(c) ==
    LET w == walk_hot_scope(c.tree, Root, c.mentioned, c.cap)
        named == {m \in Range(c.mentioned) : m.isFile}
        outside == {f \in Range(w) : \A d \in DOMAIN c.tree.files :
                      f \in Range(c.tree.files[d]) => ~Under(d, Root)}
    IN /\ Len(w) = Cardinality(Range(w))
       /\ {m.file : m \in {n \in named : Under(n.dir, Root)}} \subseteq Range(w)
       /\ \A k \in DOMAIN w : k > c.cap => w[k] \in {m.file : m \in named}
       /\ \A f \in outside : \E m \in named : ~Under(m.dir, Root) /\ f \in Range(c.tree.files[m.dir])

(* resolve_repo_root: what is learned exists, encloses the directory asked   *)
(* about, and is not a forbidden place; it is the nearest repository unless  *)
(* there is none or that one is forbidden.                                   *)
LearnsAllowedRoot(c) ==
    LET root == resolve_repo_root(c.rules, c.cwd)
    IN root # NoRoot =>
         /\ Under(c.cwd, root) /\ ~is_forbidden_parent(c.rules, root)
         /\ c.cwd \in c.rules.exists
         /\ \A g \in c.rules.git : Under(c.cwd, g) => Under(root, g) /\ root \in c.rules.git

(* The package walk and the learning of roots stay within what they are      *)
(* allowed, the hot walk within what HotBounded says.                        *)
ScopesStayInBounds ==
    /\ call.kind = "walk" => PackageComplete(call) /\ HotBounded(call)
    /\ call.kind = "learn" => LearnsAllowedRoot(call)

-----------------------------------------------------------------------------
(* Evictions: projects are numbered in the order of their names. *)

Caches ==
    [projects : SUBSET [name : Nat, bytes : Nat, scanned : Nat, session : BOOLEAN, missing : BOOLEAN],
     size : Nat, budget : Nat, pinned : SUBSET Nat, queried : Seq(Nat), now : Nat, max_age : Nat]

(* No two projects have the same name. *)
IsCache(b) ==
    /\ b \in Caches /\ IsFiniteSet(b.projects)
    /\ \A p, q \in b.projects : p.name \in DOMAIN b.queried /\ (p.name = q.name => p = q)

Flags == [idle : BOOLEAN, orphans : BOOLEAN, missing : BOOLEAN, replay : BOOLEAN,
          budget : BOOLEAN, all : BOOLEAN, yes : BOOLEAN]

ASSUME EvictionsAssumption ==
    \A c \in Evictions : IsCache(c.b) /\ (c.kind = "clean" => c.args \in Flags)

Freed(ps) == FoldLeft(LAMBDA sum, p : sum + p.bytes, 0, ps)

(* plan_eviction: nothing goes while the cache is within its budget; when it *)
(* is not, pinned projects stay, no project goes before one used less        *)
(* recently, the cache fits or nothing that may go is left, and without the  *)
(* last one it would not have fitted.                                        *)
EvictionIsMinimal(b) ==
    LET plan == plan_eviction(b)
        gone == Range(plan)
        may == {p \in b.projects : p.name \notin b.pinned /\ p.bytes > 0}
    IN /\ gone \subseteq may
       /\ (b.budget = 0 \/ b.size <= b.budget) => gone = {}
       /\ \A p \in gone, q \in may \ gone : LastUse(b, p) <= LastUse(b, q)
       /\ b.budget > 0 => (b.size - Freed(plan) <= b.budget \/ gone = may)
       /\ plan # <<>> => b.size - Freed(Front(plan)) > b.budget
       /\ execute_eviction(b, {}) = b.projects \ gone

(* cmd_clean removes only what some filter it was given proposes, nothing at *)
(* all without --yes, and a project neither idle, bound, missing nor over    *)
(* budget never.  (--disk-budget alone is no filter: see                     *)
(* CleanEvictsToBudget.)                                                     *)
CleanAsAsked(b, args) ==
    LET gone == b.projects \ Cleaned(b, args)
    IN /\ gone # {} => args.yes /\ (args.all \/ Filters(args))
       /\ \A p \in gone : \/ p.session /\ (args.orphans \/ args.all)
                          \/ p.missing /\ (args.missing \/ args.all)
                          \/ p \in Idle(b, b.max_age) /\ (args.idle \/ args.all)
                          \/ args.budget /\ b.budget > 0 /\ b.size > b.budget

(* What the help of `longctx clean --disk-budget` says: "oldest-queried       *)
(* projects evict first until under budget".                                 *)
CleanEvictsToBudget ==
    (call.kind = "clean" /\ call.args.yes /\ call.args.budget /\ call.b.budget > 0) =>
        LET left == Cleaned(call.b, call.args)
            gone == SetToSeq(call.b.projects \ left)
        IN call.b.size - Freed(gone) <= call.b.budget \/ \A p \in left : p.bytes = 0

(* Eviction and clean take the least recently used first, and only what they *)
(* were asked to.                                                            *)
EvictsLeastRecent ==
    /\ call.kind = "evict" => EvictionIsMinimal(call.b)
    /\ call.kind = "clean" => CleanAsAsked(call.b, call.args)

-----------------------------------------------------------------------------
(* Configurations and packs *)

NoEnv == [v \in {} |-> <<>>]

(* Projects have names, floors are percentages, and what an answer toggles   *)
(* is on the list shown.                                                     *)
ASSUME ConfigurationsAssumption ==
    \A c \in Configurations :
      /\ c.kind = "load" =>
           /\ c.floor \in 0 .. 100
           /\ "project_floors" \in DOMAIN c.file.fields => "" \notin DOMAIN c.file.fields.project_floors
      /\ c.kind = "init" =>
           /\ c.picks \in Seq([kind : {"all", "none", "toggle", "quit"}, names : SUBSET STRING])
           /\ c.found # {} => \A i \in DOMAIN c.picks : c.picks[i].names \subseteq Names(c.found)

(* reconcile: a second reload of the same configuration changes nothing, and *)
(* what is indexed is what was found, was asked for and is not denied.       *)
ReloadSettles(c) ==
    LET loaded == load_config(c.file, NoEnv)
        cfg == loaded.cfg
        once == reconcile(cfg, c.found, c.indexed)
    IN loaded.ok =>
         /\ reconcile(cfg, c.found, once) = once
         /\ once \subseteq Names(c.found) /\ once \cap cfg.exclude \cap Deny(cfg, c.found) = {}
         /\ \A d \in c.found : (~d.ignored /\ d.name \notin Deny(cfg, c.found)) => d.name \in once
         /\ \A d \in c.found : (d.name \in Deny(cfg, c.found)) => d.name \notin once

(* _persist_floor_to_config: calibrate leaves a file that, where it is read   *)
(* again, differs from before in its floor alone and makes that the floor of  *)
(* the project's searches.  What the environment overrode becomes part of     *)
(* the file; no other field of the file does.                                 *)
CalibrateKeepsRest(c) ==
    LET before == load_config(c.file, c.env)
        file == _persist_floor_to_config(c.file, c.env, c.project, c.floor)
        after == load_config(file, c.env)
        rest == {f \in DOMAIN default_config : f \notin {"relevance_floor", "project_floors"}}
        prior == IF c.file.exists THEN Over(c.file.fields, default_config) ELSE default_config
    IN before.ok =>
         /\ after.ok /\ \A f \in rest : after.cfg[f] = before.cfg[f]
         /\ \A p \in DOMAIN before.cfg.project_floors : p # c.project =>
              after.cfg.project_floors[p] = before.cfg.project_floors[p]
         /\ SearchFloor(file, c.env, c.project) = c.floor
         /\ \A f \in rest \ DOMAIN c.env : file.fields[f] = prior[f]

(* _cmd_init: projects picked are, after a load, those a fresh index adds,   *)
(* and a file that is there is not overwritten unasked.                      *)
InitAsPicked(c) ==
    LET file == _cmd_init(c.args, c.found, c.picks, c.file)
        cfg == load_config(file, NoEnv).cfg
        picked == _interactive_pick_projects(c.found, c.picks)
        ignored == {d.name : d \in {e \in c.found : e.ignored}}
    IN /\ (c.file.exists /\ ~c.args.force) => file = c.file
       /\ (~c.file.exists /\ file.exists /\ c.args.interactive /\ c.args.auto_discover /\ c.found # {}
            /\ picked \cap ignored = {})
            => projects_to_add(cfg, c.found, {}) = picked

Directories ==
    [path : Nat, base : STRING \ {""}, corpus : STRING, under : BOOLEAN, valid : BOOLEAN, chunks : Nat]

Commands ==
    [op : {"register"}, dir : Directories, name : STRING, dedup : {"auto", "yes", "no"}]
    \cup [op : {"unregister", "mark_used", "refresh"}, name : STRING]

ASSUME PackScansAssumption ==
    \A c \in PackScans :
      /\ c.disk \in Seq(Directories) /\ c.ops \in Seq(Commands)
      /\ c.root \/ \A i \in DOMAIN c.disk : ~c.disk[i].under

Run(packs, disk, o) ==
    CASE o.op = "register" -> register(packs, o.dir, o.name, o.dedup)
      [] o.op = "unregister" -> unregister(packs, o.name)
      [] o.op = "mark_used" -> mark_used(packs, o.name, 7)
      [] OTHER -> refresh(packs, disk, o.name)

(* PackRegistry.scan, with pruning, after any commands of the user: a        *)
(* candidate below the root whose name may be and no other one has is        *)
(* registered as it is there; nothing registered is gone from disk; what is  *)
(* there and no candidate has the name of stays as it was, as does all if    *)
(* the root is missing; a second scan changes nothing; and when a pack was   *)
(* last used is not forgotten.                                               *)
ScanSettles(c) ==
    LET before == FoldLeft(LAMBDA packs, o : Run(packs, c.disk, o), NoPacks, c.ops)
        packs == scan(before, c.disk, c.root, TRUE)
        found == {d \in Range(c.disk) : d.under /\ Accepted(d, "")}
        named(n) == {d \in found : ResolvedName(d, "") = n}
    IN IF ~c.root THEN packs = before
       ELSE /\ \A d \in found : LET n == ResolvedName(d, "")
                                IN /\ n \in DOMAIN packs
                                   /\ named(n) = {d} =>
                                        packs[n].path = d.path /\ packs[n].chunks = d.chunks
            /\ \A n \in DOMAIN packs : \E d \in Range(c.disk) : d.path = packs[n].path
            /\ \A n \in DOMAIN before :
                 named(n) = {} /\ (\E d \in Range(c.disk) : d.path = before[n].path)
                   => n \in DOMAIN packs /\ packs[n] = before[n]
            /\ scan(packs, c.disk, TRUE, TRUE) = packs
            /\ \A n \in DOMAIN packs \cap DOMAIN before : packs[n].used = before[n].used
            /\ \A n \in DOMAIN packs : refresh(packs, c.disk, n)[n].path = packs[n].path

(* Configurations and the pack registry settle on what is on disk and asked  *)
(* for, and the commands that write them change only their part.             *)
SettlesOnDisk ==
    /\ call.kind = "reload" => ReloadSettles(call)
    /\ call.kind = "load" => CalibrateKeepsRest(call)
    /\ call.kind = "init" => InitAsPicked(call)
    /\ call.kind = "packs" => ScanSettles(call)
=============================================================================
