------------------------------ MODULE Chunking ------------------------------
(***************************************************************************)
(* How texts are cut into chunks: longctx/rag/chunker.py by characters (the *)
(* daemon's chunker), longctx_svc/indexer/chunker.py by lines and by        *)
(* paragraphs, treesitter_chunker.py by definitions.                        *)
(*                                                                          *)
(* A text is its length and the places the cutting looks at: sentence ends, *)
(* blank lines, rows of definitions.  A chunk by characters is the half     *)
(* open span of offsets it holds; one by lines has the line numbers it      *)
(* claims and the set of lines it really holds.                             *)
(***************************************************************************)
EXTENDS Integers, Sequences, FiniteSets, SequencesExt, Ordering

Least(a, b) == IF a < b THEN a ELSE b
Greatest(a, b) == IF a > b THEN a ELSE b

-----------------------------------------------------------------------------
(* Chunker of longctx.rag; d is the document and the chunker's parameters.   *)

(* _walk_to_sentence_end: the last sentence end within slack before `end`;   *)
(* the match is the terminator and the space after it.                       *)
_walk_to_sentence_end(d, end) ==
    LET lo == Greatest(end - d.slack, 0)
        matches == {p \in d.ends : lo + 2 <= p /\ p <= end}
    IN IF matches = {} THEN end ELSE CHOOSE p \in matches : \A q \in matches : q <= p

CharEnd(d, start) ==
    LET end == Least(start + d.size, d.n) IN IF end < d.n THEN _walk_to_sentence_end(d, end) ELSE end

NextStart(d, start) == Greatest(CharEnd(d, start) - d.overlap, start + 1)

(* _chunk_char_proxy, and _chunk_with_tokenizer, which counts tokens and     *)
(* knows no sentences.                                                       *)
_chunk_char_proxy(d) ==
    LET from[s \in 0 .. d.n] ==
          IF s = d.n THEN <<>> ELSE
          LET piece == [from |-> s, to |-> CharEnd(d, s)]
          IN IF piece.to = d.n THEN <<piece>> ELSE <<piece>> \o from[NextStart(d, s)]
    IN from[0]

(* chunk: each chunk's id is made of its position and its text. *)
Positioned(d, base_position) ==
    LET cs == _chunk_char_proxy(d)
    IN [k \in DOMAIN cs |-> [position |-> base_position + k - 1, from |-> cs[k].from, to |-> cs[k].to]]

(* chunk_many: the positions go on from one document to the next. *)
chunk_many(ds) == FoldLeft(LAMBDA out, d : out \o Positioned(d, Len(out)), <<>>, ds)

-----------------------------------------------------------------------------
(* longctx_svc: chunks of lines                                              *)

Chunk(first, last, held) == [first |-> first, last |-> last, held |-> held]

(* _window, and _chunk_lines with base 1: n lines from line `at` on, which   *)
(* are taken for the lines from `base` on.                                   *)
Window(at, n, lines_per_chunk, overlap, base) ==
    LET step == Greatest(1, lines_per_chunk - overlap)
        from[s \in 0 .. n] ==
          IF s >= n THEN <<>> ELSE
          LET end == Least(s + lines_per_chunk, n)
              piece == Chunk(base + s, base + end - 1, at + s .. at + end - 1)
          IN IF end = n THEN <<piece>> ELSE <<piece>> \o from[s + step]
    IN from[0]

_chunk_lines(at, n, lines_per_chunk, overlap) == Window(at, n, lines_per_chunk, overlap, 1)

_window(at, n, max_lines) == Window(at, n, max_lines, max_lines \div 10, at)

(* RetrievalPipeline.retrieve_chunked cuts its candidates by characters, in  *)
(* the same way, with the overlap clamped below the size.                    *)
SplitCandidate(n, char_size, overlap) ==
    Window(0, n, char_size, Greatest(0, Least(overlap, char_size - 1)), 0)

(* The paragraphs of a text: its runs of lines that are not blank. *)
Paragraphs(d) ==
    LET text == 1 .. d.n \ d.blank
        first == {i \in text : i - 1 \notin text}
        last(s) == CHOOSE e \in text : s <= e /\ e + 1 \notin text /\ s .. e \subseteq text
    IN [k \in 1 .. Cardinality(first) |-> [from |-> Nth(first, k), to |-> last(Nth(first, k))]]

NoBuffer == [first |-> 0, last |-> 0, held |-> {}]
Flush(st) == IF st.buf.held = {} THEN st ELSE [chunks |-> Append(st.chunks, st.buf), buf |-> NoBuffer]

(* Mutant: a paragraph that does not fit starts a new buffer, and the old    *)
(* one is forgotten.                                                         *)
AddForgets(d, st, p) ==
    LET lines == p.to - p.from + 1
        fits == Cardinality(st.buf.held) + lines <= d.size
        b == IF fits THEN st.buf ELSE NoBuffer
    IN [st EXCEPT !.buf = Chunk(IF b.held = {} THEN p.from ELSE b.first, p.to, b.held \cup (p.from .. p.to))]

(* One paragraph: cut into windows if it is too long, else added to the      *)
(* buffer, which is flushed first when it would overflow.                    *)
AddParagraph(d, st, p) ==
    LET lines == p.to - p.from + 1
        room == IF Cardinality(st.buf.held) + lines > d.size THEN Flush(st) ELSE st
        b == room.buf
    IN IF lines > d.size
       THEN [Flush(st) EXCEPT !.chunks = @ \o _chunk_lines(p.from, lines, d.size, d.overlap)]
       ELSE [room EXCEPT !.buf = Chunk(IF b.held = {} THEN p.from ELSE b.first, p.to,
                                       b.held \cup (p.from .. p.to))]

_chunk_paragraphs(d) ==
    Flush(FoldLeft(LAMBDA st, p : AddParagraph(d, st, p), [chunks |-> <<>>, buf |-> NoBuffer],
                   Paragraphs(d))).chunks

(* A stretch of lines between definitions: nothing if all of it is blank. *)
Stretch(d, from, to) ==
    IF from > to \/ from .. to \subseteq d.blank THEN <<>> ELSE _window(from, to - from + 1, d.size)

(* chunk_code_treesitter: d.defs are the top-level definitions, as the       *)
(* parser (external) finds them, in order.                                   *)
chunk_code_treesitter(d) ==
    LET body(def) == IF def.to - def.from + 1 <= d.size
                     THEN <<Chunk(def.from, def.to, def.from .. def.to)>>
                     ELSE _window(def.from, def.to - def.from + 1, d.size)
        st == FoldLeft(LAMBDA acc, def :
                         [chunks |-> acc.chunks \o Stretch(d, acc.cursor, def.from - 1) \o body(def),
                          cursor |-> def.to + 1],
                       [chunks |-> <<>>, cursor |-> 1], d.defs)
    IN st.chunks \o Stretch(d, st.cursor, d.n)

(* chunk_text: config files that fit are one chunk; code goes through the    *)
(* parser when there is one and it finds a definition.                       *)
chunk_text(d) ==
    LET parsed == IF d.parser THEN chunk_code_treesitter(d) ELSE <<>>
    IN CASE d.type = "prose" -> _chunk_paragraphs(d)
         [] d.type = "config" /\ d.n <= d.size -> <<Chunk(1, Greatest(1, d.n), 1 .. d.n)>>
         [] d.type = "code" /\ parsed # <<>> -> parsed
         [] OTHER -> _chunk_lines(1, d.n, d.size, d.overlap)
=============================================================================
