------------------------------ MODULE MCIndexer ------------------------------
(* Small projects for TLC. *)
EXTENDS Indexer, TLC

(* Whitespace only, one chunk, two chunks, one of them shared. *)
PlainContents == {<<>>, <<"a">>, <<"a", "b">>}

(* ... and a file should_index refuses (binary, too large). *)
MixedContents == PlainContents \cup {<<"z">>}

TwoContents == {<<"a">>, <<"b">>}

(* Paths are interchangeable: no action tells one from another. *)
PathSymmetry == Permutations(Paths)

(* So are threads. *)
FullSymmetry == Permutations(Paths) \cup Permutations(Workers)
=============================================================================
