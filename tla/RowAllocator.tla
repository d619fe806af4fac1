---------------------------- MODULE RowAllocator ----------------------------
(***************************************************************************)
(* What MemmapEmbedStore promises its callers: rows are handed out fresh,   *)
(* keep their content until they are given back, and neither a crash nor a  *)
(* restart takes one away or hands it out a second time.                    *)
(***************************************************************************)
CONSTANTS
    Rows,           \* the rows there may be
    Vectors         \* the embeddings a row may hold

VARIABLE live       \* row |-> embedding, for the rows callers own

Init == live = [r \in {} |-> r]

(* append / append_batch: rows nobody owns, each with its embedding. *)
Alloc ==
    \E new \in SUBSET (Rows \ DOMAIN live) : \E vecs \in [new -> Vectors] :
        live' = [r \in DOMAIN live \cup new |-> IF r \in new THEN vecs[r] ELSE live[r]]

(* free_row: one row is given back. *)
Free == \E r \in DOMAIN live : live' = [x \in DOMAIN live \ {r} |-> live[x]]

Next == Alloc \/ Free

Spec == Init /\ [][Next]_live
=============================================================================
