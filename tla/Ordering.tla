------------------------------ MODULE Ordering ------------------------------
(***************************************************************************)
(* Sorting and filtering as the Python code does them, by counting: sort    *)
(* with a key is a strict order of the entries, a comprehension with a      *)
(* condition is a set of positions.  (SortSeq and SelectSeq have no         *)
(* definition a proof can open.)                                            *)
(***************************************************************************)
EXTENDS Integers, Sequences, FiniteSets

Pairs(S) == {<<x, y>> : x, y \in S}

(* np.argsort: some order of the positions 1 .. n that keeps to R, the pairs  *)
(* of which the first has the greater value; equal values come as they may.  *)
Argsort(n, R) ==
    CHOOSE s \in [1 .. n -> 1 .. n] :
        \A i, j \in 1 .. n : i < j => s[i] # s[j] /\ <<s[j], s[i]>> \notin R

(* The members of S, each after those that R, a set of pairs, puts before it. *)
Sorted(S, R) ==
    [k \in 1 .. Cardinality(S) |->
        CHOOSE x \in S : Cardinality({y \in S : <<y, x>> \in R}) = k - 1]

(* R orders S strictly and totally. *)
Orders(R, S) ==
    /\ \A x, y \in S : <<x, y>> \in R => <<y, x>> \notin R
    /\ \A x, y \in S : x = y \/ <<x, y>> \in R \/ <<y, x>> \in R
    /\ \A x, y, z \in S : <<x, y>> \in R /\ <<y, z>> \in R => <<x, z>> \in R

(* The position of the k-th of the positions in I. *)
Nth(I, k) == CHOOSE i \in I : Cardinality({j \in I : j <= i}) = k

(* The entries of s at the positions in I, in their order. *)
Picked(s, I) == [k \in 1 .. Cardinality(I) |-> s[Nth(I, k)]]

(* [x for x in s if x in S] *)
Among(s, S) == Picked(s, {i \in DOMAIN s : s[i] \in S})
=============================================================================
