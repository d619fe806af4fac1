----------------------------- MODULE FoldLemmas -----------------------------
(***************************************************************************)
(* Loops over a sequence, as FoldLeft states them: what holds after each    *)
(* entry.  Step is the loop's body, with a parameter that stays the same;   *)
(* a proof module instantiates this one for each loop.                      *)
(***************************************************************************)
EXTENDS Integers, Sequences, TLAPS

CONSTANT Step(_, _, _)      \* parameter, state, entry

Greatest(T) == CHOOSE x \in T : \A y \in T : x >= y

(* FoldLeft with this body: over the positions, the greatest one last. *)
Fold(c, base, s) ==
    LET iter[T \in SUBSET (DOMAIN s)] ==
          IF T = {} THEN base ELSE Step(c, iter[T \ {Greatest(T)}], s[Greatest(T)])
    IN iter[DOMAIN s]

(* What the loop's state is after each number of entries. *)
IsRun(f, c, base, s) ==
    /\ DOMAIN f = 0 .. Len(s)
    /\ f[0] = base
    /\ \A k \in 1 .. Len(s) : f[k] = Step(c, f[k - 1], s[k])

(* Induction over the numbers up to n: the lemmas assume it and the module    *)
(* that instantiates this one proves it, once for all its loops.              *)
Inductive ==
    \A n \in Nat : \A T :
        0 \in T /\ (\A k \in 0 .. n - 1 : k \in T => k + 1 \in T) => \A k \in 0 .. n : k \in T

LEMMA UpTo ==
    ASSUME Inductive, NEW n \in Nat, NEW T, 0 \in T, \A k \in 0 .. n - 1 : k \in T => k + 1 \in T
    PROVE  \A k \in 0 .. n : k \in T
BY Zenon DEF Inductive

(* The function that Fold chooses. *)
Unfolded(g, c, base, s) ==
    g = [T \in SUBSET (DOMAIN s) |->
           IF T = {} THEN base ELSE Step(c, g[T \ {Greatest(T)}], s[Greatest(T)])]

(* Fold's definition, with that function made visible. *)
LEMMA FoldIsChoice ==
    ASSUME NEW c, NEW base, NEW s, \E g : Unfolded(g, c, base, s)
    PROVE  \E g : Unfolded(g, c, base, s) /\ Fold(c, base, s) = g[DOMAIN s]
<1> DEFINE h == CHOOSE g : g = [T \in SUBSET (DOMAIN s) |->
                                  IF T = {} THEN base ELSE Step(c, g[T \ {Greatest(T)}], s[Greatest(T)])]
<1>1. Unfolded(h, c, base, s)
  BY Zenon DEF Unfolded
<1>2. Fold(c, base, s) = h[DOMAIN s]
  BY Zenon DEF Fold
<1> QED
  BY <1>1, <1>2

(* The greatest of positions that the last one is among. *)
LEMMA GreatestIs ==
    ASSUME NEW n \in Nat, NEW T \in SUBSET (1 .. n), n \in T
    PROVE  Greatest(T) = n
<1>1. \A y \in T : y \in Nat /\ n >= y
  OBVIOUS
<1>2. Greatest(T) \in T /\ \A y \in T : Greatest(T) >= y
  <2>1. \E x \in T : \A y \in T : x >= y
    BY <1>1
  <2> QED
    BY <2>1, Zenon DEF Greatest
<1>3. Greatest(T) \in Nat /\ n >= Greatest(T) /\ Greatest(T) >= n
  BY <1>1, <1>2
<1> QED
  BY ONLY <1>3, n \in Nat

(* That function exists. *)
LEMMA ChoiceExists ==
    ASSUME Inductive, NEW c, NEW base, NEW S, NEW s \in Seq(S)
    PROVE  \E g : Unfolded(g, c, base, s)
<1> DEFINE n == Len(s)
           Value(g, T) == IF T = {} THEN base ELSE Step(c, g[T \ {Greatest(T)}], s[Greatest(T)])
           Good(g, m) == g = [T \in SUBSET (1 .. m) |-> g[T]] /\ \A T \in SUBSET (1 .. m) : g[T] = Value(g, T)
           done == {m \in 0 .. n : \E g : Good(g, m)}
<1>0. n \in Nat /\ DOMAIN s = 1 .. n
  OBVIOUS
<1>1. 0 \in done
  <2> DEFINE g == [T \in SUBSET (1 .. 0) |-> base]
  <2>1. 1 .. 0 = {} /\ SUBSET (1 .. 0) = {{}}
    OBVIOUS
  <2>2. Good(g, 0)
    BY <2>1
  <2>3. 0 \in 0 .. n
    BY <1>0
  <2> HIDE DEF g, Good
  <2> QED
    BY <2>2, <2>3
<1>2. ASSUME NEW m \in 0 .. n - 1, m \in done PROVE m + 1 \in done
  <2>1. PICK g : Good(g, m)
    BY <1>2
  <2> DEFINE h == [T \in SUBSET (1 .. m + 1) |->
                     IF m + 1 \in T THEN Step(c, g[T \ {m + 1}], s[m + 1]) ELSE g[T]]
  <2>2. ASSUME NEW T \in SUBSET (1 .. m + 1), m + 1 \in T PROVE h[T] = Value(h, T)
    <3>1. T # {}
      BY <2>2
    <3>4. Greatest(T) = m + 1
      BY <1>0, <2>2, GreatestIs
    <3>5. T \ {m + 1} \in SUBSET (1 .. m) /\ T \ {m + 1} \in SUBSET (1 .. m + 1)
      BY <1>0
    <3>6. h[T \ {m + 1}] = g[T \ {m + 1}]
      BY <3>5
    <3>7. h[T] = Step(c, g[T \ {m + 1}], s[m + 1])
      BY <2>2
    <3> HIDE DEF h
    <3> QED
      BY <3>1, <3>4, <3>6, <3>7
  <2>3. ASSUME NEW T \in SUBSET (1 .. m + 1), m + 1 \notin T PROVE h[T] = Value(h, T)
    <3>1. T \in SUBSET (1 .. m)
      BY <1>0, <2>3
    <3>2. h[T] = g[T] /\ g[T] = Value(g, T)
      BY <2>1, <2>3, <3>1
    <3>3. CASE T = {}
      BY <3>2, <3>3
    <3>4. CASE T # {}
      <4>1. h[T \ {Greatest(T)}] = g[T \ {Greatest(T)}]
        <5>1. T \ {Greatest(T)} \in SUBSET (1 .. m + 1) /\ m + 1 \notin T \ {Greatest(T)}
          BY <2>3
        <5> QED
          BY <5>1
      <4> HIDE DEF h
      <4> QED
        BY <3>2, <3>4, <4>1
    <3> QED
      BY <3>3, <3>4
  <2>4. h = [T \in SUBSET (1 .. m + 1) |-> h[T]]
    OBVIOUS
  <2> HIDE DEF h, Value
  <2>5. Good(h, m + 1)
    BY <2>2, <2>3, <2>4
  <2> HIDE DEF Good
  <2>6. m + 1 \in 0 .. n
    BY <1>0
  <2> QED
    BY <2>5, <2>6
<1> HIDE DEF done
<1>3. n \in done
  <2>1. \A k \in 0 .. n : k \in done
    BY <1>0, <1>1, <1>2, UpTo
  <2> QED
    BY <1>0, <2>1
<1>4. PICK g : Good(g, n)
  BY <1>3 DEF done
<1>5. g = [T \in SUBSET (1 .. n) |-> g[T]]
  BY <1>4
<1>6. g = [T \in SUBSET (1 .. n) |-> Value(g, T)]
  BY <1>4, <1>5
<1>7. Unfolded(g, c, base, s)
  BY <1>0, <1>6 DEF Unfolded
<1> QED
  BY <1>7

(* FoldLeft is where the loop ends. *)
LEMMA FoldRun ==
    ASSUME Inductive, NEW c, NEW base, NEW S, NEW s \in Seq(S)
    PROVE  \E f : IsRun(f, c, base, s) /\ Fold(c, base, s) = f[Len(s)]
<1> DEFINE n == Len(s)
<1>0. n \in Nat /\ DOMAIN s = 1 .. n
  OBVIOUS
<1>1. PICK g : Unfolded(g, c, base, s) /\ Fold(c, base, s) = g[1 .. n]
  BY <1>0, ChoiceExists, FoldIsChoice
<1> DEFINE f == [k \in 0 .. n |-> g[1 .. k]]
<1>2. \A T \in SUBSET (1 .. n) : g[T] = IF T = {} THEN base ELSE Step(c, g[T \ {Greatest(T)}], s[Greatest(T)])
  BY <1>0, <1>1 DEF Unfolded
<1>3. f[0] = base
  <2>1. 1 .. 0 = {} /\ 0 \in 0 .. n
    BY <1>0
  <2> QED
    BY <1>2, <2>1
<1>4. ASSUME NEW k \in 1 .. n PROVE f[k] = Step(c, f[k - 1], s[k])
  <2>1. 1 .. k \in SUBSET (1 .. n) /\ 1 .. k # {}
    <3>1. n \in Nat /\ k \in 1 .. n /\ k \in Nat
      BY <1>0
    <3> HIDE DEF n
    <3>2. k \in 1 .. k /\ \A j \in 1 .. k : j \in 1 .. n
      BY <3>1
    <3> QED
      BY <3>1, <3>2
  <2>3. Greatest(1 .. k) = k
    <3>1. k \in Nat /\ k \in 1 .. k
      BY <1>0
    <3> QED
      BY <3>1, GreatestIs
  <2>4. (1 .. k) \ {k} = 1 .. (k - 1) /\ k - 1 \in 0 .. n /\ k \in 0 .. n
    BY <1>0
  <2>5. g[1 .. k] = Step(c, g[1 .. (k - 1)], s[k])
    BY <1>2, <2>1, <2>3, <2>4
  <2> QED
    BY <2>4, <2>5
<1>5. DOMAIN f = 0 .. n /\ f[n] = g[1 .. n]
  BY <1>0
<1> HIDE DEF f
<1>6. IsRun(f, c, base, s)
  BY <1>3, <1>4, <1>5 DEF IsRun
<1> QED
  BY <1>1, <1>5, <1>6

(* A loop over nothing, and one with an entry more. *)
LEMMA FoldEmpty ==
    ASSUME Inductive, NEW c, NEW base
    PROVE  Fold(c, base, <<>>) = base
<1>1. <<>> \in Seq({}) /\ Len(<<>>) = 0
  OBVIOUS
<1>2. PICK f : IsRun(f, c, base, <<>>) /\ Fold(c, base, <<>>) = f[Len(<<>>)]
  BY <1>1, FoldRun
<1> QED
  BY <1>1, <1>2 DEF IsRun

LEMMA FoldAppend ==
    ASSUME Inductive, NEW c, NEW base, NEW S, NEW s \in Seq(S), NEW x \in S
    PROVE  Fold(c, base, Append(s, x)) = Step(c, Fold(c, base, s), x)
<1> DEFINE n == Len(s)
           t == Append(s, x)
<1>0. n \in Nat /\ t \in Seq(S) /\ Len(t) = n + 1 /\ t[n + 1] = x /\ \A k \in 1 .. n : t[k] = s[k]
  OBVIOUS
<1> HIDE DEF t
<1>1. PICK f : IsRun(f, c, base, s) /\ Fold(c, base, s) = f[n]
  BY FoldRun
<1>2. PICK g : IsRun(g, c, base, t) /\ Fold(c, base, t) = g[n + 1]
  BY <1>0, FoldRun
<1>3. n \in 0 .. Len(s) /\ n <= Len(t) /\ n + 1 \in 1 .. Len(t) /\ n \in 0 .. n
  BY <1>0
<1> DEFINE same == {k \in 0 .. n : f[k] = g[k]}
<1> HIDE DEF n
<1>4. f[n] = g[n]
  <2>1. 0 \in same
    BY <1>0, <1>1, <1>2 DEF IsRun
  <2>2. ASSUME NEW m \in 0 .. n - 1, m \in same PROVE m + 1 \in same
    <3>1. m + 1 \in 1 .. n /\ m + 1 \in 1 .. Len(t) /\ m + 1 - 1 = m /\ m + 1 \in 0 .. n /\ n = Len(s)
      BY <1>0 DEF n
    <3>2. f[m + 1] = Step(c, f[m], s[m + 1]) /\ g[m + 1] = Step(c, g[m], t[m + 1])
      BY <1>1, <1>2, <3>1 DEF IsRun
    <3>3. f[m] = g[m] /\ t[m + 1] = s[m + 1]
      BY <1>0, <2>2, <3>1
    <3>4. f[m + 1] = g[m + 1]
      BY <3>2, <3>3
    <3> QED
      BY <3>1, <3>4
  <2> HIDE DEF same
  <2>3. \A k \in 0 .. n : k \in same
    BY <1>0, <2>1, <2>2, UpTo
  <2> QED
    BY <1>3, <2>3 DEF same
<1>5. g[n + 1] = Step(c, g[n + 1 - 1], t[n + 1])
  BY <1>2, <1>3 DEF IsRun
<1>6. n + 1 - 1 = n
  BY <1>0
<1> QED
  BY <1>0, <1>1, <1>2, <1>4, <1>5, <1>6 DEF t, n
=============================================================================
