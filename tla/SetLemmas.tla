----------------------------- MODULE SetLemmas -----------------------------
(***************************************************************************)
(* Facts about numbers, least and greatest elements, enumerations of sets   *)
(* and sequences, sorting and filtering, and functions that go on from      *)
(* place to place, on which the proofs of several components rest.          *)
(***************************************************************************)
EXTENDS Integers, Sequences, FiniteSets, FiniteSetsExt, SequencesExt, Ordering,
        FiniteSetTheorems, WellFoundedInduction, TLAPS

(* A set of naturals has a least element. *)
LEMMA LeastNat ==
    ASSUME NEW T, T \subseteq Nat, T # {}
    PROVE  \E x \in T : \A y \in T : x <= y
<1>1. IsWellFoundedOn(OpToRel(<, Nat), Nat)
  BY NatLessThanWellFounded
<1>2. PICK x \in T : \A y \in T : ~ (<<y, x>> \in OpToRel(<, Nat))
  BY <1>1, WFMin
<1>3. \A y \in T : ~ (y < x)
  BY <1>2 DEF OpToRel
<1>4. \A y \in T : x \in Nat /\ y \in Nat
  OBVIOUS
<1>5. \A y \in T : x <= y
  BY <1>3, <1>4, SMT
<1> QED
  BY <1>5

(* Induction over the numbers up to n, for a set of numbers. *)
LEMMA UpTo ==
    ASSUME NEW n \in Nat, NEW T, 0 \in T, \A k \in 0 .. n - 1 : k \in T => k + 1 \in T
    PROVE  \A k \in 0 .. n : k \in T
<1> DEFINE bad == {k \in 0 .. n : k \notin T}
<1> SUFFICES ASSUME bad # {} PROVE FALSE
  OBVIOUS
<1>1. bad \subseteq Nat
  OBVIOUS
<1>2. PICK k \in bad : \A j \in bad : k <= j
  BY <1>1, LeastNat
<1>3. k \in 0 .. n /\ k # 0 /\ k \notin T
  BY <1>2
<1>4. k - 1 \in 0 .. n - 1 /\ (k - 1) + 1 = k /\ k - 1 \in 0 .. n /\ ~(k <= k - 1)
  BY <1>3
<1>5. k - 1 \in T
  BY <1>2, <1>4
<1> QED
  BY <1>3, <1>4, <1>5

LEMMA NumbersInductive ==
    \A n \in Nat : \A T :
        0 \in T /\ (\A k \in 0 .. n - 1 : k \in T => k + 1 \in T) => \A k \in 0 .. n : k \in T
BY UpTo

(* Min is that element. *)
LEMMA MinIsLeast ==
    ASSUME NEW T, T \subseteq Nat, T # {}
    PROVE  Min(T) \in T /\ \A y \in T : Min(T) <= y
BY LeastNat DEF Min

LEMMA MinOfTwo ==
    ASSUME NEW a \in Int, NEW b \in Int
    PROVE  Min({a, b}) = IF a <= b THEN a ELSE b
<1>1. \E x \in {a, b} : \A y \in {a, b} : x <= y
  OBVIOUS
<1>2. Min({a, b}) \in {a, b} /\ Min({a, b}) <= a /\ Min({a, b}) <= b
  BY <1>1 DEF Min
<1> QED
  BY <1>2

LEMMA MaxOfTwo ==
    ASSUME NEW a \in Int, NEW b \in Int
    PROVE  Max({a, b}) = IF a >= b THEN a ELSE b
<1>1. \E x \in {a, b} : \A y \in {a, b} : x >= y
  OBVIOUS
<1>2. Max({a, b}) \in {a, b} /\ Max({a, b}) >= a /\ Max({a, b}) >= b
  BY <1>1 DEF Max
<1> QED
  BY <1>2

(* A finite set of naturals has a greatest element, which is its Max: the    *)
(* first n images of an enumeration are bounded for every n, as no n is the  *)
(* first for which they are not.                                             *)
LEMMA MaxIsGreatest ==
    ASSUME NEW S, S \subseteq Nat, S # {}, IsFiniteSet(S)
    PROVE  Max(S) \in S /\ \A y \in S : y <= Max(S)
<1> DEFINE n == Cardinality(S)
<1>1. n \in Nat /\ Bijection(1..n, S) # {}
  BY FS_CardinalityType DEF ExistsBijection
<1>2. PICK f : f \in Bijection(1..n, S)
  BY <1>1
<1>3. f \in [1..n -> S] /\ \A y \in S : \E i \in 1..n : f[i] = y
  BY <1>2 DEF Bijection, Injection, Surjection
<1> HIDE DEF n
<1> DEFINE Bounded(k) == \E u \in Nat : \A i \in 1..k : f[i] <= u
           bad == {k \in 0..n : ~Bounded(k)}
<1>4. bad = {}
  <2> SUFFICES ASSUME bad # {} PROVE FALSE
    OBVIOUS
  <2>0. bad \subseteq Nat
    BY <1>1
  <2>1. PICK k \in bad : \A j \in bad : k <= j
    BY <2>0, LeastNat
  <2>2. k \in 0..n /\ k # 0
    BY <2>1
  <2>3. k - 1 \in 0..n /\ k - 1 \notin bad
    <3>1. k - 1 \in 0..n /\ ~(k <= k - 1)
      BY <1>1, <2>2
    <3> HIDE DEF bad
    <3> QED
      BY <2>1, <3>1
  <2>4. PICK u \in Nat : \A i \in 1..(k - 1) : f[i] <= u
    BY <2>3
  <2>5. k \in 1..n /\ f[k] \in Nat
    <3>1. k \in 1..n
      BY <1>1, <2>2
    <3> QED
      BY <1>3, <3>1
  <2>6. \A i \in 1..k : f[i] <= u + f[k]
    <3> SUFFICES ASSUME NEW i \in 1..k PROVE f[i] <= u + f[k]
      OBVIOUS
    <3>1. CASE i = k
      BY <2>5, <3>1
    <3>2. CASE i # k
      <4>1. i \in 1..(k - 1) /\ i \in 1..n
        BY <1>1, <2>5, <3>2
      <4>2. f[i] <= u /\ f[i] \in Nat
        BY <1>3, <2>4, <4>1
      <4> QED
        BY <2>5, <4>2
    <3> QED
      BY <3>1, <3>2
  <2>7. Bounded(k)
    BY <2>5, <2>6
  <2> QED
    BY <2>1, <2>7
<1> DEFINE above == {u \in Nat : \A y \in S : y <= u}
<1>5. above # {}
  <2>1. Bounded(n)
    <3>1. n \in 0..n
      BY <1>1
    <3> QED
      BY <1>4, <3>1
  <2> HIDE DEF bad
  <2> QED
    BY <1>3, <2>1
<1>6. PICK u \in above : \A v \in above : u <= v
  BY <1>5, LeastNat
<1>7. u \in S
  <2> SUFFICES ASSUME u \notin S PROVE FALSE
    OBVIOUS
  <2>1. PICK y \in S : TRUE
    OBVIOUS
  <2>2. u - 1 \in Nat /\ \A z \in S : z <= u - 1
    BY <2>1
  <2> QED
    BY <1>6, <2>2
<1>8. \E x \in S : \A y \in S : x >= y
  BY <1>7
<1>9. Max(S) \in S /\ \A y \in S : Max(S) >= y
  BY <1>8 DEF Max
<1> QED
  BY <1>9

(* Products of naturals. *)
LEMMA TimesMono ==
    ASSUME NEW a \in Nat, NEW b \in Nat, NEW c \in Nat, a <= b
    PROVE  a * c \in Nat /\ a * c <= b * c /\ c * a <= c * b
<1>1. b = a + (b - a) /\ b - a \in Nat
  OBVIOUS
<1>2. b * c = a * c + (b - a) * c
  BY <1>1
<1>3. (b - a) * c \in Nat /\ a * c \in Nat
  BY <1>1
<1> QED
  BY <1>2, <1>3

(* Division rounded up loses nothing. *)
LEMMA DivideUp ==
    ASSUME NEW x \in Nat, NEW r \in Nat \ {0}
    PROVE  (x + r - 1) \div r \in Nat /\ ((x + r - 1) \div r) * r >= x
<1> DEFINE y == x + r - 1
<1>1. y \in Nat /\ y = r * (y \div r) + (y % r) /\ y % r \in 0..(r - 1) /\ y \div r \in Nat
  OBVIOUS
<1> DEFINE q == y \div r
           m == y % r
<1>2. q \in Nat /\ m \in 0..(r - 1) /\ y = r * q + m /\ q * r = r * q /\ r * q \in Nat
  BY <1>1
<1> HIDE DEF q, m
<1>3. q * r >= x
  BY <1>2
<1> QED
  BY <1>2, <1>3 DEF q

(* SetToSeq enumerates a finite set without repetition. *)
LEMMA SetToSeqIs ==
    ASSUME NEW S, IsFiniteSet(S)
    PROVE  /\ SetToSeq(S) \in Seq(S)
           /\ \A i, j \in DOMAIN SetToSeq(S) : SetToSeq(S)[i] = SetToSeq(S)[j] => i = j
           /\ \A x \in S : \E i \in DOMAIN SetToSeq(S) : SetToSeq(S)[i] = x
<1> DEFINE n == Cardinality(S)
<1>1. n \in Nat /\ Bijection(1..n, S) # {}
  BY FS_CardinalityType DEF ExistsBijection
<1>2. \E f \in [1..n -> S] : IsInjective(f)
  BY <1>1 DEF Bijection, Injection
<1>3. SetToSeq(S) \in [1..n -> S] /\ IsInjective(SetToSeq(S))
  BY <1>2 DEF SetToSeq
<1>4. SetToSeq(S) \in Injection(1..n, S)
  BY <1>3 DEF Injection
<1>5. Cardinality(1..n) = n
  BY <1>1, FS_Interval
<1>6. SetToSeq(S) \in Surjection(1..n, S)
  BY <1>4, <1>5, FS_Injection
<1> QED
  BY <1>1, <1>3, <1>6 DEF IsInjective, Surjection

(* What appending adds to the range of a sequence. *)
LEMMA AppendRange ==
    ASSUME NEW S, NEW s \in Seq(S), NEW x \in S
    PROVE  Append(s, x) \in Seq(S) /\ Range(Append(s, x)) = Range(s) \cup {x}
<1>1. /\ Append(s, x) \in Seq(S) /\ Len(s) \in Nat /\ DOMAIN s = 1..Len(s)
      /\ DOMAIN Append(s, x) = 1..(Len(s) + 1)
  OBVIOUS
<1>2. \A i \in DOMAIN s : i \in DOMAIN Append(s, x) /\ Append(s, x)[i] = s[i]
  BY <1>1
<1>3. \A i \in DOMAIN Append(s, x) : (i \in DOMAIN s /\ Append(s, x)[i] = s[i])
                                     \/ (i = Len(s) + 1 /\ Append(s, x)[i] = x)
  BY <1>1
<1>4. Len(s) + 1 \in DOMAIN Append(s, x) /\ Append(s, x)[Len(s) + 1] = x
  BY <1>1
<1>5. \A y : y \in Range(Append(s, x)) => y \in Range(s) \cup {x}
  BY <1>3, Zenon DEF Range
<1>6. \A y : y \in Range(s) \cup {x} => y \in Range(Append(s, x))
  BY <1>2, <1>4, Zenon DEF Range
<1> QED
  BY <1>1, <1>5, <1>6

(* Taking one entry out leaves entries of the sequence, and as many but one. *)
LEMMA RemoveAtOf ==
    ASSUME NEW S, NEW s \in Seq(S), NEW k \in DOMAIN s
    PROVE  /\ RemoveAt(s, k) \in Seq(S)
           /\ \A i \in DOMAIN RemoveAt(s, k) : \E j \in DOMAIN s : j # k /\ RemoveAt(s, k)[i] = s[j]
<1>1. RemoveAt(s, k) = SubSeq(s, 1, k - 1) \o SubSeq(s, k + 1, Len(s))
  BY DEF RemoveAt
<1>2. k \in 1..Len(s) /\ Len(s) \in Nat
  OBVIOUS
<1> DEFINE l == SubSeq(s, 1, k - 1)
           r == SubSeq(s, k + 1, Len(s))
<1>3. l \in Seq(S) /\ Len(l) = k - 1 /\ \A i \in 1..(k - 1) : l[i] = s[i]
  BY <1>2
<1>4. r \in Seq(S) /\ Len(r) = Len(s) - k /\ \A i \in 1..(Len(s) - k) : r[i] = s[k + i]
  BY <1>2
<1> HIDE DEF l, r
<1>5. l \o r \in Seq(S) /\ DOMAIN (l \o r) = 1..(Len(s) - 1)
  BY <1>2, <1>3, <1>4
<1>6. ASSUME NEW i \in 1..(Len(s) - 1)
      PROVE  \E j \in 1..Len(s) : j # k /\ (l \o r)[i] = s[j]
  <2>1. CASE i <= k - 1
    <3>1. (l \o r)[i] = s[i] /\ i \in 1..Len(s) /\ i # k
      BY <1>2, <1>3, <1>4, <2>1
    <3> QED
      BY <3>1
  <2>2. CASE i > k - 1
    <3>1. (l \o r)[i] = r[i - (k - 1)] /\ i - (k - 1) \in 1..(Len(s) - k)
      BY <1>2, <1>3, <1>4, <2>2
    <3>2. r[i - (k - 1)] = s[k + (i - (k - 1))] /\ k + (i - (k - 1)) = i + 1
      BY <1>2, <1>4, <3>1
    <3>3. i + 1 \in 1..Len(s) /\ i + 1 # k
      BY <1>2, <2>2
    <3> QED
      BY <3>1, <3>2, <3>3
  <2>3. i <= k - 1 \/ i > k - 1
    BY <1>2
  <2> QED
    BY <2>1, <2>2, <2>3
<1>7. RemoveAt(s, k) = l \o r /\ DOMAIN s = 1..Len(s)
  BY <1>1 DEF l, r
<1> QED
  BY <1>5, <1>6, <1>7

(* The image of a finite set is finite. *)
LEMMA FiniteImage ==
    ASSUME NEW S, IsFiniteSet(S), NEW f, DOMAIN f = S
    PROVE  IsFiniteSet({f[x] : x \in S})
<1> DEFINE T == {f[x] : x \in S}
           g == [x \in S |-> f[x]]
<1>1. g \in Surjection(S, T)
  BY DEF Surjection
<1> QED
  BY <1>1, FS_Surjection

(* Counting the members up to each numbers a finite set from 1. *)
LEMMA CountNumbers ==
    ASSUME NEW T, IsFiniteSet(T), T \subseteq Int
    PROVE  /\ Cardinality(T) \in Nat
           /\ \A i \in T : Cardinality({j \in T : j <= i}) \in 1..Cardinality(T)
           /\ \A i, j \in T :
                Cardinality({k \in T : k <= i}) = Cardinality({k \in T : k <= j}) => i = j
           /\ \A k \in 1..Cardinality(T) : \E i \in T : Cardinality({j \in T : j <= i}) = k
<1> DEFINE n == Cardinality(T)
           U(i) == {j \in T : j <= i}
<1>1. n \in Nat
  BY FS_CardinalityType
<1>2. \A i \in T : IsFiniteSet(U(i)) /\ Cardinality(U(i)) \in Nat /\ Cardinality(U(i)) <= n
                   /\ Cardinality(U(i)) # 0
  <2> TAKE i \in T
  <2>1. U(i) \in SUBSET T /\ i \in U(i)
    OBVIOUS
  <2>2. IsFiniteSet(U(i)) /\ Cardinality(U(i)) <= n
    BY <2>1, FS_Subset
  <2> QED
    BY <2>1, <2>2, FS_CardinalityType, FS_EmptySet
<1>3. \A i \in T : Cardinality(U(i)) \in 1..n
  <2> TAKE i \in T
  <2> DEFINE u == Cardinality(U(i))
  <2>1. u \in Nat /\ u <= n /\ u # 0 /\ Cardinality(U(i)) = u
    BY <1>2
  <2> HIDE DEF u, n
  <2> QED
    BY <1>1, <2>1
<1>4. ASSUME NEW i \in T, NEW j \in T, i < j PROVE Cardinality(U(i)) # Cardinality(U(j))
  <2>1. i \in Int /\ j \in Int /\ i < j /\ ~(j <= i) /\ \A x \in T : x \in Int /\ (x <= i => x <= j)
    BY <1>4
  <2>2. U(i) \in SUBSET U(j)
    BY <2>1
  <2>3. j <= j
    BY <2>1
  <2>4. U(i) \in SUBSET U(j) /\ j \in U(j) /\ j \notin U(i)
    BY <2>1, <2>2, <2>3
  <2>5. Cardinality(U(j)) = Cardinality(U(i)) => U(j) = U(i)
    BY <1>2, <2>4, FS_Subset
  <2> QED
    BY <2>4, <2>5
<1>5. \A i, j \in T : Cardinality(U(i)) = Cardinality(U(j)) => i = j
  <2> TAKE i, j \in T
  <2>1. i < j \/ j < i \/ i = j
    OBVIOUS
  <2> QED
    BY <1>4, <2>1
<1> DEFINE f == [i \in T |-> Cardinality(U(i))]
<1>6. f \in Injection(T, 1..n)
  BY <1>3, <1>5 DEF Injection, IsInjective
<1>7. IsFiniteSet(1..n) /\ Cardinality(1..n) = n
  BY <1>1, FS_Interval
<1>8. f \in Surjection(T, 1..n)
  BY <1>6, <1>7, FS_Injection
<1> QED
  BY <1>1, <1>3, <1>5, <1>8 DEF Surjection

(* Sorted lists every member once, in the order of R. *)
LEMMA SortedIs ==
    ASSUME NEW S, IsFiniteSet(S), NEW R, Orders(R, S)
    PROVE  /\ Sorted(S, R) \in Seq(S) /\ Len(Sorted(S, R)) = Cardinality(S)
           /\ Cardinality(S) \in Nat
           /\ \A x \in S : \E i \in DOMAIN Sorted(S, R) : Sorted(S, R)[i] = x
           /\ \A i, j \in DOMAIN Sorted(S, R) : i < j <=> <<Sorted(S, R)[i], Sorted(S, R)[j]>> \in R
           /\ \A i, j \in DOMAIN Sorted(S, R) : Sorted(S, R)[i] = Sorted(S, R)[j] => i = j
<1> DEFINE n == Cardinality(S)
           B(x) == {y \in S : <<y, x>> \in R}
           r(x) == Cardinality(B(x))
<1>1. n \in Nat
  BY FS_CardinalityType
<1>2. ASSUME NEW x \in S PROVE IsFiniteSet(B(x)) /\ r(x) \in Nat /\ r(x) <= n /\ r(x) # n
  <2>1. B(x) \in SUBSET S /\ x \notin B(x)
    BY DEF Orders
  <2>2. IsFiniteSet(B(x)) /\ r(x) <= n /\ (n = r(x) => S = B(x))
    BY <2>1, FS_Subset
  <2> QED
    BY <2>1, <2>2, FS_CardinalityType
<1>3. ASSUME NEW x \in S, NEW y \in S, <<x, y>> \in R PROVE r(x) < r(y)
  <2>1. B(x) \in SUBSET B(y) /\ x \in B(y) /\ x \notin B(x)
    BY <1>3 DEF Orders
  <2>2. r(x) <= r(y) /\ (r(y) = r(x) => B(y) = B(x))
    BY <2>1, <1>2, FS_Subset
  <2> QED
    BY <2>1, <2>2, <1>2
<1> HIDE DEF r, B
<1>4. \A x, y \in S : r(x) = r(y) => x = y
  <2> TAKE x, y \in S
  <2>1. x = y \/ <<x, y>> \in R \/ <<y, x>> \in R
    BY DEF Orders
  <2> QED
    BY <2>1, <1>3, <1>2
<1> DEFINE f == [x \in S |-> r(x) + 1]
<1>5. f \in Injection(S, 1..n)
  <2>1. \A x \in S : r(x) + 1 \in 1..n
    BY <1>1, <1>2
  <2>2. \A x, y \in S : r(x) + 1 = r(y) + 1 => x = y
    BY <1>2, <1>4
  <2> QED
    BY <2>1, <2>2 DEF Injection, IsInjective
<1>6. f \in Surjection(S, 1..n)
  <2>1. IsFiniteSet(1..n) /\ Cardinality(1..n) = n
    BY <1>1, FS_Interval
  <2> QED
    BY <1>5, <2>1, FS_Injection
<1>7. \A k \in 1..n : \E x \in S : r(x) = k - 1
  <2> TAKE k \in 1..n
  <2>1. PICK x \in S : f[x] = k
    BY <1>6 DEF Surjection
  <2>2. r(x) + 1 = k
    BY <2>1
  <2> QED
    BY <2>2, <1>2
<1> DEFINE t == Sorted(S, R)
<1>8. t = [k \in 1..n |-> CHOOSE x \in S : r(x) = k - 1]
  BY DEF Sorted, r, B
<1>9. \A k \in 1..n : t[k] \in S /\ r(t[k]) = k - 1
  <2> TAKE k \in 1..n
  <2>1. t[k] = CHOOSE x \in S : r(x) = k - 1
    BY <1>8
  <2> HIDE DEF t
  <2> QED
    BY <1>7, <2>1
<1>10. DOMAIN t = 1..n /\ t = [k \in 1..n |-> t[k]]
  BY <1>8
<1> HIDE DEF t, n
<1>11. t \in Seq(S) /\ Len(t) = n
  <2>1. t \in [1..n -> S]
    BY <1>9, <1>10
  <2> QED
    BY <2>1, <1>1
<1>12. ASSUME NEW x \in S PROVE \E i \in 1..n : t[i] = x
  <2>1. r(x) + 1 \in 1..n /\ (r(x) + 1) - 1 = r(x)
    BY <1>1, <1>2
  <2>2. r(t[r(x) + 1]) = r(x) /\ t[r(x) + 1] \in S
    BY <2>1, <1>9
  <2> QED
    BY <2>1, <2>2, <1>4
<1>13. ASSUME NEW i \in 1..n, NEW j \in 1..n PROVE (i < j <=> <<t[i], t[j]>> \in R) /\ (t[i] = t[j] => i = j)
  <2>1. t[i] \in S /\ t[j] \in S /\ r(t[i]) = i - 1 /\ r(t[j]) = j - 1
    BY <1>9
  <2>2. <<t[i], t[j]>> \in R => r(t[i]) < r(t[j])
    BY <2>1, <1>3
  <2>3. <<t[j], t[i]>> \in R => r(t[j]) < r(t[i])
    BY <2>1, <1>3
  <2>4. t[i] = t[j] \/ <<t[i], t[j]>> \in R \/ <<t[j], t[i]>> \in R
    BY <2>1 DEF Orders
  <2>5. t[i] = t[j] => i - 1 = j - 1
    BY <2>1
  <2> QED
    BY <2>1, <2>2, <2>3, <2>4, <2>5, <1>1
<1> QED
  BY <1>1, <1>10, <1>11, <1>12, <1>13 DEF n, t

(* The positions of I in order. *)
LEMMA NthIs ==
    ASSUME NEW n \in Nat, NEW I \in SUBSET (1..n)
    PROVE  /\ Cardinality(I) \in Nat /\ Cardinality(I) <= n
           /\ \A k \in 1..Cardinality(I) : Nth(I, k) \in I
           /\ \A i \in I : \E k \in 1..Cardinality(I) : Nth(I, k) = i
           /\ \A k, m \in 1..Cardinality(I) : k < m <=> Nth(I, k) < Nth(I, m)
<1> DEFINE c == Cardinality(I)
           U(i) == {j \in I : j <= i}
           u(i) == Cardinality(U(i))
<1>0. IsFiniteSet(1..n) /\ Cardinality(1..n) = n /\ 1..n \subseteq Nat
  BY FS_Interval
<1>1. IsFiniteSet(I) /\ c <= n /\ I \subseteq Int
  <2>1. IsFiniteSet(I) /\ Cardinality(I) <= Cardinality(1..n)
    BY <1>0, FS_Subset
  <2> QED
    BY <1>0, <2>1
<1>2. /\ c \in Nat /\ \A i \in I : u(i) \in 1..c
      /\ \A i, j \in I : u(i) = u(j) => i = j
      /\ \A k \in 1..c : \E i \in I : u(i) = k
  BY <1>1, CountNumbers
<1>3. \A k \in 1..c : Nth(I, k) \in I /\ u(Nth(I, k)) = k
  <2> TAKE k \in 1..c
  <2>1. Nth(I, k) = CHOOSE i \in I : u(i) = k
    BY DEF Nth
  <2> HIDE DEF u
  <2> QED
    BY <2>1, <1>2
<1>4. ASSUME NEW i \in I, NEW j \in I, i <= j PROVE u(i) <= u(j)
  <2>0. i \in Int /\ j \in Int /\ i <= j /\ \A x \in I : x \in Int /\ (x <= i => x <= j)
    BY <1>1, <1>4
  <2>1. U(i) \in SUBSET U(j) /\ U(j) \in SUBSET I
    BY <2>0
  <2> QED
    BY <2>1, <1>1, FS_Subset
<1> HIDE DEF u, U, c
<1>5. ASSUME NEW i \in I PROVE \E k \in 1..c : Nth(I, k) = i
  <2>1. u(i) \in 1..c
    BY <1>2
  <2>2. Nth(I, u(i)) \in I /\ u(Nth(I, u(i))) = u(i)
    BY <2>1, <1>3
  <2> QED
    BY <2>1, <2>2, <1>2
<1>6. ASSUME NEW k \in 1..c, NEW m \in 1..c PROVE k < m <=> Nth(I, k) < Nth(I, m)
  <2>1. Nth(I, k) \in I /\ Nth(I, m) \in I /\ u(Nth(I, k)) = k /\ u(Nth(I, m)) = m
    BY <1>3
  <2>2. Nth(I, k) \in Int /\ Nth(I, m) \in Int
    BY <2>1, <1>1
  <2>3. Nth(I, k) <= Nth(I, m) => k <= m
    BY <2>1, <1>4
  <2>4. Nth(I, m) <= Nth(I, k) => m <= k
    BY <2>1, <1>4
  <2>5. Nth(I, k) = Nth(I, m) => k = m
    BY <2>1
  <2> QED
    BY <2>2, <2>3, <2>4, <2>5, <1>2
<1> QED
  BY <1>1, <1>2, <1>3, <1>5, <1>6 DEF c

(* What Picked keeps, and that it keeps the order. *)
LEMMA PickedIs ==
    ASSUME NEW T, NEW s \in Seq(T), NEW I \in SUBSET (DOMAIN s)
    PROVE  /\ Picked(s, I) \in Seq(T) /\ Len(Picked(s, I)) = Cardinality(I)
           /\ Cardinality(I) \in Nat /\ Cardinality(I) <= Len(s)
           /\ DOMAIN Picked(s, I) = 1..Cardinality(I)
           /\ \A k \in 1..Cardinality(I) : Nth(I, k) \in I /\ Picked(s, I)[k] = s[Nth(I, k)]
           /\ \A i \in I : \E k \in 1..Cardinality(I) : Nth(I, k) = i
           /\ \A k, m \in 1..Cardinality(I) : k < m <=> Nth(I, k) < Nth(I, m)
<1>1. Len(s) \in Nat /\ DOMAIN s = 1..Len(s)
  OBVIOUS
<1>2. /\ Cardinality(I) \in Nat /\ Cardinality(I) <= Len(s)
      /\ \A k \in 1..Cardinality(I) : Nth(I, k) \in I
      /\ \A i \in I : \E k \in 1..Cardinality(I) : Nth(I, k) = i
      /\ \A k, m \in 1..Cardinality(I) : k < m <=> Nth(I, k) < Nth(I, m)
  BY <1>1, NthIs
<1>3. \A i \in I : s[i] \in T
  BY <1>1
<1>4. \A k \in 1..Cardinality(I) : Picked(s, I)[k] = s[Nth(I, k)]
  BY DEF Picked
<1>5. Picked(s, I) \in [1..Cardinality(I) -> T]
  BY <1>2, <1>3 DEF Picked
<1>6. Picked(s, I) \in Seq(T) /\ Len(Picked(s, I)) = Cardinality(I)
  BY <1>5, <1>2
<1> QED
  BY <1>2, <1>4, <1>5, <1>6

(* [x for x in s if x in S]: what is in both, in the order of s. *)
LEMMA AmongIs ==
    ASSUME NEW T, NEW s \in Seq(T), NEW S
    PROVE  /\ Among(s, S) \in Seq(T \cap S) /\ Len(Among(s, S)) <= Len(s)
           /\ \A k \in DOMAIN Among(s, S) : \E i \in DOMAIN s : s[i] = Among(s, S)[k]
           /\ \A i \in DOMAIN s : s[i] \in S => \E k \in DOMAIN Among(s, S) : Among(s, S)[k] = s[i]
           /\ \A k, m \in DOMAIN Among(s, S) : k < m =>
                \E i, j \in DOMAIN s : i < j /\ s[i] = Among(s, S)[k] /\ s[j] = Among(s, S)[m]
<1> DEFINE I == {i \in DOMAIN s : s[i] \in S}
           p == Among(s, S)
<1>1. p = Picked(s, I) /\ I \in SUBSET (DOMAIN s)
  BY DEF Among
<1> HIDE DEF p
<1>2. /\ p \in Seq(T) /\ Len(p) = Cardinality(I) /\ Cardinality(I) <= Len(s) /\ Cardinality(I) \in Nat
      /\ DOMAIN p = 1..Cardinality(I)
      /\ \A k \in 1..Cardinality(I) : Nth(I, k) \in I /\ p[k] = s[Nth(I, k)]
      /\ \A i \in I : \E k \in 1..Cardinality(I) : Nth(I, k) = i
      /\ \A k, m \in 1..Cardinality(I) : k < m <=> Nth(I, k) < Nth(I, m)
  <2> HIDE DEF I
  <2>1. Picked(s, I) = p
    BY <1>1
  <2> QED
    BY <1>1, <2>1, PickedIs
<1>3. \A k \in DOMAIN p : p[k] \in T \cap S
  BY <1>2
<1>4. p \in Seq(T \cap S)
  BY <1>2, <1>3
<1>5. \A k \in DOMAIN p : Nth(I, k) \in DOMAIN s /\ s[Nth(I, k)] = p[k]
  BY <1>2
<1>6. ASSUME NEW i \in DOMAIN s, s[i] \in S PROVE \E k \in DOMAIN p : p[k] = s[i]
  BY <1>2, <1>6
<1>7. ASSUME NEW k \in DOMAIN p, NEW m \in DOMAIN p, k < m
      PROVE  \E i, j \in DOMAIN s : i < j /\ s[i] = p[k] /\ s[j] = p[m]
  BY <1>2, <1>5, <1>7
<1> QED
  BY <1>2, <1>4, <1>5, <1>6, <1>7 DEF p

-----------------------------------------------------------------------------
(* Sequences, and filtering them *)

(* The last of the positions in a set of them. *)
LEMMA LastOf ==
    ASSUME NEW n \in Nat, NEW T \in SUBSET (1 .. n), T # {}
    PROVE  \E i \in T : \A j \in T : j <= i
<1>1. IsFiniteSet(1 .. n) /\ 1 .. n \subseteq Nat
  BY FS_Interval
<1>2. IsFiniteSet(T) /\ T \subseteq Nat
  BY <1>1, FS_Subset
<1> QED
  BY <1>2, MaxIsGreatest

(* Moving a set of positions by one keeps their number. *)
LEMMA ShiftCounts ==
    ASSUME NEW A, IsFiniteSet(A), A \subseteq Int
    PROVE  Cardinality({a + 1 : a \in A}) = Cardinality(A) /\ IsFiniteSet({a + 1 : a \in A})
<1> DEFINE B == {a + 1 : a \in A}
           f == [a \in A |-> a + 1]
<1>1. f \in Bijection(A, B)
  <2>1. f \in [A -> B] /\ \A b \in B : \E a \in A : f[a] = b
    OBVIOUS
  <2>2. \A a, c \in A : f[a] = f[c] => a = c
    OBVIOUS
  <2> QED
    BY <2>1, <2>2 DEF Bijection, Injection, Surjection, IsInjective
<1> QED
  BY <1>1, FS_Bijection DEF ExistsBijection

(* An entry in front that is not among S is passed over. *)
LEMMA AmongSkips ==
    ASSUME NEW T, NEW s \in Seq(T), NEW x \in T, NEW S, x \notin S
    PROVE  Among(<<x>> \o s, S) = Among(s, S)
<1> DEFINE t == <<x>> \o s
           I == {i \in DOMAIN s : s[i] \in S}
           J == {i \in DOMAIN t : t[i] \in S}
           n == Len(s)
<1>1. /\ n \in Nat /\ DOMAIN s = 1 .. n /\ t \in Seq(T) /\ DOMAIN t = 1 .. n + 1 /\ t[1] = x
      /\ \A i \in 1 .. n : t[i + 1] = s[i]
  OBVIOUS
<1> HIDE DEF t, n
<1>2. J = {i + 1 : i \in I}
  <2>1. \A j \in 1 .. n + 1 : j = 1 \/ (j - 1 \in 1 .. n /\ j = (j - 1) + 1)
    BY <1>1
  <2>2. \A i \in 1 .. n : i + 1 \in 1 .. n + 1
    BY <1>1
  <2>3. ASSUME NEW j \in J PROVE \E i \in I : j = i + 1
    <3>1. j \in 1 .. n + 1 /\ t[j] \in S /\ j # 1
      BY <1>1
    <3>2. j - 1 \in 1 .. n /\ j = (j - 1) + 1
      BY <2>1, <3>1
    <3>3. t[(j - 1) + 1] = s[j - 1]
      BY <1>1, <3>2
    <3>4. j - 1 \in I
      BY <1>1, <3>1, <3>2, <3>3
    <3> QED
      BY <3>2, <3>4
  <2>4. ASSUME NEW i \in I PROVE i + 1 \in J
    BY <1>1, <2>2
  <2> HIDE DEF I, J
  <2> QED
    BY <2>3, <2>4
<1>3. I \subseteq Int /\ J \subseteq Int /\ IsFiniteSet(I) /\ I \in SUBSET (1 .. n)
  <2>1. IsFiniteSet(1 .. n) /\ I \in SUBSET (1 .. n)
    BY <1>1, FS_Interval
  <2>2. IsFiniteSet(I)
    BY <2>1, FS_Subset
  <2>3. I \subseteq Int
    BY <1>1
  <2>4. J \subseteq Int
    BY <1>1
  <2> QED
    BY <2>1, <2>2, <2>3, <2>4
<1>4. Cardinality(J) = Cardinality(I) /\ IsFiniteSet(J)
  <2> HIDE DEF I, J
  <2> QED
    BY <1>2, <1>3, ShiftCounts
<1> DEFINE u(i) == Cardinality({j \in I : j <= i})
           v(i) == Cardinality({j \in J : j <= i})
           c == Cardinality(I)
<1>5. \A i \in I : v(i + 1) = u(i)
  <2> TAKE i \in I
  <2> DEFINE A == {j \in I : j <= i}
  <2>1. {j \in J : j <= i + 1} = {a + 1 : a \in A}
    <3>1. \A j \in I : j \in Int /\ (j + 1 <= i + 1 <=> j <= i)
      BY <1>3
    <3> HIDE DEF I, J
    <3> QED
      BY <1>2, <3>1
  <2>2. IsFiniteSet(A) /\ A \subseteq Int
    <3>1. A \in SUBSET I
      OBVIOUS
    <3> HIDE DEF A, I
    <3> QED
      BY <1>3, <3>1, FS_Subset
  <2> HIDE DEF A
  <2>3. Cardinality({a + 1 : a \in A}) = Cardinality(A)
    BY <2>2, ShiftCounts
  <2> QED
    BY <2>1, <2>3 DEF A
<1> HIDE DEF I, J
<1>6. /\ c \in Nat /\ \A k \in 1 .. c : \E i \in I : u(i) = k
      /\ \A i, j \in I : u(i) = u(j) => i = j
  BY <1>3, CountNumbers
<1>7. \A i, j \in J : v(i) = v(j) => i = j
  BY <1>3, <1>4, CountNumbers
<1> HIDE DEF u, v, c
<1>8. ASSUME NEW k \in 1 .. c PROVE Nth(J, k) = Nth(I, k) + 1 /\ Nth(I, k) \in I
  <2>1. Nth(I, k) = CHOOSE i \in I : u(i) = k
    BY DEF Nth, u
  <2>2. Nth(J, k) = CHOOSE i \in J : v(i) = k
    BY DEF Nth, v
  <2>3. Nth(I, k) \in I /\ u(Nth(I, k)) = k
    BY <1>6, <2>1
  <2>4. Nth(I, k) + 1 \in J /\ v(Nth(I, k) + 1) = k
    BY <1>2, <1>5, <2>3
  <2>5. Nth(J, k) \in J /\ v(Nth(J, k)) = k
    BY <2>2, <2>4
  <2> QED
    BY <1>7, <2>3, <2>4, <2>5
<1>9. \A k \in 1 .. c : t[Nth(J, k)] = s[Nth(I, k)]
  BY <1>1, <1>3, <1>8
<1>10. Picked(t, J) = Picked(s, I)
  BY <1>4, <1>9 DEF Picked, c
<1> QED
  BY <1>10 DEF Among, I, J, t

(* What Among finds when there is something to find. *)
LEMMA AmongFinds ==
    ASSUME NEW T, NEW s \in Seq(T), NEW S
    PROVE  /\ Among(s, S) \in Seq(T) /\ Range(Among(s, S)) = Range(s) \cap S
           /\ Range(s) \cap S # {} => Among(s, S) # <<>> /\ Among(s, S)[1] \in Range(s) \cap S
           /\ Among(s, S) = <<>> => Range(s) \cap S = {}
<1> DEFINE a == Among(s, S)
<1>1. /\ a \in Seq(T \cap S) /\ \A k \in DOMAIN a : \E i \in DOMAIN s : s[i] = a[k]
      /\ \A i \in DOMAIN s : s[i] \in S => \E k \in DOMAIN a : a[k] = s[i]
  <2>1. /\ Among(s, S) \in Seq(T \cap S)
        /\ \A k \in DOMAIN Among(s, S) : \E i \in DOMAIN s : s[i] = Among(s, S)[k]
        /\ \A i \in DOMAIN s : s[i] \in S => \E k \in DOMAIN Among(s, S) : Among(s, S)[k] = s[i]
    <3>1. /\ Among(s, S) \in Seq(T \cap S)
          /\ \A k \in DOMAIN Among(s, S) : \E i \in DOMAIN s : s[i] = Among(s, S)[k]
      BY AmongIs
    <3>2. /\ Among(s, S) \in Seq(T \cap S)
          /\ \A i \in DOMAIN s : s[i] \in S => \E k \in DOMAIN Among(s, S) : Among(s, S)[k] = s[i]
      BY AmongIs
    <3> QED
      BY <3>1, <3>2
  <2> QED
    BY <2>1
<1> HIDE DEF a
<1>2. a \in Seq(T) /\ \A k \in DOMAIN a : a[k] \in S
  BY <1>1
<1>3. Range(a) = Range(s) \cap S
  BY <1>1, <1>2 DEF Range
<1>4. a = <<>> => Range(s) \cap S = {}
  <2>1. Range(<<>>) = {}
    BY DEF Range
  <2> QED
    BY <1>3, <2>1
<1>5. a # <<>> => a[1] \in Range(a)
  <2>1. a # <<>> => 1 \in DOMAIN a
    BY <1>2
  <2> QED
    BY <2>1 DEF Range
<1> QED
  BY <1>2, <1>3, <1>4, <1>5 DEF a

(* An entry in front and the rest. *)
LEMMA ConsRange ==
    ASSUME NEW T, NEW s \in Seq(T), NEW x \in T
    PROVE  <<x>> \o s \in Seq(T) /\ Range(<<x>> \o s) = Range(s) \cup {x}
<1> DEFINE t == <<x>> \o s
<1>1. /\ Len(s) \in Nat /\ DOMAIN s = 1 .. Len(s) /\ t \in Seq(T) /\ DOMAIN t = 1 .. Len(s) + 1
      /\ t[1] = x /\ \A i \in 1 .. Len(s) : t[i + 1] = s[i]
  OBVIOUS
<1> HIDE DEF t
<1>2. \A j \in 1 .. Len(s) + 1 : j = 1 \/ (j - 1 \in 1 .. Len(s) /\ t[j] = s[j - 1])
  <2> TAKE j \in 1 .. Len(s) + 1
  <2>1. j = 1 \/ (j - 1 \in 1 .. Len(s) /\ (j - 1) + 1 = j)
    BY <1>1
  <2> QED
    BY <1>1, <2>1
<1>3. 1 \in DOMAIN t /\ \A i \in 1 .. Len(s) : i + 1 \in DOMAIN t
  BY <1>1
<1>4. Range(t) = Range(s) \cup {x}
  <2>1. ASSUME NEW y \in Range(t) PROVE y \in Range(s) \cup {x}
    BY <1>1, <1>2, <2>1 DEF Range
  <2>2. x \in Range(t)
    BY <1>1, <1>3 DEF Range
  <2>3. ASSUME NEW y \in Range(s) PROVE y \in Range(t)
    <3>1. PICK i \in 1 .. Len(s) : y = s[i]
      BY <1>1 DEF Range
    <3>2. i + 1 \in DOMAIN t /\ t[i + 1] = y
      BY <1>1, <1>3, <3>1
    <3> QED
      BY <3>2 DEF Range
  <2> QED
    BY <2>1, <2>2, <2>3
<1> QED
  BY <1>1, <1>4 DEF t

(* Products of naturals, regrouped. *)
LEMMA Regroup ==
    ASSUME NEW a \in Nat, NEW b \in Nat, NEW c \in Nat
    PROVE  (a * b) * c = a * (b * c) /\ a * b = b * a
  OBVIOUS

(* A product of positive numbers is positive. *)
LEMMA Positive ==
    ASSUME NEW a \in Nat \ {0}, NEW b \in Nat \ {0}
    PROVE  a * b \in Nat \ {0}
<1>1. a * b >= 1 * b
  BY TimesMono
<1>2. a * b \in Nat
  BY TimesMono
<1> QED
  BY <1>1, <1>2

(* Dividing undoes multiplying. *)
LEMMA Quotient ==
    ASSUME NEW a \in Nat \ {0}, NEW q \in Nat
    PROVE  (a * q) \div a = q
<1> DEFINE y == a * q
           d == y \div a
           m == y % a
<1>1. y \in Nat
  BY TimesMono
<1>2. y = a * d + m /\ m \in 0 .. (a - 1) /\ d \in Nat
  <2> HIDE DEF y
  <2> QED
    BY <1>1
<1> HIDE DEF d, m, y
<1>3. a * d \in Nat /\ a * q = a * d + m
  BY <1>1, <1>2, TimesMono DEF y
<1>4. ASSUME d < q PROVE FALSE
  <2>1. a * (d + 1) <= a * q
    BY <1>2, <1>4, TimesMono
  <2>2. a * (d + 1) = a * d + a
    BY <1>2
  <2> QED
    BY <1>2, <1>3, <2>1, <2>2
<1>5. ASSUME q < d PROVE FALSE
  <2>1. a * (q + 1) <= a * d
    BY <1>2, <1>5, TimesMono
  <2>2. a * (q + 1) = a * q + a /\ a * q \in Nat
    BY TimesMono
  <2> QED
    BY <1>2, <1>3, <2>1, <2>2
<1> QED
  BY <1>2, <1>4, <1>5 DEF d, y

(* A sequence of what is in S. *)
LEMMA SeqInto ==
    ASSUME NEW T, NEW s \in Seq(T), NEW S, \A x \in Range(s) : x \in S
    PROVE  s \in Seq(S)
<1>1. Len(s) \in Nat /\ DOMAIN s = 1 .. Len(s) /\ s = [k \in 1 .. Len(s) |-> s[k]]
  OBVIOUS
<1>2. \A k \in 1 .. Len(s) : s[k] \in S
  BY <1>1 DEF Range
<1>3. s \in [1 .. Len(s) -> S]
  BY <1>1, <1>2
<1> QED
  BY <1>1, <1>3

(* What two sequences have together. *)
LEMMA RangeOfBoth ==
    ASSUME NEW T, NEW l \in Seq(T), NEW d \in Seq(T)
    PROVE  Range(l \o d) = Range(l) \cup Range(d)
<1>1. /\ Len(l) \in Nat /\ Len(d) \in Nat /\ DOMAIN l = 1 .. Len(l) /\ DOMAIN d = 1 .. Len(d)
      /\ DOMAIN (l \o d) = 1 .. Len(l) + Len(d)
      /\ \A k \in 1 .. Len(l) : (l \o d)[k] = l[k]
      /\ \A k \in 1 .. Len(d) : (l \o d)[Len(l) + k] = d[k]
  OBVIOUS
<1>2. \A k \in 1 .. Len(l) : k \in 1 .. Len(l) + Len(d)
  BY <1>1
<1>3. \A k \in 1 .. Len(d) : Len(l) + k \in 1 .. Len(l) + Len(d)
  BY <1>1
<1>4. ASSUME NEW k \in 1 .. Len(l) + Len(d) PROVE (l \o d)[k] \in Range(l) \cup Range(d)
  <2>1. CASE k <= Len(l)
    <3>1. k \in 1 .. Len(l)
      BY <1>1, <2>1
    <3> QED
      BY <1>1, <3>1 DEF Range
  <2>2. CASE Len(l) < k
    <3>1. k - Len(l) \in 1 .. Len(d) /\ Len(l) + (k - Len(l)) = k
      BY <1>1, <2>2
    <3>2. (l \o d)[k] = d[k - Len(l)]
      BY <1>1, <3>1
    <3> QED
      BY <1>1, <3>1, <3>2 DEF Range
  <2> QED
    BY <1>1, <2>1, <2>2
<1>5. Range(l \o d) \subseteq Range(l) \cup Range(d)
  BY <1>1, <1>4 DEF Range
<1>6. Range(l) \subseteq Range(l \o d)
  BY <1>1, <1>2 DEF Range
<1>7. Range(d) \subseteq Range(l \o d)
  BY <1>1, <1>3 DEF Range
<1> QED
  BY <1>5, <1>6, <1>7

(* Positions keep their number when a later one is added. *)
LEMMA NthStays ==
    ASSUME NEW n \in Nat, NEW I \in SUBSET (1 .. n), NEW J, J = I \cup {n + 1}
    PROVE  /\ Cardinality(I) \in Nat /\ Cardinality(J) = Cardinality(I) + 1
           /\ \A k \in 1 .. Cardinality(I) : Nth(J, k) = Nth(I, k) /\ Nth(I, k) \in I
           /\ Nth(J, Cardinality(I) + 1) = n + 1
<1> DEFINE u(i) == Cardinality({j \in I : j <= i})
           v(i) == Cardinality({j \in J : j <= i})
           c == Cardinality(I)
<1>0. IsFiniteSet(1 .. n) /\ I \subseteq Int /\ n + 1 \notin I /\ n + 1 \in Int
  BY FS_Interval
<1>1. IsFiniteSet(I)
  BY <1>0, FS_Subset
<1>2. IsFiniteSet(J) /\ Cardinality(J) = c + 1
  BY <1>0, <1>1, FS_AddElement
<1>3. c \in Nat /\ \A i, j \in I : u(i) = u(j) => i = j
  BY <1>0, <1>1, CountNumbers
<1>4. /\ \A k \in 1 .. c : \E i \in I : u(i) = k
  BY <1>0, <1>1, CountNumbers
<1>5. J \subseteq Int /\ \A i, j \in J : v(i) = v(j) => i = j
  <2>1. J \subseteq Int
    BY <1>0
  <2>2. \A i, j \in J : Cardinality({k \in J : k <= i}) = Cardinality({k \in J : k <= j}) => i = j
    BY ONLY <1>2, <2>1, CountNumbers
  <2> QED
    BY <2>1, <2>2
<1>6. \A i \in I : u(i) = v(i) /\ i \in J
  <2> TAKE i \in I
  <2>1. {j \in I : j <= i} = {j \in J : j <= i}
    <3>1. i \in Int /\ ~(n + 1 <= i)
      BY <1>0
    <3> QED
      BY <1>0, <3>1
  <2> QED
    BY <2>1
<1>7. v(n + 1) = c + 1 /\ n + 1 \in J
  <2>1. \A j \in J : j <= n + 1
    BY <1>0
  <2>2. {j \in J : j <= n + 1} = J
    BY <2>1
  <2> QED
    BY <1>2, <2>2
<1>8. /\ \A k : Nth(I, k) = CHOOSE i \in I : u(i) = k
      /\ \A k : Nth(J, k) = CHOOSE i \in J : v(i) = k
  BY DEF Nth
<1> HIDE DEF u, v, c
<1>9. ASSUME NEW k \in 1 .. c PROVE Nth(J, k) = Nth(I, k) /\ Nth(I, k) \in I
  <2>1. Nth(I, k) \in I /\ u(Nth(I, k)) = k
    BY <1>4, <1>8
  <2>2. Nth(I, k) \in J /\ v(Nth(I, k)) = k
    BY <1>6, <2>1
  <2>3. Nth(J, k) \in J /\ v(Nth(J, k)) = k
    BY <1>8, <2>2
  <2> QED
    BY <1>5, <2>1, <2>2, <2>3
<1>10. Nth(J, c + 1) = n + 1
  <2>1. Nth(J, c + 1) \in J /\ v(Nth(J, c + 1)) = c + 1
    BY <1>7, <1>8
  <2> QED
    BY <1>5, <1>7, <2>1
<1> QED
  BY <1>2, <1>3, <1>9, <1>10 DEF c

(* Picking from a sequence with an entry more. *)
LEMMA PickedAppend ==
    ASSUME NEW T, NEW s \in Seq(T), NEW x \in T, NEW I \in SUBSET (DOMAIN s)
    PROVE  /\ Picked(Append(s, x), I) = Picked(s, I)
           /\ Picked(Append(s, x), I \cup {Len(s) + 1}) = Append(Picked(s, I), x)
<1> DEFINE n == Len(s)
           t == Append(s, x)
           J == I \cup {n + 1}
           c == Cardinality(I)
<1>0. n \in Nat /\ DOMAIN s = 1 .. n /\ t[n + 1] = x /\ \A k \in 1 .. n : t[k] = s[k]
  OBVIOUS
<1>1. /\ c \in Nat /\ Cardinality(J) = c + 1
      /\ \A k \in 1 .. c : Nth(J, k) = Nth(I, k) /\ Nth(I, k) \in I
      /\ Nth(J, c + 1) = n + 1
  <2> HIDE DEF n
  <2> QED
    BY <1>0, NthStays
<1>2. Picked(s, I) = [k \in 1 .. c |-> s[Nth(I, k)]] /\ Picked(t, I) = [k \in 1 .. c |-> t[Nth(I, k)]]
  BY DEF Picked
<1>3. Picked(t, J) = [k \in 1 .. c + 1 |-> t[Nth(J, k)]]
  BY <1>1 DEF Picked
<1>4. I \subseteq 1 .. n
  BY <1>0
<1>5. \A k \in 1 .. c : s[Nth(I, k)] \in T /\ t[Nth(J, k)] = s[Nth(I, k)] /\ t[Nth(I, k)] = s[Nth(I, k)]
  <2> TAKE k \in 1 .. c
  <2>1. Nth(J, k) = Nth(I, k) /\ Nth(I, k) \in 1 .. n
    BY <1>1, <1>4
  <2>2. \A i \in 1 .. n : s[i] \in T /\ t[i] = s[i]
    BY <1>0
  <2> HIDE DEF t, n, J, c
  <2> QED
    BY <2>1, <2>2
<1>6. Picked(s, I) \in Seq(T) /\ Len(Picked(s, I)) = c
  <2>1. Picked(s, I) \in [1 .. c -> T]
    BY <1>2, <1>5
  <2> QED
    BY <1>1, <2>1
<1> HIDE DEF n, t, J, c
<1>7. Picked(t, I) = Picked(s, I)
  BY <1>2, <1>5
<1>8. Picked(t, J) = Append(Picked(s, I), x)
  <2> DEFINE p == Picked(s, I)
             q == Picked(t, J)
  <2>1. \A k \in 1 .. c : p[k] = s[Nth(I, k)]
    BY <1>2
  <2>2. p \in Seq(T) /\ Len(p) = c
    BY <1>6
  <2>3. q = [k \in 1 .. c + 1 |-> t[Nth(J, k)]]
    BY <1>3
  <2> HIDE DEF p, q
  <2>4. \A k \in 1 .. c : q[k] = p[k]
    BY <1>1, <1>5, <2>1, <2>3
  <2>5. q[c + 1] = x
    BY <1>0, <1>1, <2>3
  <2>6. q \in [1 .. c + 1 -> T]
    <3>1. \A k \in 1 .. c + 1 : k \in 1 .. c \/ k = c + 1
      BY <1>1
    <3>2. \A k \in 1 .. c : p[k] \in T
      BY <2>2
    <3> QED
      BY <2>3, <2>4, <2>5, <3>1, <3>2
  <2>7. Append(p, x) = q
    <3>1. /\ Append(p, x) \in Seq(T) /\ Len(Append(p, x)) = c + 1 /\ Append(p, x)[c + 1] = x
          /\ \A k \in 1 .. c : Append(p, x)[k] = p[k]
      BY <2>2
    <3>2. q \in Seq(T) /\ Len(q) = c + 1
      BY <1>1, <2>6
    <3>3. \A k \in 1 .. c + 1 : Append(p, x)[k] = q[k]
      BY <1>1, <2>4, <2>5, <3>1
    <3> QED
      BY <3>1, <3>2, <3>3
  <2> QED
    BY <2>7 DEF p, q
<1> QED
  BY <1>7, <1>8 DEF t, J, n

(* Filtering a sequence with an entry more. *)
LEMMA AmongAppend ==
    ASSUME NEW T, NEW s \in Seq(T), NEW x \in T, NEW S
    PROVE  Among(Append(s, x), S) = IF x \in S THEN Append(Among(s, S), x) ELSE Among(s, S)
<1> DEFINE n == Len(s)
           t == Append(s, x)
           I == {i \in DOMAIN s : s[i] \in S}
           J == {i \in DOMAIN t : t[i] \in S}
<1>0. /\ n \in Nat /\ DOMAIN s = 1 .. n /\ DOMAIN t = 1 .. n + 1 /\ t[n + 1] = x
      /\ \A k \in 1 .. n : t[k] = s[k]
  OBVIOUS
<1>1. J = IF x \in S THEN I \cup {n + 1} ELSE I
  <2>1. 1 .. n + 1 = (1 .. n) \cup {n + 1}
    BY <1>0
  <2> HIDE DEF n, t
  <2> QED
    BY <1>0, <2>1
<1>2. Among(t, S) = Picked(t, J) /\ Among(s, S) = Picked(s, I) /\ I \in SUBSET (DOMAIN s)
  BY DEF Among
<1> HIDE DEF I, J
<1>3. Picked(t, I) = Picked(s, I) /\ Picked(t, I \cup {n + 1}) = Append(Picked(s, I), x)
  BY <1>2, PickedAppend
<1> QED
  BY <1>1, <1>2, <1>3

(* A prefix and the next entry. *)
LEMMA PrefixAppend ==
    ASSUME NEW T, NEW s \in Seq(T), NEW k \in 0 .. Len(s) - 1
    PROVE  /\ SubSeq(s, 1, k) \in Seq(T) /\ s[k + 1] \in T /\ Len(SubSeq(s, 1, k)) = k
           /\ SubSeq(s, 1, k + 1) = Append(SubSeq(s, 1, k), s[k + 1])
<1> DEFINE a == SubSeq(s, 1, k)
           b == SubSeq(s, 1, k + 1)
<1>0. k \in Nat /\ k + 1 <= Len(s) /\ Len(s) \in Nat /\ k + 1 \in 1 .. Len(s)
  OBVIOUS
<1>1. a \in Seq(T) /\ Len(a) = k /\ \A m \in 1 .. k : a[m] = s[m]
  BY <1>0
<1>2. b \in Seq(T) /\ Len(b) = k + 1 /\ \A m \in 1 .. k + 1 : b[m] = s[m]
  BY <1>0
<1>3. s[k + 1] \in T
  BY <1>0
<1> HIDE DEF a, b
<1>4. /\ Append(a, s[k + 1]) \in Seq(T) /\ Len(Append(a, s[k + 1])) = k + 1
      /\ Append(a, s[k + 1])[k + 1] = s[k + 1] /\ \A m \in 1 .. k : Append(a, s[k + 1])[m] = a[m]
  BY <1>0, <1>1, <1>3
<1>5. \A m \in 1 .. k + 1 : m \in 1 .. k \/ m = k + 1
  BY <1>0
<1>6. \A m \in 1 .. k + 1 : Append(a, s[k + 1])[m] = b[m]
  BY <1>1, <1>2, <1>4, <1>5
<1>7. Append(a, s[k + 1]) = b
  BY <1>2, <1>4, <1>6
<1> QED
  BY <1>1, <1>3, <1>7 DEF a, b

(* A sequence is a prefix of itself, and so is the empty one. *)
LEMMA WholePrefix ==
    ASSUME NEW T, NEW s \in Seq(T)
    PROVE  SubSeq(s, 1, Len(s)) = s /\ SubSeq(s, 1, 0) = <<>>
<1>1. SubSeq(s, 1, Len(s)) = s
  OBVIOUS
<1>2. SubSeq(s, 1, 0) = <<>>
  OBVIOUS
<1> QED
  BY <1>1, <1>2

(* Nothing is found in nothing. *)
LEMMA EmptyAmong == \A S : Among(<<>>, S) = <<>>
<1> TAKE S
<1>1. <<>> \in Seq({}) /\ Len(<<>>) = 0
  OBVIOUS
<1>2. Len(Among(<<>>, S)) <= Len(<<>>) /\ Among(<<>>, S) \in Seq({} \cap S)
  BY <1>1, AmongIs
<1> QED
  BY <1>1, <1>2

(* Picking everything. *)
LEMMA PickedAll ==
    ASSUME NEW T, NEW s \in Seq(T)
    PROVE  Picked(s, DOMAIN s) = s
<1> DEFINE n == Len(s)
           t(k) == SubSeq(s, 1, k)
           done == {k \in 0 .. n : Picked(t(k), 1 .. k) = t(k)}
<1>0. n \in Nat /\ DOMAIN s = 1 .. n
  OBVIOUS
<1>1. 0 \in done
  <2>1. t(0) = <<>> /\ 0 \in 0 .. n /\ 1 .. 0 = {}
    BY <1>0, WholePrefix
  <2>2. Picked(<<>>, {}) = <<>>
    <3>1. <<>> \in Seq(T) /\ {} \in SUBSET (DOMAIN <<>>) /\ Cardinality({}) = 0
      BY FS_EmptySet
    <3>2. Picked(<<>>, {}) \in Seq(T) /\ Len(Picked(<<>>, {})) = 0
      BY <3>1, PickedIs
    <3> QED
      BY <3>2
  <2> HIDE DEF t
  <2> QED
    BY <2>1, <2>2
<1>2. ASSUME NEW k \in 0 .. n - 1, k \in done PROVE k + 1 \in done
  <2>1. /\ t(k) \in Seq(T) /\ s[k + 1] \in T /\ Len(t(k)) = k
        /\ t(k + 1) = Append(t(k), s[k + 1]) /\ k \in Nat /\ k + 1 \in 0 .. n
    BY <1>0, PrefixAppend
  <2>2. Picked(t(k), 1 .. k) = t(k)
    BY <1>2
  <2> HIDE DEF t, n
  <2>3. DOMAIN t(k) = 1 .. k /\ 1 .. k + 1 = (1 .. k) \cup {k + 1}
    BY <2>1
  <2>4. Picked(Append(t(k), s[k + 1]), (1 .. k) \cup {Len(t(k)) + 1}) = Append(Picked(t(k), 1 .. k), s[k + 1])
    <3> DEFINE q == t(k)
               x == s[k + 1]
               I == 1 .. k
    <3>1. q \in Seq(T) /\ I \in SUBSET (DOMAIN q) /\ x \in T
      BY <2>1, <2>3
    <3> HIDE DEF q, x, I
    <3>2. Picked(Append(q, x), I \cup {Len(q) + 1}) = Append(Picked(q, I), x)
      BY <3>1, PickedAppend
    <3> QED
      BY <3>2 DEF q, x, I
  <2>5. Picked(t(k + 1), 1 .. k + 1) = t(k + 1)
    BY <2>1, <2>2, <2>3, <2>4
  <2> QED
    BY <2>1, <2>5
<1> HIDE DEF done
<1>3. \A k \in 0 .. n : k \in done
  BY <1>0, <1>1, <1>2, UpTo
<1>4. n \in 0 .. n /\ t(n) = s
  BY <1>0, WholePrefix
<1>5. Picked(t(n), 1 .. n) = t(n)
  <2> HIDE DEF t, n
  <2> QED
    BY <1>3, <1>4 DEF done
<1> QED
  BY <1>0, <1>4, <1>5

(* Filtering by a set that has all entries. *)
LEMMA AmongAll ==
    ASSUME NEW S, NEW s \in Seq(S)
    PROVE  Among(s, S) = s
<1>0. \A i \in DOMAIN s : s[i] \in S
  OBVIOUS
<1>1. {i \in DOMAIN s : s[i] \in S} = DOMAIN s
  BY <1>0
<1> QED
  BY <1>1, PickedAll DEF Among

(* No more entries of a list without repetitions are in S than S has. *)
LEMMA AmongFew ==
    ASSUME NEW T, NEW s \in Seq(T), \A i, j \in DOMAIN s : s[i] = s[j] => i = j,
           NEW S, IsFiniteSet(S)
    PROVE  Len(Among(s, S)) <= Cardinality(S)
<1> DEFINE I == {i \in DOMAIN s : s[i] \in S}
           f == [i \in I |-> s[i]]
<1>1. f \in Injection(I, S)
  BY DEF Injection, IsInjective
<1>2. Cardinality(I) <= Cardinality(S)
  BY <1>1, FS_Injection
<1>3. I \in SUBSET (DOMAIN s)
  OBVIOUS
<1> HIDE DEF I
<1>4. Len(Picked(s, I)) = Cardinality(I)
  BY <1>3, PickedIs
<1> QED
  BY <1>2, <1>4 DEF Among, I

(* Cut twice is cut at the shorter length. *)
LEMMA PrefixOfPrefix ==
    ASSUME NEW T, NEW s \in Seq(T), NEW k \in 0 .. Len(s), NEW j \in 0 .. k
    PROVE  SubSeq(SubSeq(s, 1, k), 1, j) = SubSeq(s, 1, j)
<1>1. k \in Nat /\ j \in Nat /\ j <= k /\ k <= Len(s) /\ Len(s) \in Nat
  OBVIOUS
<1> DEFINE t == SubSeq(s, 1, k)
<1>2. t \in Seq(T) /\ Len(t) = k /\ \A i \in 1 .. k : t[i] = s[i]
  BY <1>1
<1> HIDE DEF t
<1>3. SubSeq(t, 1, j) = [i \in 1 .. j |-> t[i]] /\ SubSeq(s, 1, j) = [i \in 1 .. j |-> s[i]]
  BY <1>1, <1>2
<1>4. \A i \in 1 .. j : i \in 1 .. k
  BY <1>1
<1> QED
  BY <1>2, <1>3, <1>4 DEF t

-----------------------------------------------------------------------------
(* Going on from place to place *)

(* A recursion over the places 0 .. n - 1 of a text that goes on to a later  *)
(* place, as the chunkers' loops do.  All of it but n is given by functions. *)
Onward(f, n, piece, next, ends) ==
    f = [s \in 0 .. n |-> IF s = n THEN <<>>
                          ELSE IF s \in ends THEN <<piece[s]>> ELSE <<piece[s]>> \o f[next[s]]]

(* It is defined. *)
LEMMA OnwardExists ==
    ASSUME NEW n \in Nat, NEW piece, NEW next, NEW ends,
           \A s \in 0 .. n - 1 : s \notin ends => next[s] \in s + 1 .. n
    PROVE  \E f : Onward(f, n, piece, next, ends)
<1> DEFINE Body(g, s) == IF s = n THEN <<>>
                         ELSE IF s \in ends THEN <<piece[s]>> ELSE <<piece[s]>> \o g[next[s]]
           Good(g, m) == g = [s \in 0 .. n |-> g[s]] /\ \A s \in n - m .. n : g[s] = Body(g, s)
           done == {m \in 0 .. n : \E g : Good(g, m)}
<1>1. 0 \in done
  <2> DEFINE g == [s \in 0 .. n |-> <<>>]
  <2>1. n - 0 .. n = {n} /\ n \in 0 .. n /\ 0 \in 0 .. n
    OBVIOUS
  <2>2. Good(g, 0)
    BY <2>1
  <2> HIDE DEF Good
  <2> QED
    BY <2>1, <2>2
<1>2. ASSUME NEW m \in 0 .. n - 1, m \in done PROVE m + 1 \in done
  <2>1. PICK g : Good(g, m)
    BY <1>2
  <2> DEFINE a == n - (m + 1)
             h == [s \in 0 .. n |-> IF s = a THEN Body(g, a) ELSE g[s]]
  <2>2. a \in 0 .. n - 1 /\ m + 1 \in 0 .. n /\ n - m = a + 1
    OBVIOUS
  <2> HIDE DEF a
  <2>3. \A s \in a + 1 .. n : s \in 0 .. n /\ s # a /\ h[s] = g[s]
    BY <2>2
  <2>4. ASSUME NEW s \in a .. n PROVE h[s] = Body(h, s)
    <3>1. s # n /\ s \notin ends => next[s] \in a + 1 .. n
      BY <2>2
    <3>2. s # n /\ s \notin ends => h[next[s]] = g[next[s]]
      BY <2>3, <3>1
    <3>3. Body(h, s) = Body(g, s)
      BY <3>2
    <3>4. CASE s = a
      <4>1. h[s] = Body(g, s)
        BY <2>2, <3>4
      <4> QED
        BY <3>3, <4>1
    <3>5. CASE s # a
      <4>1. s \in a + 1 .. n
        BY <2>2, <3>5
      <4>2. h[s] = g[s] /\ g[s] = Body(g, s)
        BY <2>1, <2>2, <2>3, <4>1
      <4> QED
        BY <3>3, <4>2
    <3> QED
      BY <3>4, <3>5
  <2>5. h = [s \in 0 .. n |-> h[s]]
    OBVIOUS
  <2> HIDE DEF h, Body
  <2>6. Good(h, m + 1)
    BY <2>4, <2>5 DEF a
  <2> HIDE DEF Good
  <2> QED
    BY <2>2, <2>6
<1> HIDE DEF done
<1>3. n \in done
  <2>1. \A k \in 0 .. n : k \in done
    BY <1>1, <1>2, UpTo
  <2> QED
    BY <2>1
<1>4. PICK g : Good(g, n)
  BY <1>3 DEF done
<1>5. n - n .. n = 0 .. n
  OBVIOUS
<1>6. Onward(g, n, piece, next, ends)
  <2>1. \A s \in 0 .. n : g[s] = Body(g, s)
    BY <1>4, <1>5
  <2>2. g = [s \in 0 .. n |-> g[s]]
    BY <1>4
  <2> QED
    BY <2>1, <2>2 DEF Onward
<1> QED
  BY <1>6

(* The entries after the one in front. *)
LEMMA ConsAt ==
    ASSUME NEW P, NEW x \in P, NEW c \in Seq(P)
    PROVE  /\ <<x>> \o c \in Seq(P) /\ Len(<<x>> \o c) = Len(c) + 1 /\ (<<x>> \o c)[1] = x
           /\ \A k \in 2 .. Len(c) + 1 : (<<x>> \o c)[k] = c[k - 1]
OBVIOUS

(* Where the pieces of c begin: each where the one before it goes on to, and *)
(* the last one at an end.                                                   *)
Trail(c, at, s, n, piece, next, ends) ==
    /\ c \in Seq({piece[x] : x \in 0 .. n - 1}) /\ Len(c) > 0
    /\ at \in [1 .. Len(c) -> 0 .. n - 1] /\ at[1] = s
    /\ \A k \in 1 .. Len(c) : c[k] = piece[at[k]]
    /\ \A k \in 1 .. Len(c) - 1 : at[k] \notin ends /\ at[k + 1] = next[at[k]]
    /\ at[Len(c)] \in ends

(* Such a recursion yields pieces that are a trail. *)
LEMMA OnwardTrail ==
    ASSUME NEW n \in Nat, NEW piece, NEW next, NEW ends,
           \A s \in 0 .. n - 1 : s \notin ends => next[s] \in s + 1 .. n - 1,
           NEW f, Onward(f, n, piece, next, ends)
    PROVE  \A s \in 0 .. n - 1 : \E at : Trail(f[s], at, s, n, piece, next, ends)
<1> DEFINE Has(s) == \E at : Trail(f[s], at, s, n, piece, next, ends)
           done == {m \in 0 .. n : \A s \in n - m .. n - 1 : Has(s)}
<1>1. 0 \in done
  OBVIOUS
<1>2. ASSUME NEW m \in 0 .. n - 1, m \in done PROVE m + 1 \in done
  <2> DEFINE s == n - (m + 1)
             P == {piece[x] : x \in 0 .. n - 1}
  <2>1. s \in 0 .. n - 1 /\ m + 1 \in 0 .. n /\ n - m = s + 1 /\ n - (m + 1) = s
    OBVIOUS
  <2> HIDE DEF s
  <2>2. s # n /\ s \in 0 .. n /\ piece[s] \in P
    BY <2>1
  <2>3. f[s] = IF s \in ends THEN <<piece[s]>> ELSE <<piece[s]>> \o f[next[s]]
    BY <2>2 DEF Onward
  <2>4. Has(s)
    <3>1. CASE s \in ends
      <4>1. <<piece[s]>> \in Seq(P) /\ Len(<<piece[s]>>) = 1 /\ <<piece[s]>>[1] = piece[s]
        BY <2>2
      <4> DEFINE at == [k \in 1 .. 1 |-> s]
      <4>2. at \in [1 .. 1 -> 0 .. n - 1] /\ at[1] = s
        BY <2>1
      <4> HIDE DEF at
      <4>3. \A k \in 1 .. 1 : k = 1
        OBVIOUS
      <4>4. Trail(f[s], at, s, n, piece, next, ends)
        BY <2>3, <3>1, <4>1, <4>2, <4>3 DEF Trail
      <4> QED
        BY <4>4
    <3>2. CASE s \notin ends
      <4> DEFINE t == next[s]
                 c == f[t]
                 u == <<piece[s]>> \o c
      <4>1. t \in s + 1 .. n - 1
        BY <2>1, <3>2
      <4>2. PICK bt : Trail(c, bt, t, n, piece, next, ends)
        BY <1>2, <2>1, <4>1
      <4>3. c \in Seq(P) /\ Len(c) \in Nat /\ Len(c) > 0 /\ bt \in [1 .. Len(c) -> 0 .. n - 1]
        BY <4>2 DEF Trail
      <4>4. f[s] = u
        BY <2>3, <3>2
      <4> HIDE DEF c
      <4>5. u \in Seq(P) /\ Len(u) = Len(c) + 1 /\ u[1] = piece[s] /\ \A k \in 2 .. Len(c) + 1 : u[k] = c[k - 1]
        <5> HIDE DEF P
        <5>1. piece[s] \in P /\ c \in Seq(P)
          BY <2>2, <4>3
        <5> QED
          BY <5>1, ConsAt
      <4> HIDE DEF u
      <4> DEFINE at == [k \in 1 .. Len(c) + 1 |-> IF k = 1 THEN s ELSE bt[k - 1]]
                 l == Len(c)
      <4>6. /\ at[1] = s
            /\ \A k \in 2 .. l + 1 : at[k] = bt[k - 1]
            /\ at \in [1 .. l + 1 -> 0 .. n - 1]
        BY <2>1, <4>3
      <4> HIDE DEF at
      <4>7. l \in Nat /\ l > 0 /\ Len(u) = l + 1
        BY <4>3, <4>5
      <4> HIDE DEF l
      <4>8. ASSUME NEW k \in 1 .. l + 1 PROVE u[k] = piece[at[k]]
        <5>1. CASE k = 1
          BY <4>5, <4>6, <5>1
        <5>2. CASE k # 1
          <6>1. k \in 2 .. l + 1 /\ k - 1 \in 1 .. l
            BY <4>7, <5>2
          <6> QED
            BY <4>2, <4>5, <4>6, <6>1 DEF Trail, l
        <5> QED
          BY <5>1, <5>2
      <4>9. ASSUME NEW k \in 1 .. l PROVE at[k] \notin ends /\ at[k + 1] = next[at[k]]
        <5>1. CASE k = 1
          <6>1. at[k + 1] = bt[1]
            BY <4>6, <4>7, <5>1
          <6> QED
            BY <3>2, <4>2, <4>6, <5>1, <6>1 DEF Trail
        <5>2. CASE k # 1
          <6>1. k \in 2 .. l + 1 /\ k + 1 \in 2 .. l + 1 /\ k - 1 \in 1 .. l - 1 /\ k + 1 - 1 = k - 1 + 1
            BY <4>7, <5>2
          <6>2. bt[k - 1] \notin ends /\ bt[k - 1 + 1] = next[bt[k - 1]]
            BY <4>2, <6>1 DEF Trail, l
          <6> QED
            BY <4>6, <6>1, <6>2
        <5> QED
          BY <5>1, <5>2
      <4>10. at[l + 1] \in ends
        <5>1. l + 1 \in 2 .. l + 1 /\ l + 1 - 1 = l
          BY <4>7
        <5> QED
          BY <4>2, <4>6, <5>1 DEF Trail, l
      <4>11. Trail(f[s], at, s, n, piece, next, ends)
        <5>1. 1 .. (l + 1) - 1 = 1 .. l
          BY <4>7
        <5>2. u \in Seq({piece[x] : x \in 0 .. n - 1}) /\ Len(u) > 0
          BY <4>5, <4>7
        <5> HIDE DEF P
        <5> QED
          BY <4>4, <4>6, <4>7, <4>8, <4>9, <4>10, <5>1, <5>2 DEF Trail
      <4> QED
        BY <4>11
    <3> QED
      BY <3>1, <3>2
  <2> HIDE DEF Has
  <2>5. \A x \in s .. n - 1 : Has(x)
    <3> TAKE x \in s .. n - 1
    <3>1. x = s \/ x \in n - m .. n - 1
      BY <2>1
    <3> QED
      BY <1>2, <2>4, <3>1
  <2> QED
    BY <2>1, <2>5
<1> HIDE DEF Has, done
<1>3. n \in done
  <2>1. \A k \in 0 .. n : k \in done
    BY <1>1, <1>2, UpTo
  <2> QED
    BY <2>1
<1>4. n - n .. n - 1 = 0 .. n - 1
  OBVIOUS
<1> QED
  BY <1>3, <1>4 DEF done, Has

(* Pieces that reach the next one's start leave nothing out. *)
LEMMA TrailCovers ==
    ASSUME NEW n \in Nat \ {0}, NEW to, NEW piece, NEW next, NEW ends,
           \A s \in 0 .. n - 1 : to[s] \in s + 1 .. n,
           \A s \in 0 .. n - 1 : s \in ends <=> to[s] = n,
           \A s \in 0 .. n - 1 : s \notin ends => next[s] \in s + 1 .. to[s],
           NEW c, NEW at, Trail(c, at, 0, n, piece, next, ends)
    PROVE  \A x \in 0 .. n - 1 : \E k \in 1 .. Len(c) : at[k] <= x /\ x < to[at[k]]
<1> TAKE x \in 0 .. n - 1
<1> DEFINE l == Len(c)
           T == {k \in 1 .. l : at[k] <= x}
<1>1. l \in Nat /\ l > 0 /\ at \in [1 .. l -> 0 .. n - 1] /\ at[1] = 0
  BY DEF Trail
<1> HIDE DEF l
<1>2. T \in SUBSET (1 .. l) /\ T # {}
  <2>1. 1 \in T
    BY <1>1
  <2> QED
    BY <2>1
<1>3. PICK k \in T : \A j \in T : j <= k
  BY <1>1, <1>2, LastOf
<1>4. k \in 1 .. l /\ at[k] <= x /\ at[k] \in 0 .. n - 1 /\ to[at[k]] \in at[k] + 1 .. n
  BY <1>1, <1>3
<1>5. x < to[at[k]]
  <2>1. CASE k = l
    <3>1. at[k] \in ends
      BY <2>1 DEF Trail, l
    <3>2. to[at[k]] = n
      BY <1>4, <3>1
    <3> QED
      BY <3>2
  <2>2. CASE k # l
    <3>1. k \in 1 .. l - 1 /\ k + 1 \in 1 .. l /\ ~(k + 1 <= k)
      BY <1>1, <1>4, <2>2
    <3>2. at[k] \notin ends /\ at[k + 1] = next[at[k]]
      BY <3>1 DEF Trail, l
    <3>3. at[k + 1] \in at[k] + 1 .. to[at[k]] /\ at[k + 1] \in 0 .. n - 1
      BY <1>1, <1>4, <3>1, <3>2
    <3>4. ~(at[k + 1] <= x)
      BY <1>3, <3>1
    <3> QED
      BY <1>4, <3>3, <3>4
  <2> QED
    BY <2>1, <2>2
<1> QED
  BY <1>4, <1>5 DEF l

(* The entries of two sequences joined. *)
LEMMA JoinedAt ==
    ASSUME NEW T, NEW a \in Seq(T), NEW b \in Seq(T)
    PROVE  /\ DOMAIN (a \o b) = 1 .. Len(a) + Len(b) /\ a \o b \in Seq(T)
           /\ \A k \in 1 .. Len(a) + Len(b) : (a \o b)[k] = IF k <= Len(a) THEN a[k] ELSE b[k - Len(a)]
OBVIOUS

(* The numbers from a to b. *)
LEMMA SpanCounts ==
    ASSUME NEW a \in Int, NEW b \in Int
    PROVE  IsFiniteSet(a .. b) /\ (a <= b + 1 => Cardinality(a .. b) = b - a + 1)
<1>1. IsFiniteSet(a .. b) /\ Cardinality(a .. b) = IF a > b THEN 0 ELSE b - a + 1
  BY FS_Interval
<1> QED
  BY <1>1

(* An entry of a sequence over T. *)
LEMMA EntryIsIn ==
    ASSUME NEW T, NEW s \in Seq(T), NEW i \in DOMAIN s
    PROVE  s[i] \in T
OBVIOUS

-----------------------------------------------------------------------------
(* Ranking *)

(* R puts some of 1 .. n above others, as greater values would. *)
RanksWeakly(n, R) ==
    /\ \A x, y \in 1 .. n : <<x, y>> \in R => <<y, x>> \notin R
    /\ \A x, y, z \in 1 .. n : <<x, y>> \notin R /\ <<y, z>> \notin R => <<x, z>> \notin R

(* np.argsort: each position once, and none before one with a greater value. *)
LEMMA ArgsortIs ==
    ASSUME NEW n \in Nat, NEW R, RanksWeakly(n, R)
    PROVE  LET s == Argsort(n, R)
           IN /\ s \in Seq(1 .. n) /\ Len(s) = n /\ Range(s) = 1 .. n
              /\ \A i, j \in 1 .. n : i < j => s[i] # s[j] /\ <<s[j], s[i]>> \notin R
<1> DEFINE T == {e \in Pairs(1 .. n) : e \in R \/ (e[1] < e[2] /\ <<e[2], e[1]>> \notin R)}
           Fits(s) == \A i, j \in 1 .. n : i < j => s[i] # s[j] /\ <<s[j], s[i]>> \notin R
           s == Argsort(n, R)
<1>1. \A x, y \in 1 .. n : <<x, y>> \in T <=> <<x, y>> \in R \/ (x < y /\ <<y, x>> \notin R)
  BY DEF Pairs
<1> HIDE DEF T
<1>2. Orders(T, 1 .. n)
  <2>1. \A x, y \in 1 .. n : <<x, y>> \in T => <<y, x>> \notin T
    BY <1>1 DEF RanksWeakly
  <2>2. \A x, y \in 1 .. n : x = y \/ <<x, y>> \in T \/ <<y, x>> \in T
    <3> TAKE x, y \in 1 .. n
    <3>1. x < y \/ y < x \/ x = y
      OBVIOUS
    <3>2. /\ <<x, y>> \in T <=> <<x, y>> \in R \/ (x < y /\ <<y, x>> \notin R)
          /\ <<y, x>> \in T <=> <<y, x>> \in R \/ (y < x /\ <<x, y>> \notin R)
      BY <1>1
    <3> QED
      BY <3>1, <3>2
  <2>3. ASSUME NEW x \in 1 .. n, NEW y \in 1 .. n, NEW z \in 1 .. n, <<x, y>> \in T, <<y, z>> \in T
        PROVE  <<x, z>> \in T
    <3>1. <<y, x>> \notin R /\ <<z, y>> \notin R
      BY <1>1, <2>3 DEF RanksWeakly
    <3>2. <<z, x>> \notin R
      BY <3>1 DEF RanksWeakly
    <3>3. CASE <<x, y>> \in R \/ <<y, z>> \in R
      <4>1. <<x, z>> \in R
        BY <3>1, <3>3 DEF RanksWeakly
      <4> QED
        BY <1>1, <4>1
    <3>4. CASE ~(<<x, y>> \in R \/ <<y, z>> \in R)
      <4>1. x < y /\ y < z
        BY <1>1, <2>3, <3>4
      <4>2. x < z
        BY <4>1
      <4> QED
        BY <1>1, <3>2, <4>2
    <3> QED
      BY <3>3, <3>4
  <2> QED
    BY <2>1, <2>2, <2>3 DEF Orders
<1>3. IsFiniteSet(1 .. n) /\ Cardinality(1 .. n) = n
  BY SpanCounts, FS_Interval
<1>4. \E t \in [1 .. n -> 1 .. n] : Fits(t)
  <2> DEFINE t == Sorted(1 .. n, T)
  <2>1. /\ t \in Seq(1 .. n) /\ Len(t) = n
        /\ \A i, j \in DOMAIN t : i < j <=> <<t[i], t[j]>> \in T
        /\ \A i, j \in DOMAIN t : t[i] = t[j] => i = j
    BY <1>2, <1>3, SortedIs
  <2> HIDE DEF t
  <2>2. DOMAIN t = 1 .. n /\ t \in [1 .. n -> 1 .. n]
    BY <2>1
  <2>3. ASSUME NEW i \in 1 .. n, NEW j \in 1 .. n, i < j PROVE t[i] # t[j] /\ <<t[j], t[i]>> \notin R
    <3>1. t[i] \in 1 .. n /\ t[j] \in 1 .. n
      BY <2>2
    <3>2. i # j /\ <<t[i], t[j]>> \in T
      BY <2>1, <2>2, <2>3
    <3> QED
      BY <1>1, <2>1, <2>2, <3>1, <3>2 DEF RanksWeakly
  <2> QED
    BY <2>2, <2>3
<1>5. s \in [1 .. n -> 1 .. n] /\ Fits(s)
  BY <1>4, Zenon DEF Argsort
<1> HIDE DEF s
<1>6. s \in Seq(1 .. n) /\ Len(s) = n /\ DOMAIN s = 1 .. n
  BY <1>5
<1>7. Range(s) = 1 .. n
  <2>1. \A i, j \in 1 .. n : s[i] = s[j] => i = j
    <3> TAKE i, j \in 1 .. n
    <3>1. i < j \/ j < i \/ i = j
      OBVIOUS
    <3> QED
      BY <1>5, <3>1
  <2>2. s \in Injection(1 .. n, 1 .. n)
    BY <1>5, <2>1 DEF Injection, IsInjective
  <2>3. s \in Surjection(1 .. n, 1 .. n)
    BY <1>3, <2>2, FS_Injection
  <2> QED
    BY <1>6, <2>3 DEF Surjection, Range
<1> QED
  BY <1>5, <1>6, <1>7 DEF s

(* Rules for products of naturals, and how to cancel a factor. *)
LEMMA ProductsAre ==
    ASSUME NEW a \in Nat, NEW b \in Nat, NEW c \in Nat
    PROVE  a * b \in Nat /\ a * b = b * a /\ (a * b) * c = a * (b * c) /\ (a * b) * c = (a * c) * b
           /\ (c # 0 /\ c * a <= c * b => a <= b)
<1>1. a * b \in Nat /\ a * b = b * a
  OBVIOUS
<1>2. (a * b) * c = a * (b * c)
  BY Regroup
<1>3. (a * c) * b = a * (c * b)
  BY Regroup
<1>4. b * c = c * b
  OBVIOUS
<1>5. c # 0 /\ c * a <= c * b => a <= b
  <2> SUFFICES ASSUME c # 0, c * a <= c * b, b < a PROVE FALSE
    OBVIOUS
  <2>1. b + 1 <= a /\ b + 1 \in Nat
    OBVIOUS
  <2>2. c * (b + 1) <= c * a
    BY <2>1, TimesMono
  <2>3. c * (b + 1) = c * b + c
    OBVIOUS
  <2>4. c * b \in Nat /\ c * a \in Nat
    OBVIOUS
  <2> HIDE DEF Nat
  <2> QED
    BY <2>2, <2>3, <2>4
<1> QED
  BY <1>1, <1>2, <1>3, <1>4, <1>5

(* Fractions a/p, b/q and c/r compare transitively, by cross products. *)
LEMMA Fractions ==
    ASSUME NEW a \in Nat, NEW b \in Nat, NEW c \in Nat, NEW p \in Nat, NEW q \in Nat \ {0}, NEW r \in Nat,
           a * q <= b * p, b * r <= c * q
    PROVE  a * r <= c * p
<1>1. (a * q) * r <= (b * p) * r
  BY ProductsAre, TimesMono
<1>2. (b * r) * p <= (c * q) * p
  BY ProductsAre, TimesMono
<1>3. (b * p) * r = (b * r) * p
  BY ProductsAre
<1>4. (a * q) * r = q * (a * r)
  <2>1. (a * q) * r = (q * a) * r
    BY ProductsAre
  <2> QED
    BY <2>1, ProductsAre
<1>5. (c * q) * p = q * (c * p)
  <2>1. (c * q) * p = (q * c) * p
    BY ProductsAre
  <2> QED
    BY <2>1, ProductsAre
<1>6. (a * q) * r \in Nat /\ (b * p) * r \in Nat /\ (c * q) * p \in Nat /\ a * r \in Nat /\ c * p \in Nat
  BY ProductsAre
<1>7. q * (a * r) <= q * (c * p)
  BY <1>1, <1>2, <1>3, <1>4, <1>5, <1>6
<1> DEFINE x == a * r
           y == c * p
<1>8. x \in Nat /\ y \in Nat /\ q * x <= q * y
  BY <1>6, <1>7
<1> HIDE DEF x, y
<1>9. x <= y
  BY <1>8, ProductsAre
<1> QED
  BY <1>9 DEF x, y

(* A sequence without repetition has as many members as entries. *)
LEMMA CountOnce ==
    ASSUME NEW T, NEW s \in Seq(T), \A i, j \in DOMAIN s : s[i] = s[j] => i = j
    PROVE  IsFiniteSet(Range(s)) /\ Cardinality(Range(s)) = Len(s)
<1>1. Len(s) \in Nat /\ DOMAIN s = 1 .. Len(s) /\ Len(s) \in Int /\ 1 \in Int /\ 1 <= Len(s) + 1
      /\ Len(s) - 1 + 1 = Len(s)
  OBVIOUS
<1>2. s \in Surjection(1 .. Len(s), Range(s)) /\ s \in Injection(1 .. Len(s), Range(s))
  <2>1. s = [k \in 1 .. Len(s) |-> s[k]] /\ \A k \in 1 .. Len(s) : s[k] \in Range(s)
    BY <1>1 DEF Range
  <2>2. s \in [1 .. Len(s) -> Range(s)]
    BY <2>1
  <2>3. \A x \in Range(s) : \E k \in 1 .. Len(s) : s[k] = x
    BY <1>1 DEF Range
  <2> QED
    BY <1>1, <2>2, <2>3 DEF Surjection, Injection, IsInjective
<1>3. IsFiniteSet(1 .. Len(s)) /\ Cardinality(1 .. Len(s)) = Len(s)
  BY <1>1, SpanCounts
<1> QED
  BY <1>2, <1>3, FS_Surjection

(* R ranks S by the score a, equal ones by the numbers b, then c. *)
RanksBy(R, S, a, b, c) ==
    /\ \A x \in S : a[x] \in Nat /\ b[x] \in Nat /\ c[x] \in Nat
    /\ \A x, y \in S : a[x] = a[y] /\ b[x] = b[y] /\ c[x] = c[y] => x = y
    /\ \A x, y \in S : <<x, y>> \in R <=>
         a[x] > a[y] \/ (a[x] = a[y] /\ (b[x] < b[y] \/ (b[x] = b[y] /\ c[x] < c[y])))

(* Such a ranking is an order. *)
LEMMA Lexicographic ==
    ASSUME NEW S, NEW R, NEW a, NEW b, NEW c, RanksBy(R, S, a, b, c)
    PROVE  Orders(R, S)
<1> USE DEF RanksBy
<1>1. ASSUME NEW x \in S, NEW y \in S, <<x, y>> \in R PROVE <<y, x>> \notin R
  <2>1. a[x] \in Nat /\ b[x] \in Nat /\ c[x] \in Nat /\ a[y] \in Nat /\ b[y] \in Nat /\ c[y] \in Nat
    OBVIOUS
  <2> QED
    BY <1>1, <2>1
<1>2. ASSUME NEW x \in S, NEW y \in S PROVE x = y \/ <<x, y>> \in R \/ <<y, x>> \in R
  <2>1. a[x] \in Nat /\ b[x] \in Nat /\ c[x] \in Nat /\ a[y] \in Nat /\ b[y] \in Nat /\ c[y] \in Nat
    OBVIOUS
  <2>2. x = y \/ a[x] # a[y] \/ b[x] # b[y] \/ c[x] # c[y]
    OBVIOUS
  <2>3. \/ a[x] # a[y] \/ b[x] # b[y] \/ c[x] # c[y]
        => \/ a[x] > a[y] \/ (a[x] = a[y] /\ (b[x] < b[y] \/ (b[x] = b[y] /\ c[x] < c[y])))
           \/ a[y] > a[x] \/ (a[y] = a[x] /\ (b[y] < b[x] \/ (b[y] = b[x] /\ c[y] < c[x])))
    BY ONLY <2>1
  <2> QED
    BY <2>2, <2>3
<1>3. ASSUME NEW x \in S, NEW y \in S, NEW z \in S, <<x, y>> \in R, <<y, z>> \in R PROVE <<x, z>> \in R
  <2>1. /\ a[x] \in Nat /\ b[x] \in Nat /\ c[x] \in Nat /\ a[y] \in Nat /\ b[y] \in Nat /\ c[y] \in Nat
        /\ a[z] \in Nat /\ b[z] \in Nat /\ c[z] \in Nat
    OBVIOUS
  <2> QED
    BY <1>3, <2>1
<1> QED
  BY <1>1, <1>2, <1>3 DEF Orders
=============================================================================
