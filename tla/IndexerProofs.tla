--------------------------- MODULE IndexerProofs ---------------------------
(***************************************************************************)
(* What Indexer keeps, for any paths, contents and number of calls.         *)
(*                                                                          *)
(* With any number of threads, failures and crashes: rows that are named    *)
(* exist (RowsInRange).  With one caller, without failures and crashes, and *)
(* with contents whose chunks differ: records, chunks and rows agree        *)
(* between calls, and a scan indexes everything.  Each of the hypotheses is *)
(* needed; the README tells what happens without it.                        *)
(***************************************************************************)
EXTENDS Indexer, SetLemmas

-----------------------------------------------------------------------------
(* The embedding store *)

(* Ranks number the indices of a batch from 1. *)
LEMMA RankNumbers ==
    ASSUME NEW T, IsFiniteSet(T), T \subseteq Int
    PROVE  /\ Cardinality(T) \in Nat
           /\ \A i \in T : Rank(T, i) \in 1..Cardinality(T)
           /\ \A i, j \in T : Rank(T, i) = Rank(T, j) => i = j
           /\ \A k \in 1..Cardinality(T) : \E i \in T : Rank(T, i) = k
BY CountNumbers DEF Rank

(* What a batch of n is given, k of it recycled: fresh rows, each once, all  *)
(* that the store gives up.                                                  *)
BatchSound(e, T, rows, n, k) ==
    LET L == Len(e.freelist) IN
    /\ n \in Nat /\ k \in Nat /\ k <= n /\ k <= L
    /\ rows \in [T -> 0 .. e.num_rows + (n - k) - 1]
    /\ \A i, j \in T : rows[i] = rows[j] => i = j
    /\ \A i \in T : rows[i] >= e.num_rows \/ \E m \in (L - k + 1) .. L : rows[i] = e.freelist[m]
    /\ \A r \in e.num_rows .. e.num_rows + (n - k) - 1 : \E i \in T : rows[i] = r
    /\ \A m \in (L - k + 1) .. L : \E i \in T : rows[i] = e.freelist[m]

LEMMA BatchRows ==
    ASSUME NEW e, StoreSound(e), NEW T, IsFiniteSet(T), T \subseteq Int
    PROVE  BatchSound(e, T, RowsForBatch(e, T), Cardinality(T), Min({Cardinality(T), Len(e.freelist)}))
<1> DEFINE L == Len(e.freelist)
           rows == RowsForBatch(e, T)
           n == Cardinality(T)
           k == Min({n, L})
<1>1. /\ e.num_rows \in Nat /\ L \in Nat /\ DOMAIN e.freelist = 1..L
      /\ \A m \in 1..L : e.freelist[m] \in Nat /\ e.freelist[m] < e.num_rows
  BY DEF StoreSound, RowsOf
<1>2. \A a, b \in 1..L : e.freelist[a] = e.freelist[b] => a = b
  BY <1>1 DEF StoreSound
<1>3. /\ n \in Nat
      /\ \A i \in T : Rank(T, i) \in 1..n
      /\ \A i, j \in T : Rank(T, i) = Rank(T, j) => i = j
      /\ \A m \in 1..n : \E i \in T : Rank(T, i) = m
  BY RankNumbers
<1>4. k = IF n <= L THEN n ELSE L
  <2>1. n \in Int /\ L \in Int
    BY <1>1, <1>3
  <2> HIDE DEF n, L
  <2> QED
    BY <2>1, MinOfTwo
<1>5. \A i \in T : rows[i] = IF Rank(T, i) <= L THEN e.freelist[L - Rank(T, i) + 1]
                             ELSE e.num_rows + Rank(T, i) - L - 1
  BY DEF RowsForBatch
<1>6. DOMAIN rows = T /\ rows = [i \in T |-> rows[i]]
  BY DEF RowsForBatch
<1> HIDE DEF rows, n, k, L
<1>7. ASSUME NEW i \in T, Rank(T, i) <= L
      PROVE  /\ L - Rank(T, i) + 1 \in (L - k + 1) .. L
             /\ rows[i] = e.freelist[L - Rank(T, i) + 1]
             /\ rows[i] \in 0 .. e.num_rows - 1
  <2>1. L - Rank(T, i) + 1 \in 1..L /\ L - Rank(T, i) + 1 \in (L - k + 1) .. L
    BY <1>1, <1>3, <1>4, <1>7
  <2>2. rows[i] = e.freelist[L - Rank(T, i) + 1]
    BY <1>5, <1>7
  <2> QED
    BY <1>1, <2>1, <2>2
<1>8. ASSUME NEW i \in T, ~(Rank(T, i) <= L)
      PROVE  /\ rows[i] = e.num_rows + Rank(T, i) - L - 1
             /\ rows[i] \in e.num_rows .. e.num_rows + (n - k) - 1
  <2>1. rows[i] = e.num_rows + Rank(T, i) - L - 1
    BY <1>5, <1>8
  <2> QED
    BY <1>1, <1>3, <1>4, <1>8, <2>1
<1>9. \A i \in T : rows[i] \in 0 .. e.num_rows + (n - k) - 1
  <2> TAKE i \in T
  <2>1. n - k \in Nat
    BY <1>1, <1>3, <1>4
  <2>2. CASE Rank(T, i) <= L
    <3>1. rows[i] \in 0 .. e.num_rows - 1 /\ e.num_rows \in Nat
      BY <1>1, <1>7, <2>2
    <3> QED
      BY <2>1, <3>1
  <2>3. CASE ~(Rank(T, i) <= L)
    <3>1. rows[i] \in e.num_rows .. e.num_rows + (n - k) - 1 /\ e.num_rows \in Nat
      BY <1>1, <1>8, <2>3
    <3> QED
      BY <2>1, <3>1
  <2> QED
    BY <2>2, <2>3
<1>10. ASSUME NEW i \in T, NEW j \in T, rows[i] = rows[j] PROVE i = j
  <2>1. CASE Rank(T, i) <= L /\ Rank(T, j) <= L
    <3>1. L - Rank(T, i) + 1 = L - Rank(T, j) + 1
      <4>1. L - Rank(T, i) + 1 \in 1..L /\ L - Rank(T, j) + 1 \in 1..L
        BY <1>1, <1>3, <2>1
      <4> QED
        BY <1>2, <1>7, <1>10, <2>1, <4>1
    <3>2. Rank(T, i) = Rank(T, j)
      BY <1>1, <1>3, <3>1
    <3> QED
      BY <1>3, <3>2
  <2>2. CASE ~(Rank(T, i) <= L) /\ ~(Rank(T, j) <= L)
    <3>1. e.num_rows + Rank(T, i) - L - 1 = e.num_rows + Rank(T, j) - L - 1
      BY <1>8, <1>10, <2>2
    <3>2. Rank(T, i) \in Int /\ Rank(T, j) \in Int /\ e.num_rows \in Int /\ L \in Int
      BY <1>1, <1>3
    <3>3. Rank(T, i) = Rank(T, j)
      BY <3>1, <3>2
    <3> QED
      BY <1>3, <3>3
  <2>3. CASE (Rank(T, i) <= L) # (Rank(T, j) <= L)
    <3>1. \/ rows[i] < e.num_rows /\ rows[j] >= e.num_rows
          \/ rows[j] < e.num_rows /\ rows[i] >= e.num_rows
      BY <1>1, <1>7, <1>8, <2>3
    <3>2. rows[i] \in Int /\ rows[j] \in Int
      BY <1>9
    <3> QED
      BY <1>1, <1>10, <3>1, <3>2
  <2> QED
    BY <2>1, <2>2, <2>3
<1>11. ASSUME NEW r \in e.num_rows .. e.num_rows + (n - k) - 1
       PROVE  \E i \in T : rows[i] = r
  <2>1. r - e.num_rows + L + 1 \in 1..n /\ ~(r - e.num_rows + L + 1 <= L)
    BY <1>1, <1>3, <1>4
  <2>2. PICK i \in T : Rank(T, i) = r - e.num_rows + L + 1
    BY <1>3, <2>1
  <2>3. rows[i] = e.num_rows + Rank(T, i) - L - 1
    BY <1>8, <2>1, <2>2
  <2>4. rows[i] = r
    BY <1>1, <2>2, <2>3
  <2> QED
    BY <2>4
<1>12. ASSUME NEW m \in (L - k + 1) .. L
       PROVE  \E i \in T : rows[i] = e.freelist[m]
  <2>1. L - m + 1 \in 1..n /\ L - m + 1 <= L /\ L - (L - m + 1) + 1 = m
    BY <1>1, <1>3, <1>4
  <2>2. PICK i \in T : Rank(T, i) = L - m + 1
    BY <1>3, <2>1
  <2>3. rows[i] = e.freelist[L - Rank(T, i) + 1]
    BY <1>7, <2>1, <2>2
  <2> QED
    BY <2>1, <2>2, <2>3
<1>13. \A i \in T : rows[i] >= e.num_rows \/ \E m \in (L - k + 1) .. L : rows[i] = e.freelist[m]
  <2> TAKE i \in T
  <2>1. CASE Rank(T, i) <= L
    BY <1>7, <2>1
  <2>2. CASE ~(Rank(T, i) <= L)
    BY <1>1, <1>8, <2>2
  <2> QED
    BY <2>1, <2>2
<1>14. rows \in [T -> 0 .. e.num_rows + (n - k) - 1]
  BY <1>6, <1>9
<1>15. k \in Nat /\ k <= n /\ k <= L
  BY <1>1, <1>3, <1>4
<1> QED
  BY <1>3, <1>10, <1>11, <1>12, <1>13, <1>14, <1>15 DEF rows, n, k, L, BatchSound

(* append_batch keeps the store sound: the rows handed out are no longer     *)
(* free, were nobody's, and hold what was appended; nothing else changes.    *)
LEMMA AppendBatch ==
    ASSUME NEW e, StoreSound(e), NEW T, IsFiniteSet(T), T \subseteq Int,
           NEW h \in [T -> Hashes], NEW f, f = append_batch(e, h),
           NEW rows, rows = RowsForBatch(e, T)
    PROVE  /\ StoreSound(f)
           /\ f = [num_rows |-> f.num_rows, freelist |-> f.freelist, mm |-> f.mm]
           /\ RowsOf(e) \subseteq RowsOf(f)
           /\ FreeRows(f) \subseteq FreeRows(e)
           /\ rows \in [T -> RowsOf(f)]
           /\ \A i, j \in T : rows[i] = rows[j] => i = j
           /\ \A i \in T : rows[i] \notin FreeRows(f) /\ rows[i] \notin RowsOf(e) \ FreeRows(e)
           /\ \A i \in T : f.mm[rows[i]] = h[i]
           /\ \A r \in RowsOf(e) \ FreeRows(e) : r \notin FreeRows(f) /\ f.mm[r] = e.mm[r]
           /\ \A r \in RowsOf(f) \ FreeRows(f) :
                 r \in RowsOf(e) \ FreeRows(e) \/ \E i \in T : rows[i] = r
<1> DEFINE n == Cardinality(T)
           L == Len(e.freelist)
           k == Min({n, L})
           rest == SubSeq(e.freelist, 1, L - k)
           mm == [r \in DOMAIN e.mm \cup {rows[i] : i \in DOMAIN rows} |->
                    IF \E i \in DOMAIN rows : rows[i] = r
                    THEN h[CHOOSE i \in DOMAIN rows : rows[i] = r]
                    ELSE e.mm[r]]
<1>1. f = [num_rows |-> e.num_rows + (n - k), freelist |-> rest, mm |-> mm]
  BY DEF append_batch
<1>2. f.num_rows = e.num_rows + (n - k) /\ f.freelist = rest /\ f.mm = mm
  <2> HIDE DEF n, k, rest, mm
  <2> QED
    BY <1>1
<1>3. /\ n \in Nat /\ k \in Nat /\ k <= n /\ k <= L
      /\ rows \in [T -> 0 .. e.num_rows + (n - k) - 1]
      /\ \A i, j \in T : rows[i] = rows[j] => i = j
      /\ \A i \in T : rows[i] >= e.num_rows \/ \E m \in (L - k + 1) .. L : rows[i] = e.freelist[m]
      /\ \A r \in e.num_rows .. e.num_rows + (n - k) - 1 : \E i \in T : rows[i] = r
      /\ \A m \in (L - k + 1) .. L : \E i \in T : rows[i] = e.freelist[m]
  <2>1. BatchSound(e, T, rows, n, k)
    BY BatchRows
  <2> HIDE DEF n, k
  <2> QED
    BY <2>1 DEF BatchSound
<1>4. /\ e.num_rows \in Nat /\ L \in Nat /\ DOMAIN e.freelist = 1..L
      /\ \A m \in 1..L : e.freelist[m] \in 0 .. e.num_rows - 1
      /\ \A a, b \in 1..L : e.freelist[a] = e.freelist[b] => a = b
      /\ e.mm \in [0 .. e.num_rows - 1 -> Hashes \cup {Zero}]
      /\ e.freelist \in Seq(Nat)
  BY DEF StoreSound, RowsOf
<1> HIDE DEF n, L, k
<1>5. DOMAIN rest = 1 .. L - k /\ Len(rest) = L - k /\ \A m \in 1 .. L - k : rest[m] = e.freelist[m]
  BY <1>3, <1>4 DEF L
<1>6. mm \in [0 .. f.num_rows - 1 -> Hashes \cup {Zero}]
  <2>1. DOMAIN mm = 0 .. f.num_rows - 1
    <3>1. DOMAIN mm = (0 .. e.num_rows - 1) \cup {rows[i] : i \in T}
      BY <1>3, <1>4
    <3>2. ASSUME NEW r \in 0 .. f.num_rows - 1 PROVE r \in 0 .. e.num_rows - 1 \/ \E i \in T : rows[i] = r
      <4>1. r \in 0 .. e.num_rows - 1 \/ r \in e.num_rows .. e.num_rows + (n - k) - 1
        BY <1>2, <1>3, <1>4
      <4> QED
        BY <1>3, <4>1
    <3>3. \A r \in 0 .. e.num_rows - 1 : r \in 0 .. f.num_rows - 1
      BY <1>2, <1>3, <1>4
    <3>4. \A i \in T : rows[i] \in 0 .. f.num_rows - 1
      <4> HIDE DEF mm, rest
      <4>1. f.num_rows - 1 = e.num_rows + (n - k) - 1
        BY <1>2, <1>3, <1>4
      <4> QED
        BY <1>3, <4>1
    <3> HIDE DEF mm
    <3> QED
      BY <3>1, <3>2, <3>3, <3>4
  <2>2. ASSUME NEW r \in DOMAIN mm PROVE mm[r] \in Hashes \cup {Zero}
    <3>1. CASE \E i \in T : rows[i] = r
      <4>1. (CHOOSE i \in DOMAIN rows : rows[i] = r) \in T
        BY <1>3, <3>1
      <4>2. mm[r] = h[CHOOSE i \in DOMAIN rows : rows[i] = r]
        BY <1>3, <3>1
      <4> QED
        BY <4>1, <4>2
    <3>2. CASE ~\E i \in T : rows[i] = r
      <4>1. mm[r] = e.mm[r] /\ r \in DOMAIN e.mm
        BY <1>3, <3>2
      <4> QED
        BY <1>4, <4>1
    <3> QED
      BY <3>1, <3>2
  <2>3. mm = [r \in DOMAIN mm |-> mm[r]]
    OBVIOUS
  <2> HIDE DEF mm
  <2> QED
    BY <2>1, <2>2, <2>3
<1>7. ASSUME NEW i \in T PROVE mm[rows[i]] = h[i]
  <2>1. rows[i] \in DOMAIN mm /\ DOMAIN rows = T
    BY <1>2, <1>3, <1>6
  <2>2. (CHOOSE j \in T : rows[j] = rows[i]) = i
    BY <1>3
  <2> QED
    BY <2>1, <2>2
<1>8. ASSUME NEW r \in 0 .. e.num_rows - 1, ~\E i \in T : rows[i] = r PROVE mm[r] = e.mm[r]
  <2>1. r \in DOMAIN e.mm /\ DOMAIN rows = T
    BY <1>3, <1>4
  <2> QED
    BY <1>8, <2>1
<1> HIDE DEF mm, rest
<1>9. FreeRows(f) = {rest[m] : m \in 1 .. L - k} /\ FreeRows(e) = {e.freelist[m] : m \in 1..L}
  BY <1>2, <1>4, <1>5 DEF FreeRows
<1>10. /\ StoreSound(f)
       /\ f = [num_rows |-> f.num_rows, freelist |-> f.freelist, mm |-> f.mm]
  <2>1. f.num_rows \in Nat
    BY <1>2, <1>3, <1>4
  <2>2. \A m \in 1 .. L - k : rest[m] \in 0 .. f.num_rows - 1
    <3> TAKE m \in 1 .. L - k
    <3>1. m \in 1..L
      BY <1>3, <1>4
    <3>2. rest[m] = e.freelist[m] /\ e.freelist[m] \in 0 .. e.num_rows - 1
      BY <1>4, <1>5, <3>1
    <3> QED
      BY <1>2, <1>3, <1>4, <3>2
  <2>3. rest \in Seq(0 .. f.num_rows - 1)
    <3> DEFINE R == 0 .. f.num_rows - 1
    <3>1. rest \in Seq(Nat)
      BY <1>3, <1>4 DEF rest
    <3> HIDE DEF R
    <3>2. rest \in Seq(R)
      <4>1. \A m \in 1 .. Len(rest) : rest[m] \in R
        BY <1>5, <2>2 DEF R
      <4> QED
        BY <3>1, <4>1
    <3> QED
      BY <3>2 DEF R
  <2>4. \A a, b \in 1 .. L - k : rest[a] = rest[b] => a = b
    <3> TAKE a, b \in 1 .. L - k
    <3>1. a \in 1..L /\ b \in 1..L
      BY <1>3, <1>4
    <3> QED
      BY <1>4, <1>5, <3>1
  <2> QED
    BY <1>1, <1>2, <1>5, <1>6, <2>1, <2>3, <2>4 DEF StoreSound, RowsOf
<1>11. RowsOf(e) \subseteq RowsOf(f) /\ rows \in [T -> RowsOf(f)]
  BY <1>2, <1>3, <1>4 DEF RowsOf
<1>12. FreeRows(f) \subseteq FreeRows(e)
  <2>1. \A m \in 1 .. L - k : m \in 1..L /\ rest[m] = e.freelist[m]
    BY <1>3, <1>4, <1>5
  <2> QED
    BY <1>9, <2>1
<1>13. ASSUME NEW m \in (L - k + 1) .. L
       PROVE  e.freelist[m] \notin FreeRows(f) /\ e.freelist[m] \in FreeRows(e)
  <2>1. m \in 1..L
    BY <1>3, <1>4
  <2>2. ASSUME NEW j \in 1 .. L - k PROVE rest[j] # e.freelist[m]
    <3>1. j \in 1..L /\ j # m /\ rest[j] = e.freelist[j]
      BY <1>3, <1>4, <1>5
    <3> QED
      BY <1>4, <2>1, <3>1
  <2> QED
    BY <1>9, <2>1, <2>2
<1>14. ASSUME NEW i \in T
       PROVE  rows[i] \notin FreeRows(f) /\ rows[i] \notin RowsOf(e) \ FreeRows(e)
  <2>1. CASE rows[i] >= e.num_rows
    <3>1. \A m \in 1..L : e.freelist[m] # rows[i]
      BY <1>4, <2>1
    <3>2. rows[i] \notin FreeRows(e)
      BY <1>9, <3>1
    <3>3. rows[i] \notin RowsOf(e)
      BY <1>4, <2>1 DEF RowsOf
    <3> QED
      BY <1>12, <3>2, <3>3
  <2>2. CASE \E m \in (L - k + 1) .. L : rows[i] = e.freelist[m]
    BY <1>13, <2>2
  <2> QED
    BY <1>3, <2>1, <2>2
<1>15. ASSUME NEW r \in RowsOf(e) \ FreeRows(e)
       PROVE  r \notin FreeRows(f) /\ f.mm[r] = e.mm[r]
  <2>1. ~\E i \in T : rows[i] = r
    BY <1>14
  <2>2. r \in 0 .. e.num_rows - 1
    BY DEF RowsOf
  <2> QED
    BY <1>2, <1>8, <1>12, <2>1, <2>2
<1>16. ASSUME NEW r \in RowsOf(f) \ FreeRows(f)
       PROVE  r \in RowsOf(e) \ FreeRows(e) \/ \E i \in T : rows[i] = r
  <2>1. r \in RowsOf(e) \/ r \in e.num_rows .. e.num_rows + (n - k) - 1
    BY <1>2, <1>3, <1>4 DEF RowsOf
  <2>2. CASE r \in e.num_rows .. e.num_rows + (n - k) - 1
    BY <1>3, <2>2
  <2>3. CASE r \in FreeRows(e)
    <3>1. PICK m \in 1..L : r = e.freelist[m]
      BY <1>9, <2>3
    <3>2. m \notin 1 .. L - k
      BY <1>5, <1>9, <3>1
    <3>3. m \in (L - k + 1) .. L
      BY <1>3, <1>4, <3>2
    <3> QED
      BY <1>3, <3>1, <3>3
  <2> QED
    BY <2>1, <2>2, <2>3
<1>17. \A i \in T : f.mm[rows[i]] = h[i]
  BY <1>2, <1>7
<1>18. \A i, j \in T : rows[i] = rows[j] => i = j
  BY <1>3
<1> QED
  BY <1>10, <1>11, <1>12, <1>14, <1>15, <1>16, <1>17, <1>18

(* free_row, of a row that exists, keeps the store sound and frees that row. *)
LEMMA FreeRow ==
    ASSUME NEW e, StoreSound(e), NEW r \in RowsOf(e), NEW f, f = free_row(e, r),
           e = [num_rows |-> e.num_rows, freelist |-> e.freelist, mm |-> e.mm]
    PROVE  /\ StoreSound(f)
           /\ f = [num_rows |-> f.num_rows, freelist |-> f.freelist, mm |-> f.mm]
           /\ RowsOf(f) = RowsOf(e)
           /\ FreeRows(f) = FreeRows(e) \cup {r}
           /\ \A s \in RowsOf(e) \ {r} : f.mm[s] = e.mm[s]
<1>1. CASE r \in FreeRows(e)
  BY <1>1 DEF free_row
<1>2. CASE r \notin FreeRows(e)
  <2> DEFINE L == Len(e.freelist)
             fl == Append(e.freelist, r)
             mm == [e.mm EXCEPT ![r] = Zero]
  <2>1. f = [num_rows |-> e.num_rows, freelist |-> fl, mm |-> mm]
    <3>1. f = [e EXCEPT !.mm = mm, !.freelist = fl]
      BY <1>2 DEF free_row
    <3> HIDE DEF mm, fl
    <3> QED
      BY <3>1
  <2>2. f.num_rows = e.num_rows /\ f.freelist = fl /\ f.mm = mm
    BY <2>1
  <2>3. /\ e.num_rows \in Nat /\ e.freelist \in Seq(RowsOf(e))
        /\ e.mm \in [RowsOf(e) -> Hashes \cup {Zero}]
        /\ L \in Nat /\ DOMAIN e.freelist = 1..L
    BY DEF StoreSound
  <2>4. RowsOf(f) = RowsOf(e)
    BY <2>2 DEF RowsOf
  <2>5. mm \in [RowsOf(e) -> Hashes \cup {Zero}] /\ \A s \in RowsOf(e) \ {r} : mm[s] = e.mm[s]
    BY <2>3
  <2>6. /\ fl \in Seq(RowsOf(e)) /\ DOMAIN fl = 1 .. L + 1
        /\ \A i \in 1..L : fl[i] = e.freelist[i]
        /\ fl[L + 1] = r
    BY <2>3
  <2>7. \A i \in 1..L : e.freelist[i] # r
    BY <1>2, <2>3 DEF FreeRows
  <2> HIDE DEF L, fl, mm
  <2>8. \A i \in 1 .. L + 1 : i \in 1..L \/ i = L + 1
    BY <2>3
  <2>9. \A i \in 1..L : i \in 1 .. L + 1
    BY <2>3
  <2>10. L + 1 \in 1 .. L + 1
    BY <2>3
  <2>11. \A i, j \in 1 .. L + 1 : fl[i] = fl[j] => i = j
    <3>1. \A i, j \in 1..L : e.freelist[i] = e.freelist[j] => i = j
      BY <2>3 DEF StoreSound
    <3> QED
      BY <2>6, <2>7, <2>8, <3>1
  <2>12. FreeRows(f) = FreeRows(e) \cup {r}
    <3>1. FreeRows(f) = {fl[i] : i \in 1 .. L + 1} /\ FreeRows(e) = {e.freelist[i] : i \in 1..L}
      BY <2>2, <2>3, <2>6 DEF FreeRows
    <3>2. \A x \in FreeRows(f) : x \in FreeRows(e) \cup {r}
      BY <2>6, <2>8, <3>1
    <3>3. \A x \in FreeRows(e) \cup {r} : x \in FreeRows(f)
      BY <2>6, <2>9, <2>10, <3>1
    <3> QED
      BY <3>2, <3>3
  <2>13. StoreSound(f)
    BY <2>2, <2>3, <2>4, <2>5, <2>6, <2>11 DEF StoreSound
  <2> QED
    BY <2>1, <2>2, <2>4, <2>5, <2>12, <2>13
<1> QED
  BY <1>1, <1>2

-----------------------------------------------------------------------------
(* Any number of threads *)

(* The next id of a table is a new one. *)
LEMMA NextIdIsNew ==
    ASSUME NEW ids, ids \subseteq Nat, IsFiniteSet(ids)
    PROVE  NextId(ids) \in Nat \ {0} /\ NextId(ids) \notin ids
<1>1. {0} \cup ids \subseteq Nat /\ {0} \cup ids # {}
  OBVIOUS
<1>2. IsFiniteSet({0} \cup ids)
  <2>1. IsFiniteSet(ids \cup {0}) /\ ids \cup {0} = {0} \cup ids
    BY FS_AddElement
  <2> QED
    BY <2>1
<1> DEFINE m == Max({0} \cup ids)
<1>3. m \in Nat /\ \A i \in ids : i <= m
  BY <1>1, <1>2, MaxIsGreatest
<1> HIDE DEF m
<1>4. NextId(ids) = 1 + m
  BY DEF NextId, m
<1> QED
  BY <1>3, <1>4

(* The new chunks of a file are chunks, with the rows the call has. *)
LEMMA NewChunksSound ==
    ASSUME RangeInv, NEW w \in Workers, wk[w].pc = "insert"
    PROVE  /\ NewChunks(w) \subseteq Chunk
           /\ IsFiniteSet(NewChunks(w))
           /\ \A c \in NewChunks(w) : c.row \in RowsOf(emb) /\ c.fid = wk[w].fid
<1> DEFINE l == wk[w]
           next == NextId({c.id : c \in chunks})
           rec(i) == [id |-> next + i - 1, fid |-> l.fid, ix |-> i,
                      hash |-> l.content[i], row |-> l.rows[i]]
           new == [i \in DOMAIN l.rows |-> rec(i)]
<1>1. l \in Locals /\ CallSound(l, emb) /\ chunks \subseteq Chunk /\ IsFiniteSet(chunks)
  BY DEF RangeInv, TypeOK
<1>2. l.content \in Contents /\ DOMAIN l.rows = DOMAIN l.content /\ l.fid \in Nat
      /\ \A i \in DOMAIN l.rows : l.rows[i] \in RowsOf(emb)
  BY <1>1 DEF CallSound, Locals
<1>3. l.content \in Seq(Hashes)
  BY <1>2, ContentsAssumption
<1>4. next \in Nat \ {0}
  <2> DEFINE id == [c \in chunks |-> c.id]
  <2>1. {c.id : c \in chunks} = {id[c] : c \in chunks}
    OBVIOUS
  <2>2. IsFiniteSet({id[c] : c \in chunks})
    <3>1. DOMAIN id = chunks
      OBVIOUS
    <3> HIDE DEF id
    <3> QED
      BY <1>1, <3>1, FiniteImage
  <2>3. {c.id : c \in chunks} \subseteq Nat
    BY <1>1 DEF Chunk
  <2> QED
    BY <2>1, <2>2, <2>3, NextIdIsNew
<1>5. IsFiniteSet(DOMAIN l.rows) /\ DOMAIN l.rows \subseteq Nat \ {0}
  <2>1. PICK n \in Nat : DOMAIN l.content = 1..n
    BY <1>3
  <2>2. IsFiniteSet(1..n)
    BY FS_Interval
  <2>3. 1..n \subseteq Nat \ {0}
    OBVIOUS
  <2> QED
    BY <1>2, <2>1, <2>2, <2>3
<1> HIDE DEF l, next
<1>6. NewChunks(w) = {new[i] : i \in DOMAIN l.rows} /\ NewChunks(w) = {rec(i) : i \in DOMAIN l.rows}
  BY DEF NewChunks, l, next
<1>7. IsFiniteSet(NewChunks(w))
  <2>1. DOMAIN new = DOMAIN l.rows
    OBVIOUS
  <2> HIDE DEF new
  <2> QED
    BY <1>5, <1>6, <2>1, FiniteImage
<1>8. \A i \in DOMAIN l.rows : rec(i) \in Chunk
  <2> TAKE i \in DOMAIN l.rows
  <2>1. next + i - 1 \in Nat /\ i \in Nat
    BY <1>4, <1>5
  <2>2. l.content[i] \in Hashes
    BY <1>2, <1>3
  <2>3. l.rows[i] \in Nat
    BY <1>2 DEF RowsOf
  <2> QED
    BY <1>2, <2>1, <2>2, <2>3 DEF Chunk
<1>9. NewChunks(w) \subseteq Chunk
  <2> HIDE DEF rec, new
  <2> QED
    BY <1>6, <1>8
<1>10. \A c \in NewChunks(w) : c.row \in RowsOf(emb) /\ c.fid = l.fid
  <2> TAKE c \in NewChunks(w)
  <2>1. PICK i \in DOMAIN l.rows : c = rec(i)
    <3> HIDE DEF rec, new
    <3> QED
      BY <1>6
  <2> QED
    BY <1>2, <2>1
<1> QED
  BY <1>7, <1>9, <1>10 DEF l

(* Two stores may differ in how many rows they have; what is sound in the    *)
(* smaller one is sound in the larger one.                                   *)
LEMMA CallSoundGrows ==
    ASSUME NEW l, NEW e, NEW f, CallSound(l, e), RowsOf(e) \subseteq RowsOf(f)
    PROVE  CallSound(l, f)
BY DEF CallSound

(* A step that moves one thread and leaves both stores alone. *)
LEMMA MoveSound ==
    ASSUME RangeInv, NEW w \in Workers, NEW l \in Locals, CallSound(l, emb), Goto(w, l),
           UNCHANGED <<emb, chunks>>,
           disk' \in [Paths -> Contents \cup {Missing}],
           project' \in BOOLEAN,
           DOMAIN files' \subseteq Nat \ {0}, IsFiniteSet(DOMAIN files'),
           files' \in [DOMAIN files' -> [path : Paths, hash : Contents]],
           ops' \in 0 .. MaxOps, settled' \in [Workers -> BOOLEAN]
    PROVE  RangeInv'
<1>1. wk \in [Workers -> Locals] /\ wk' = [wk EXCEPT ![w] = l]
  BY DEF RangeInv, TypeOK, Goto
<1>2. wk' \in [Workers -> Locals]
  BY <1>1
<1>3. \A v \in Workers : wk'[v] = l \/ wk'[v] = wk[v]
  BY <1>1
<1>4. \A v \in Workers : CallSound(wk[v], emb)
  BY DEF RangeInv
<1>5. \A v \in Workers : CallSound(wk'[v], emb')
  BY <1>3, <1>4, Zenon
<1>6. TypeOK'
  BY <1>2 DEF RangeInv, TypeOK
<1>7. (StoreSound(emb) /\ Referenced \subseteq RowsOf(emb))'
  BY DEF RangeInv, Referenced
<1> QED
  BY <1>5, <1>6, <1>7 DEF RangeInv

Typed(l) == l \in Locals /\ CallSound(l, emb)

LEMMA IdleTyped == Typed(Idle)
BY DEF Typed, Idle, Locals, Points, CallSound

(* A call that has begun and has nothing in hand. *)
LEMMA EmptyHanded ==
    ASSUME NEW l \in Locals, l.free = {}, l.rows = <<>>,
           l.pc \notin {"lookup", "upsert", "diff", "free", "insert"},
           l.pc = "read" => l.path \in Paths, l.pc = "rename" => l.to \in Paths
    PROVE  Typed(l)
BY DEF Typed, CallSound

LEMMA IdleIs == Idle \in Locals /\ Idle.free = {} /\ Idle.rows = <<>> /\ Idle.pc = "idle"
BY IdleTyped DEF Idle, Typed

LEMMA FileDoneTyped ==
    ASSUME RangeInv, NEW w \in Workers
    PROVE  Typed(FileDone(w))
<1>1. wk[w] \in Locals
  BY DEF RangeInv, TypeOK
<1>2. FileDone(w) = [Idle EXCEPT !.pc = "batch", !.todo = wk[w].todo, !.scan = wk[w].scan]
  BY DEF FileDone
<1>3. wk[w].todo \in SUBSET Paths /\ wk[w].scan \in BOOLEAN
  BY <1>1 DEF Locals
<1> DEFINE l == FileDone(w)
<1>4. l \in Locals /\ l.free = {} /\ l.rows = <<>> /\ l.pc = "batch"
  BY <1>2, <1>3, IdleIs DEF Locals, Points
<1> HIDE DEF l
<1>5. Typed(l)
  BY <1>4, EmptyHanded
<1> QED
  BY <1>5 DEF l

LEMMA AfterDeleteTyped ==
    ASSUME RangeInv, NEW w \in Workers
    PROVE  Typed(AfterDelete(w))
<1>1. wk[w] \in Locals
  BY DEF RangeInv, TypeOK
<1>2. wk[w].to # NoPath => Typed([Idle EXCEPT !.pc = "read", !.path = wk[w].to])
  <2> DEFINE p == wk[w].to
             l == [Idle EXCEPT !.pc = "read", !.path = p]
  <2> SUFFICES ASSUME p # NoPath PROVE Typed(l)
    OBVIOUS
  <2>1. p \in Paths
    BY <1>1 DEF Locals
  <2> HIDE DEF p
  <2>2. l \in Locals /\ l.free = {} /\ l.rows = <<>> /\ l.pc = "read" /\ l.path \in Paths
    BY <2>1, IdleIs DEF Locals, Points
  <2> HIDE DEF l
  <2> QED
    BY <2>2, EmptyHanded
<1> QED
  BY <1>2, IdleTyped DEF AfterDelete

(* A step that only moves a thread, and perhaps starts a call. *)
LEMMA OnlyMoves ==
    ASSUME RangeInv, NEW w \in Workers, NEW l, Typed(l), Goto(w, l),
           UNCHANGED <<disk, emb, chunks, files>>, project' \in BOOLEAN,
           ops' \in 0 .. MaxOps, settled' \in [Workers -> BOOLEAN]
    PROVE  RangeInv'
<1>1. /\ disk' \in [Paths -> Contents \cup {Missing}]
      /\ DOMAIN files' \subseteq Nat \ {0} /\ IsFiniteSet(DOMAIN files')
      /\ files' \in [DOMAIN files' -> [path : Paths, hash : Contents]]
  BY DEF RangeInv, TypeOK
<1> QED
  BY <1>1, MoveSound DEF Typed

LEMMA EditRange == ASSUME RangeInv, NEW p \in Paths, NEW c \in Contents \cup {Missing}, Edit(p, c)
                   PROVE  RangeInv'
<1>1. disk' \in [Paths -> Contents \cup {Missing}] /\ settled' \in [Workers -> BOOLEAN]
  BY DEF RangeInv, TypeOK, Edit
<1>2. UNCHANGED <<project, files, chunks, emb, wk, ops>>
  BY DEF Edit, tables
<1>3. TypeOK'
  BY <1>1, <1>2 DEF RangeInv, TypeOK
<1> QED
  BY <1>2, <1>3 DEF RangeInv, Referenced

LEMMA CallRange == ASSUME RangeInv, NEW w \in Workers, CallAny(w)
                   PROVE  RangeInv'
<1>1. /\ project \in BOOLEAN /\ ops' \in 0 .. MaxOps /\ settled \in [Workers -> BOOLEAN]
      /\ DOMAIN files \subseteq Nat /\ files \in [DOMAIN files -> [path : Paths, hash : Contents]]
  <2>1. ops \in 0 .. MaxOps /\ ops < MaxOps /\ ops' = ops + 1
    BY DEF RangeInv, TypeOK, CallAny, Call, add_project, full_scan, update_files, delete_file,
           rename_file, delete_project
  <2> QED
    BY <2>1, MaxOpsAssumption DEF RangeInv, TypeOK
<1>2. CASE add_project(w)
  <2>1. project' = TRUE /\ UNCHANGED <<disk, files, chunks, emb, wk, settled>>
    BY <1>2 DEF add_project
  <2>2. TypeOK'
    BY <1>1, <2>1 DEF RangeInv, TypeOK
  <2> QED
    BY <2>1, <2>2 DEF RangeInv, Referenced
<1>3. CASE full_scan(w)
  <2> DEFINE l == [Idle EXCEPT !.pc = "batch", !.scan = TRUE, !.todo = {p \in Paths : disk[p] # Missing}]
  <2>1. Typed(l)
    <3>1. l \in Locals /\ l.free = {} /\ l.rows = <<>> /\ l.pc \in {"batch", "delete"}
      BY IdleIs DEF Locals, Points
    <3> HIDE DEF l
    <3> QED
      BY <3>1, EmptyHanded
  <2>2. Goto(w, l) /\ UNCHANGED <<disk, project, files, chunks, emb>> /\ settled' \in [Workers -> BOOLEAN]
    BY <1>1, <1>3 DEF full_scan, tables
  <2> HIDE DEF l
  <2> QED
    BY <1>1, <2>1, <2>2, OnlyMoves
<1>4. ASSUME NEW ps \in (SUBSET Paths) \ {{}}, update_files(w, ps) PROVE RangeInv'
  <2> DEFINE l == [Idle EXCEPT !.pc = "batch", !.todo = ps]
  <2>1. Typed(l)
    <3>1. l \in Locals /\ l.free = {} /\ l.rows = <<>> /\ l.pc \in {"batch", "delete"}
      BY IdleIs DEF Locals, Points
    <3> HIDE DEF l
    <3> QED
      BY <3>1, EmptyHanded
  <2>2. Goto(w, l) /\ UNCHANGED <<disk, project, files, chunks, emb, settled>>
    BY <1>4 DEF update_files, tables
  <2> HIDE DEF l
  <2> QED
    BY <1>1, <2>1, <2>2, OnlyMoves
<1>5. ASSUME NEW p \in Paths, delete_file(w, p) PROVE RangeInv'
  <2> DEFINE l == [Idle EXCEPT !.pc = "delete", !.path = p]
  <2>1. Typed(l)
    <3>1. l \in Locals /\ l.free = {} /\ l.rows = <<>> /\ l.pc \in {"batch", "delete"}
      BY IdleIs DEF Locals, Points
    <3> HIDE DEF l
    <3> QED
      BY <3>1, EmptyHanded
  <2>2. Goto(w, l) /\ UNCHANGED <<disk, project, files, chunks, emb, settled>>
    BY <1>5 DEF delete_file, tables
  <2> HIDE DEF l
  <2> QED
    BY <1>1, <2>1, <2>2, OnlyMoves
<1>6. ASSUME NEW p \in Paths, NEW q \in Paths, rename_file(w, p, q) PROVE RangeInv'
  <2> DEFINE id == get_file(p)
             l == [Idle EXCEPT !.pc = "rename", !.path = p, !.to = q, !.fid = id]
             m == [Idle EXCEPT !.pc = "delete", !.path = p]
  <2>1. id \in Nat
    BY <1>1 DEF get_file
  <2> HIDE DEF id
  <2>2. Typed(l) /\ Typed(m)
    <3>1. l \in Locals /\ l.free = {} /\ l.rows = <<>> /\ l.pc = "rename" /\ l.to \in Paths
      BY <2>1, IdleIs DEF Locals, Points
    <3>2. m \in Locals /\ m.free = {} /\ m.rows = <<>> /\ m.pc = "delete"
      BY IdleIs DEF Locals, Points
    <3> HIDE DEF l, m
    <3> QED
      BY <3>1, <3>2, EmptyHanded
  <2>3. (Goto(w, l) \/ Goto(w, m)) /\ UNCHANGED <<disk, project, files, chunks, emb, settled>>
    BY <1>6 DEF rename_file, tables, id
  <2> HIDE DEF l, m
  <2> QED
    BY <1>1, <2>2, <2>3, OnlyMoves
<1>7. CASE delete_project(w)
  <2> DEFINE l == [Idle EXCEPT !.pc = "project_free", !.rest = DOMAIN files]
  <2>1. Typed(l)
    <3>1. l \in Locals /\ l.free = {} /\ l.rows = <<>> /\ l.pc = "project_free"
      BY <1>1, IdleIs DEF Locals, Points
    <3> HIDE DEF l
    <3> QED
      BY <3>1, EmptyHanded
  <2>2. Goto(w, l) /\ UNCHANGED <<disk, project, files, chunks, emb, settled>>
    BY <1>7 DEF delete_project, tables
  <2> HIDE DEF l
  <2> QED
    BY <1>1, <2>1, <2>2, OnlyMoves
<1> QED
  BY <1>2, <1>3, <1>4, <1>5, <1>6, <1>7 DEF CallAny

(* What is known of the thread that moves. *)
LEMMA Mover ==
    ASSUME RangeInv, NEW w \in Workers
    PROVE  /\ wk[w] \in Locals /\ CallSound(wk[w], emb) /\ wk[w].pc \in Points
           /\ project \in BOOLEAN /\ ops \in 0 .. MaxOps /\ settled \in [Workers -> BOOLEAN]
           /\ disk \in [Paths -> Contents \cup {Missing}]
           /\ DOMAIN files \subseteq Nat \ {0} /\ IsFiniteSet(DOMAIN files)
           /\ files \in [DOMAIN files -> [path : Paths, hash : Contents]]
           /\ chunks \subseteq Chunk /\ IsFiniteSet(chunks)
           /\ \A c \in chunks : c.row \in RowsOf(emb)
           /\ StoreSound(emb)
BY DEF RangeInv, TypeOK, Locals, Referenced

LEMMA NextFileRange == ASSUME RangeInv, NEW w \in Workers, NEW p \in Paths, NextFile(w, p)
                       PROVE  RangeInv'
<1> DEFINE l == wk[w]
           rest == l.todo \ {p}
           a == [l EXCEPT !.pc = "read", !.todo = @ \ {p}, !.path = p]
           b == [l EXCEPT !.todo = @ \ {p}]
<1>1. l \in Locals /\ l.pc = "batch" /\ l.free = {} /\ l.rows = <<>>
  BY Mover DEF NextFile, CallSound
<1>2. \/ Goto(w, Idle) \/ Goto(w, a) \/ Goto(w, b)
  BY DEF NextFile
<1>3. UNCHANGED <<disk, project, files, chunks, emb, ops, settled>>
  BY DEF NextFile, tables
<1> HIDE DEF l
<1>4. l.todo \ {p} \in SUBSET Paths
  BY <1>1 DEF Locals
<1>5. a \in Locals /\ a.free = {} /\ a.rows = <<>> /\ a.pc = "read" /\ a.path = p
  BY <1>1, <1>4 DEF Locals, Points
<1>6. b \in Locals /\ b.free = {} /\ b.rows = <<>> /\ b.pc = "batch"
  BY <1>1, <1>4 DEF Locals, Points
<1> HIDE DEF a, b
<1>7. Typed(a) /\ Typed(b) /\ Typed(Idle)
  BY <1>5, <1>6, EmptyHanded, IdleTyped
<1> QED
  BY <1>2, <1>3, <1>7, Mover, OnlyMoves

LEMMA BatchEndRange == ASSUME RangeInv, NEW w \in Workers, BatchEnd(w)
                       PROVE  RangeInv'
<1>1. Goto(w, Idle) /\ UNCHANGED <<disk, files, chunks, emb, ops, settled>>
      /\ project' = (project \/ wk[w].scan)
  BY DEF BatchEnd
<1>2. project' \in BOOLEAN
  BY <1>1
<1> QED
  BY <1>1, <1>2, IdleTyped, Mover, OnlyMoves

LEMMA IndexReadRange == ASSUME RangeInv, NEW w \in Workers, IndexRead(w)
                        PROVE  RangeInv'
<1> DEFINE l == wk[w]
           c == disk[l.path]
           a == [l EXCEPT !.pc = "lookup", !.content = c]
<1>1. l \in Locals /\ l.pc = "read" /\ l.free = {} /\ l.rows = <<>> /\ l.path \in Paths
  BY Mover DEF IndexRead, CallSound
<1>2. \/ Goto(w, FileDone(w)) \/ (c # Missing /\ Goto(w, a))
  BY DEF IndexRead
<1>3. UNCHANGED <<disk, project, files, chunks, emb, ops, settled>>
  BY DEF IndexRead, tables
<1>4. c # Missing => c \in Contents
  BY <1>1, Mover
<1> HIDE DEF l, c
<1>5. ASSUME c # Missing PROVE Typed(a)
  <2>1. a \in Locals /\ a.free = {} /\ a.rows = <<>> /\ a.pc = "lookup" /\ a.content = c /\ a.path = l.path
    BY <1>1, <1>4, <1>5 DEF Locals, Points
  <2> HIDE DEF a
  <2> QED
    BY <1>1, <1>4, <1>5, <2>1 DEF Typed, CallSound
<1> HIDE DEF a
<1> QED
  BY <1>2, <1>3, <1>5, FileDoneTyped, Mover, OnlyMoves

LEMMA GetFileType == ASSUME RangeInv, NEW p PROVE get_file(p) \in Nat /\ get_file(p) \in DOMAIN files \cup {0}
BY Mover DEF get_file, RangeInv, TypeOK

LEMMA IndexLookupRange == ASSUME RangeInv, NEW w \in Workers, IndexLookup(w)
                          PROVE  RangeInv'
<1> DEFINE l == wk[w]
           id == get_file(l.path)
           a == [l EXCEPT !.pc = "upsert", !.fid = id]
<1>1. /\ l \in Locals /\ l.pc = "lookup" /\ l.free = {} /\ l.rows = <<>> /\ l.path \in Paths
      /\ l.content \in Contents
  BY Mover DEF IndexLookup, CallSound
<1>2. \/ Goto(w, FileDone(w)) \/ Goto(w, a)
  BY DEF IndexLookup
<1>3. UNCHANGED <<disk, project, files, chunks, emb, ops, settled>>
  BY DEF IndexLookup, tables
<1>4. id \in Nat
  BY GetFileType
<1> HIDE DEF l, id
<1>5. Typed(a)
  <2>1. /\ a \in Locals /\ a.free = {} /\ a.rows = <<>> /\ a.pc = "upsert" /\ a.content = l.content
        /\ a.path = l.path
    BY <1>1, <1>4 DEF Locals, Points
  <2> HIDE DEF a
  <2> QED
    BY <1>1, <2>1 DEF Typed, CallSound
<1> HIDE DEF a
<1> QED
  BY <1>2, <1>3, <1>5, FileDoneTyped, Mover, OnlyMoves

LEMMA IndexUpsertRange == ASSUME RangeInv, NEW w \in Workers, IndexUpsertFile(w)
                          PROVE  RangeInv'
<1> DEFINE l == wk[w]
           p == l.path
           existing == get_file(p)
           id == CASE existing # 0 -> existing
                   [] existing = 0 /\ l.fid # 0 -> l.fid
                   [] OTHER -> NextId(DOMAIN files)
           rec == [path |-> p, hash |-> l.content]
           a == [l EXCEPT !.pc = "diff", !.fid = id]
<1>1. /\ l \in Locals /\ l.pc = "upsert" /\ l.free = {} /\ l.rows = <<>> /\ p \in Paths
      /\ l.content \in Contents
  BY Mover DEF IndexUpsertFile, CallSound
<1>2. UNCHANGED <<disk, project, chunks, emb, ops, settled>>
  BY DEF IndexUpsertFile
<1>3. CASE files' = files /\ (Goto(w, FileDone(w)) \/ Goto(w, Idle))
  BY <1>2, <1>3, FileDoneTyped, IdleTyped, Mover, OnlyMoves
<1>4. CASE /\ files' = [i \in DOMAIN files \cup {id} |-> IF i = id THEN rec ELSE files[i]]
           /\ Goto(w, a)
  <2>1. id \in Nat \ {0}
    <3>1. existing \in Nat /\ l.fid \in Nat /\ NextId(DOMAIN files) \in Nat \ {0}
      <4>1. DOMAIN files \subseteq Nat
        BY Mover
      <4> QED
        BY <1>1, <4>1, GetFileType, NextIdIsNew, Mover DEF Locals
    <3> HIDE DEF existing
    <3> QED
      BY <3>1
  <2>2. rec \in [path : Paths, hash : Contents]
    BY <1>1
  <2> HIDE DEF id, rec, l, p
  <2>3. DOMAIN files' = DOMAIN files \cup {id}
    BY <1>4
  <2>4. IsFiniteSet(DOMAIN files') /\ DOMAIN files' \subseteq Nat \ {0}
    BY <2>1, <2>3, FS_AddElement, Mover
  <2>5. files' \in [DOMAIN files' -> [path : Paths, hash : Contents]]
    BY <1>4, <2>2, <2>3, Mover
  <2>6. Typed(a)
    <3>1. /\ a \in Locals /\ a.free = {} /\ a.rows = <<>> /\ a.pc = "diff" /\ a.content = l.content
          /\ a.path = l.path
      BY <1>1, <2>1 DEF Locals, Points
    <3> HIDE DEF a
    <3> QED
      BY <1>1, <3>1 DEF Typed, CallSound, p
  <2>7. /\ disk' \in [Paths -> Contents \cup {Missing}] /\ project' \in BOOLEAN
        /\ ops' \in 0 .. MaxOps /\ settled' \in [Workers -> BOOLEAN]
    BY <1>2, Mover
  <2> HIDE DEF a
  <2> QED
    BY <1>2, <1>4, <2>4, <2>5, <2>6, <2>7, MoveSound DEF Typed
<1> QED
  BY <1>3, <1>4 DEF IndexUpsertFile

(* A step that moves one thread and may change both stores. *)
LEMMA StoresMove ==
    ASSUME RangeInv, NEW w \in Workers, NEW l \in Locals, CallSound(l, emb'), Goto(w, l),
           StoreSound(emb'), RowsOf(emb) \subseteq RowsOf(emb'),
           emb' = [num_rows |-> emb'.num_rows, freelist |-> emb'.freelist, mm |-> emb'.mm],
           chunks' \subseteq Chunk, IsFiniteSet(chunks'),
           \A c \in chunks' : c.row \in RowsOf(emb'),
           UNCHANGED <<disk, ops, settled>>, project' \in BOOLEAN,
           DOMAIN files' \subseteq Nat \ {0}, IsFiniteSet(DOMAIN files'),
           files' \in [DOMAIN files' -> [path : Paths, hash : Contents]]
    PROVE  RangeInv'
<1>1. wk \in [Workers -> Locals] /\ wk' = [wk EXCEPT ![w] = l]
  BY DEF RangeInv, TypeOK, Goto
<1>2. wk' \in [Workers -> Locals]
  BY <1>1
<1>3. \A v \in Workers : wk'[v] = l \/ wk'[v] = wk[v]
  BY <1>1
<1>4. \A v \in Workers : CallSound(wk[v], emb')
  BY CallSoundGrows DEF RangeInv
<1>5. \A v \in Workers : CallSound(wk'[v], emb')
  BY <1>3, <1>4, Zenon
<1>6. TypeOK'
  BY <1>2 DEF RangeInv, TypeOK
<1> QED
  BY <1>5, <1>6 DEF RangeInv, Referenced

LEMMA KeptRowType ==
    ASSUME NEW old, NEW h, NEW R, \A c \in old : c.row \in R
    PROVE  /\ KeptRow(old, h) \in R \cup {NoRow}
           /\ KeptRow(old, h) # NoRow => \E c \in old : c.hash = h /\ c.row = KeptRow(old, h)
<1> DEFINE last == {c \in old : c.hash = h /\ \A d \in {d \in old : d.hash = h} :
                                   d.ix < c.ix \/ (d.ix = c.ix /\ d.id <= c.id)}
           k == CHOOSE c \in last : TRUE
<1>1. KeptRow(old, h) = IF last = {} THEN NoRow ELSE k.row
  <2>1. last = {c \in {d \in old : d.hash = h} : \A d \in {d \in old : d.hash = h} :
                                   d.ix < c.ix \/ (d.ix = c.ix /\ d.id <= c.id)}
    OBVIOUS
  <2> HIDE DEF last
  <2> QED
    BY <2>1 DEF KeptRow
<1>2. last # {} => k \in last
  <2> HIDE DEF last
  <2> QED
    OBVIOUS
<1>3. last # {} => k \in old /\ k.hash = h
  BY <1>2
<1> HIDE DEF last, k
<1> QED
  BY <1>1, <1>3

LEMMA IndexDiffRange == ASSUME RangeInv, NEW w \in Workers, IndexDiff(w)
                        PROVE  RangeInv'
<1> DEFINE l == wk[w]
           old == get_chunks_by_file(l.fid)
           new == l.content
           gone == Vanished(old, new)
           rows == [i \in DOMAIN new |-> KeptRow(old, new[i])]
           a == [l EXCEPT !.pc = "free", !.free = gone, !.rows = rows]
<1>1. /\ l \in Locals /\ l.pc = "diff" /\ l.path \in Paths /\ l.content \in Contents
  BY Mover DEF IndexDiff, CallSound
<1>2. Goto(w, a) /\ UNCHANGED <<disk, project, files, chunks, emb, ops, settled>>
  BY DEF IndexDiff, tables
<1>3. old \subseteq chunks /\ gone \subseteq old /\ chunks \subseteq Chunk
  BY Mover DEF get_chunks_by_file, Vanished
<1>4. \A c \in old : c.row \in RowsOf(emb)
  BY <1>3, Mover
<1> HIDE DEF old, gone
<1>5. \A i \in DOMAIN rows : rows[i] \in RowsOf(emb) \cup {NoRow}
  BY <1>4, KeptRowType
<1>6. PICK n \in Nat : DOMAIN new = 1..n
  BY <1>1, ContentsAssumption
<1>7. rows \in Seq(Nat \cup {NoRow}) /\ DOMAIN rows = DOMAIN new
  <2>1. \A i \in 1..n : rows[i] \in Nat \cup {NoRow}
    BY <1>5, <1>6 DEF RowsOf
  <2>2. rows = [i \in 1..n |-> rows[i]]
    BY <1>6
  <2> HIDE DEF rows
  <2> QED
    BY <1>6, <2>1, <2>2
<1> HIDE DEF l, rows
<1>8. Typed(a)
  <2>1. /\ a \in Locals /\ a.free = gone /\ a.rows = rows /\ a.pc = "free" /\ a.content = l.content
        /\ a.path = l.path
    BY <1>1, <1>3, <1>7 DEF Locals, Points
  <2> HIDE DEF a
  <2>2. \A i \in DOMAIN a.rows : a.rows[i] \in RowsOf(emb) \/ (a.rows[i] = NoRow /\ a.pc = "free")
    BY <1>5, <2>1
  <2>3. \A c \in a.free : c.row \in RowsOf(emb)
    BY <1>3, <1>4, <2>1
  <2> QED
    BY <1>1, <1>7, <2>1, <2>2, <2>3 DEF Typed, CallSound
<1> HIDE DEF a
<1> QED
  BY <1>2, <1>8, Mover, OnlyMoves

LEMMA FreeNextRange == ASSUME RangeInv, NEW w \in Workers, FreeNext(w)
                       PROVE  RangeInv'
<1> DEFINE l == wk[w]
<1>1. l \in Locals /\ CallSound(l, emb) /\ l.pc \in {"free", "delete_free", "project_free"}
  BY Mover DEF FreeNext
<1>2. PICK c \in l.free : emb' = free_row(emb, c.row) /\ Goto(w, [l EXCEPT !.free = @ \ {c}])
  BY DEF FreeNext, NextToFree
<1>3. UNCHANGED <<disk, project, files, chunks, ops, settled>>
  BY DEF FreeNext, tables
<1>4. c.row \in RowsOf(emb)
  BY <1>1 DEF CallSound
<1>5. emb = [num_rows |-> emb.num_rows, freelist |-> emb.freelist, mm |-> emb.mm]
  BY DEF RangeInv, TypeOK
<1>6. /\ StoreSound(emb') /\ RowsOf(emb') = RowsOf(emb)
      /\ emb' = [num_rows |-> emb'.num_rows, freelist |-> emb'.freelist, mm |-> emb'.mm]
  BY <1>2, <1>4, <1>5, FreeRow, Mover
<1> DEFINE a == [l EXCEPT !.free = @ \ {c}]
<1> HIDE DEF l
<1>7. /\ a \in Locals /\ a.free = l.free \ {c} /\ a.rows = l.rows /\ a.pc = l.pc /\ a.content = l.content
      /\ a.path = l.path /\ a.to = l.to
  BY <1>1 DEF Locals
<1>8. Goto(w, a)
  BY <1>2
<1> HIDE DEF a
<1>9. CallSound(a, emb')
  BY <1>1, <1>6, <1>7 DEF CallSound
<1> QED
  BY <1>3, <1>6, <1>7, <1>8, <1>9, Mover, StoresMove

(* What is embedded: the chunks without a row. *)
LEMMA ToEmbedIs ==
    ASSUME RangeInv, NEW w \in Workers, wk[w].pc = "free"
    PROVE  /\ IsFiniteSet(ToEmbed(w)) /\ ToEmbed(w) \subseteq Int
           /\ ToEmbed(w) \subseteq DOMAIN wk[w].content
           /\ [i \in ToEmbed(w) |-> wk[w].content[i]] \in [ToEmbed(w) -> Hashes]
           /\ DOMAIN wk[w].rows = DOMAIN wk[w].content
<1> DEFINE l == wk[w]
<1>1. l.content \in Contents /\ DOMAIN l.rows = DOMAIN l.content
  BY Mover DEF CallSound
<1>2. l.content \in Seq(Hashes)
  BY <1>1, ContentsAssumption
<1>3. PICK n \in Nat : DOMAIN l.content = 1..n
  BY <1>2
<1>4. ToEmbed(w) \in SUBSET (1..n)
  BY <1>1, <1>3 DEF ToEmbed
<1>5. IsFiniteSet(ToEmbed(w))
  <2>1. IsFiniteSet(1..n)
    BY FS_Interval
  <2> QED
    BY <1>4, <2>1, FS_Subset
<1>6. \A i \in ToEmbed(w) : l.content[i] \in Hashes
  BY <1>2, <1>3, <1>4
<1> QED
  BY <1>1, <1>3, <1>4, <1>5, <1>6

LEMMA IndexEmbedRange == ASSUME RangeInv, NEW w \in Workers, IndexEmbed(w)
                         PROVE  RangeInv'
<1> DEFINE l == wk[w]
           T == ToEmbed(w)
           h == [i \in T |-> l.content[i]]
           new == RowsForBatch(emb, T)
           rows == [i \in DOMAIN l.rows |-> IF i \in T THEN new[i] ELSE l.rows[i]]
           a == [l EXCEPT !.rows = rows]
<1>1. /\ l \in Locals /\ CallSound(l, emb) /\ l.pc = "free" /\ l.free = {}
      /\ l.path \in Paths /\ l.content \in Contents
  BY Mover DEF IndexEmbed, CallSound
<1>2. /\ emb' = append_batch(emb, h)
      /\ Goto(w, [l EXCEPT !.rows = [i \in DOMAIN @ |-> IF i \in T THEN new[i] ELSE @[i]]])
      /\ UNCHANGED <<disk, project, files, chunks, ops, settled>>
  BY DEF IndexEmbed, tables
<1>3. IsFiniteSet(T) /\ T \subseteq Int /\ h \in [T -> Hashes] /\ DOMAIN l.rows = DOMAIN l.content
      /\ T \subseteq DOMAIN l.content
  BY <1>1, ToEmbedIs
<1>4. Goto(w, a)
  BY <1>2 DEF Goto
<1> HIDE DEF T, h, new
<1>5. /\ StoreSound(emb') /\ RowsOf(emb) \subseteq RowsOf(emb')
      /\ emb' = [num_rows |-> emb'.num_rows, freelist |-> emb'.freelist, mm |-> emb'.mm]
      /\ new \in [T -> RowsOf(emb')]
  BY <1>2, <1>3, AppendBatch, Mover DEF new
<1>6. \A i \in DOMAIN rows : rows[i] \in RowsOf(emb')
  <2> TAKE i \in DOMAIN rows
  <2>1. CASE i \in T
    BY <1>5, <2>1
  <2>2. CASE i \notin T
    <3>1. l.rows[i] # NoRow
      BY <2>2 DEF T, ToEmbed
    <3>2. l.rows[i] \in RowsOf(emb)
      BY <1>1, <3>1 DEF CallSound
    <3> QED
      BY <1>5, <2>2, <3>2
  <2> QED
    BY <2>1, <2>2
<1>7. rows \in Seq(Nat \cup {NoRow}) /\ DOMAIN rows = DOMAIN l.content
  <2>1. PICK n \in Nat : DOMAIN l.content = 1..n
    BY <1>1, ContentsAssumption
  <2>2. \A i \in 1..n : rows[i] \in Nat \cup {NoRow}
    BY <1>3, <1>6, <2>1 DEF RowsOf
  <2>3. rows = [i \in 1..n |-> rows[i]]
    BY <1>3, <2>1
  <2> HIDE DEF rows
  <2> QED
    BY <2>1, <2>2, <2>3
<1> HIDE DEF rows, l
<1>8. /\ a \in Locals /\ a.free = l.free /\ a.rows = rows /\ a.pc = l.pc /\ a.content = l.content
      /\ a.path = l.path /\ a.to = l.to
  BY <1>1, <1>7 DEF Locals
<1> HIDE DEF a
<1>9. CallSound(a, emb')
  BY <1>1, <1>5, <1>6, <1>7, <1>8 DEF CallSound
<1>10. \A c \in chunks : c.row \in RowsOf(emb')
  BY <1>5, Mover
<1> QED
  BY <1>2, <1>4, <1>5, <1>8, <1>9, <1>10, Mover, StoresMove

LEMMA IndexDropOldRange == ASSUME RangeInv, NEW w \in Workers, IndexDropOld(w)
                           PROVE  RangeInv'
<1> DEFINE l == wk[w]
           a == [l EXCEPT !.pc = "insert"]
<1>1. /\ l \in Locals /\ CallSound(l, emb) /\ l.pc = "free" /\ l.free = {}
      /\ \A i \in DOMAIN l.rows : l.rows[i] # NoRow
  BY Mover DEF IndexDropOld, ToEmbed
<1>2. Goto(w, a) /\ chunks' = WithoutFile(l.fid) /\ UNCHANGED <<disk, project, files, emb, ops, settled>>
  BY DEF IndexDropOld
<1>3. chunks' \in SUBSET chunks
  BY <1>2 DEF WithoutFile
<1>4. chunks' \subseteq Chunk /\ IsFiniteSet(chunks') /\ \A c \in chunks' : c.row \in RowsOf(emb)
  BY <1>3, FS_Subset, Mover
<1> HIDE DEF l
<1>5. /\ a \in Locals /\ a.free = l.free /\ a.rows = l.rows /\ a.pc = "insert" /\ a.content = l.content
      /\ a.path = l.path /\ a.to = l.to
  BY <1>1 DEF Locals, Points
<1> HIDE DEF a
<1>6. CallSound(a, emb)
  BY <1>1, <1>5 DEF CallSound
<1>7. emb = [num_rows |-> emb.num_rows, freelist |-> emb.freelist, mm |-> emb.mm]
  BY DEF RangeInv, TypeOK
<1> QED
  BY <1>2, <1>4, <1>5, <1>6, <1>7, Mover, StoresMove

LEMMA UpsertChunksRange == ASSUME RangeInv, NEW w \in Workers, upsert_chunks(w)
                           PROVE  RangeInv'
<1>1. wk[w].pc = "insert" /\ UNCHANGED <<disk, project, files, emb, ops, settled>>
  BY DEF upsert_chunks
<1>2. CASE chunks' = chunks \cup NewChunks(w) /\ Goto(w, FileDone(w))
  <2>1. chunks' \subseteq Chunk /\ IsFiniteSet(chunks') /\ \A c \in chunks' : c.row \in RowsOf(emb)
    BY <1>1, <1>2, FS_Union, Mover, NewChunksSound
  <2>2. FileDone(w) \in Locals /\ CallSound(FileDone(w), emb)
    BY FileDoneTyped DEF Typed
  <2>3. emb = [num_rows |-> emb.num_rows, freelist |-> emb.freelist, mm |-> emb.mm]
    BY DEF RangeInv, TypeOK
  <2> QED
    BY <1>1, <1>2, <2>1, <2>2, <2>3, Mover, StoresMove
<1>3. CASE Goto(w, Idle) /\ UNCHANGED chunks
  BY <1>1, <1>3, IdleTyped, Mover, OnlyMoves
<1> QED
  BY <1>2, <1>3 DEF upsert_chunks

LEMMA DeleteLookupRange == ASSUME RangeInv, NEW w \in Workers, DeleteLookup(w)
                           PROVE  RangeInv'
<1> DEFINE l == wk[w]
           id == get_file(l.path)
           a == [l EXCEPT !.pc = "delete_chunks", !.fid = id]
<1>1. l \in Locals /\ l.pc = "delete" /\ l.free = {} /\ l.rows = <<>>
  BY Mover DEF DeleteLookup, CallSound
<1>2. /\ Goto(w, AfterDelete(w)) \/ Goto(w, a)
      /\ UNCHANGED <<disk, project, files, chunks, emb, ops, settled>>
  BY DEF DeleteLookup, tables
<1>3. id \in Nat
  BY GetFileType
<1> HIDE DEF l, id
<1>4. a \in Locals /\ a.free = {} /\ a.rows = <<>> /\ a.pc = "delete_chunks"
  BY <1>1, <1>3 DEF Locals, Points
<1> HIDE DEF a
<1>5. Typed(a)
  BY <1>4, EmptyHanded
<1> QED
  BY <1>2, <1>5, AfterDeleteTyped, Mover, OnlyMoves

(* Taking the chunks of a file in hand, to free them. *)
LEMMA InHandTyped ==
    ASSUME RangeInv, NEW l \in Locals, l.rows = <<>>, l.pc \in {"delete_free", "project_free"},
           l.free \subseteq chunks
    PROVE  Typed(l)
BY Mover DEF Typed, CallSound, RangeInv, Referenced

LEMMA DeleteReadRange == ASSUME RangeInv, NEW w \in Workers, DeleteReadChunks(w)
                         PROVE  RangeInv'
<1> DEFINE l == wk[w]
           cs == get_chunks_by_file(l.fid)
           a == [l EXCEPT !.pc = "delete_free", !.free = cs]
<1>1. l \in Locals /\ l.pc = "delete_chunks" /\ l.rows = <<>>
  BY Mover DEF DeleteReadChunks, CallSound
<1>2. Goto(w, a) /\ UNCHANGED <<disk, project, files, chunks, emb, ops, settled>>
  BY DEF DeleteReadChunks, tables
<1>3. cs \subseteq chunks /\ cs \in SUBSET Chunk
  BY Mover DEF get_chunks_by_file
<1> HIDE DEF l, cs
<1>4. a \in Locals /\ a.free = cs /\ a.rows = <<>> /\ a.pc = "delete_free"
  BY <1>1, <1>3 DEF Locals, Points
<1> HIDE DEF a
<1>5. Typed(a)
  BY <1>3, <1>4, InHandTyped
<1> QED
  BY <1>2, <1>5, Mover, OnlyMoves

LEMMA DeleteRecordRange == ASSUME RangeInv, NEW w \in Workers, DeleteRecord(w)
                           PROVE  RangeInv'
<1> DEFINE fid == wk[w].fid
           a == AfterDelete(w)
<1>1. /\ files' = [i \in DOMAIN files \ {fid} |-> files[i]]
      /\ chunks' = WithoutFile(fid)
      /\ Goto(w, a) /\ UNCHANGED <<disk, project, emb, ops, settled>>
  BY DEF DeleteRecord, StoreDeleteFile
<1>2. chunks' \in SUBSET chunks
  BY <1>1 DEF WithoutFile
<1>3. chunks' \subseteq Chunk /\ IsFiniteSet(chunks') /\ \A c \in chunks' : c.row \in RowsOf(emb)
  BY <1>2, FS_Subset, Mover
<1>4. DOMAIN files' = DOMAIN files \ {fid}
  BY <1>1
<1>5. DOMAIN files' \subseteq Nat \ {0} /\ IsFiniteSet(DOMAIN files')
  <2>1. DOMAIN files' \in SUBSET DOMAIN files
    BY <1>4
  <2> QED
    BY <2>1, FS_Subset, Mover
<1>6. files' \in [DOMAIN files' -> [path : Paths, hash : Contents]]
  BY <1>1, <1>4, Mover
<1>7. a \in Locals /\ CallSound(a, emb)
  BY AfterDeleteTyped DEF Typed
<1>8. emb = [num_rows |-> emb.num_rows, freelist |-> emb.freelist, mm |-> emb.mm]
  BY DEF RangeInv, TypeOK
<1> HIDE DEF a, fid
<1> QED
  BY <1>1, <1>3, <1>5, <1>6, <1>7, <1>8, Mover, StoresMove

LEMMA RenameRecordRange == ASSUME RangeInv, NEW w \in Workers, RenameRecord(w)
                           PROVE  RangeInv'
<1> DEFINE l == wk[w]
           a == [l EXCEPT !.pc = "delete"]
<1>1. l \in Locals /\ l.pc = "rename" /\ l.free = {} /\ l.rows = <<>> /\ l.to \in Paths
  BY Mover DEF RenameRecord, CallSound
<1>2. UNCHANGED <<disk, project, chunks, emb, ops, settled>>
  BY DEF RenameRecord
<1>3. CASE Goto(w, a) /\ files' = files
  <2> HIDE DEF l
  <2>1. a \in Locals /\ a.free = {} /\ a.rows = <<>> /\ a.pc = "delete"
    BY <1>1 DEF Locals, Points
  <2> HIDE DEF a
  <2>2. Typed(a)
    BY <2>1, EmptyHanded
  <2> QED
    BY <1>2, <1>3, <2>2, Mover, OnlyMoves
<1>4. CASE /\ files' = [i \in DOMAIN files |->
                          IF i = l.fid THEN [files[i] EXCEPT !.path = l.to] ELSE files[i]]
           /\ Goto(w, Idle)
  <2>1. DOMAIN files' = DOMAIN files
    BY <1>4
  <2>2. \A i \in DOMAIN files : files'[i] \in [path : Paths, hash : Contents]
    <3> TAKE i \in DOMAIN files
    <3>1. files[i] \in [path : Paths, hash : Contents]
      BY Mover
    <3> QED
      BY <1>1, <1>4, <3>1
  <2>3. files' \in [DOMAIN files' -> [path : Paths, hash : Contents]]
    BY <1>4, <2>1, <2>2
  <2>4. /\ disk' \in [Paths -> Contents \cup {Missing}] /\ project' \in BOOLEAN
        /\ ops' \in 0 .. MaxOps /\ settled' \in [Workers -> BOOLEAN]
        /\ DOMAIN files' \subseteq Nat \ {0} /\ IsFiniteSet(DOMAIN files')
    BY <1>2, <2>1, Mover
  <2> QED
    BY <1>2, <1>4, <2>3, <2>4, IdleTyped, MoveSound DEF Typed
<1> QED
  BY <1>3, <1>4 DEF RenameRecord

LEMMA ProjectNextRange == ASSUME RangeInv, NEW w \in Workers, ProjectNextFile(w)
                          PROVE  RangeInv'
<1> DEFINE l == wk[w]
<1>1. l \in Locals /\ l.pc = "project_free" /\ l.rows = <<>>
  BY Mover DEF ProjectNextFile, CallSound
<1>2. PICK fid \in l.rest :
        Goto(w, [l EXCEPT !.rest = @ \ {fid}, !.free = get_chunks_by_file(fid)])
  BY DEF ProjectNextFile
<1>3. UNCHANGED <<disk, project, files, chunks, emb, ops, settled>>
  BY DEF ProjectNextFile, tables
<1> DEFINE cs == get_chunks_by_file(fid)
           a == [l EXCEPT !.rest = @ \ {fid}, !.free = cs]
<1>4. cs \subseteq chunks /\ cs \in SUBSET Chunk
  BY Mover DEF get_chunks_by_file
<1>5. l.rest \ {fid} \in SUBSET Nat
  BY <1>1 DEF Locals
<1>6. Goto(w, a)
  BY <1>2
<1> HIDE DEF l, cs
<1>7. a \in Locals /\ a.free = cs /\ a.rows = <<>> /\ a.pc = "project_free"
  BY <1>1, <1>4, <1>5 DEF Locals, Points
<1> HIDE DEF a
<1>8. Typed(a)
  BY <1>4, <1>7, InHandTyped
<1> QED
  BY <1>3, <1>6, <1>8, Mover, OnlyMoves

LEMMA ProjectDropRange == ASSUME RangeInv, NEW w \in Workers, ProjectDrop(w)
                          PROVE  RangeInv'
<1>1. /\ project' = FALSE /\ files' = [i \in {} |-> i] /\ chunks' = {}
      /\ Goto(w, Idle) /\ UNCHANGED <<disk, emb, ops, settled>>
  BY DEF ProjectDrop
<1>2. DOMAIN files' = {} /\ files' \in [DOMAIN files' -> [path : Paths, hash : Contents]]
  BY <1>1
<1>3. IsFiniteSet(DOMAIN files') /\ IsFiniteSet(chunks')
  BY <1>1, <1>2, FS_EmptySet
<1>4. Idle \in Locals /\ CallSound(Idle, emb)
  BY IdleTyped DEF Typed
<1>5. emb = [num_rows |-> emb.num_rows, freelist |-> emb.freelist, mm |-> emb.mm]
  BY DEF RangeInv, TypeOK
<1>6. DOMAIN files' \subseteq Nat \ {0} /\ project' \in BOOLEAN /\ chunks' \subseteq Chunk
      /\ \A c \in chunks' : c.row \in RowsOf(emb')
  BY <1>1, <1>2
<1> QED
  BY <1>1, <1>2, <1>3, <1>4, <1>5, <1>6, Mover, StoresMove

LEMMA CrashRange == ASSUME RangeInv, Crash
                    PROVE  RangeInv'
<1>1. wk' = [v \in Workers |-> Idle] /\ settled' = [v \in Workers |-> FALSE]
      /\ UNCHANGED <<disk, project, files, ops>>
  BY DEF Crash
<1>2. wk' \in [Workers -> Locals] /\ \A v \in Workers : CallSound(wk'[v], emb)
  BY <1>1, IdleTyped DEF Typed
<1>3. settled' \in [Workers -> BOOLEAN]
  BY <1>1
<1>4. CASE UNCHANGED <<chunks, emb>>
  <2>1. TypeOK'
    BY <1>1, <1>2, <1>3, <1>4 DEF RangeInv, TypeOK
  <2> QED
    BY <1>2, <1>4, <2>1 DEF RangeInv, Referenced
<1>5. ASSUME NEW w \in Workers, NEW k, wk[w].pc = "insert",
             chunks' = chunks \cup {c \in NewChunks(w) : c.ix <= k}, UNCHANGED emb
      PROVE  RangeInv'
  <2>1. {c \in NewChunks(w) : c.ix <= k} \in SUBSET NewChunks(w)
    OBVIOUS
  <2>2. IsFiniteSet({c \in NewChunks(w) : c.ix <= k})
    BY <1>5, <2>1, FS_Subset, NewChunksSound
  <2>3. IsFiniteSet(chunks')
    BY <1>5, <2>2, FS_Union, Mover
  <2>4. chunks' \subseteq Chunk /\ \A c \in chunks' : c.row \in RowsOf(emb)
    BY <1>5, Mover, NewChunksSound
  <2>5. TypeOK'
    BY <1>1, <1>2, <1>3, <1>5, <2>3, <2>4 DEF RangeInv, TypeOK
  <2> QED
    BY <1>2, <1>5, <2>4, <2>5 DEF RangeInv, Referenced
<1>6. ASSUME NEW w \in Workers, NEW c \in NextToFree(w),
             emb' = [emb EXCEPT !.mm[c.row] = Zero], UNCHANGED chunks
      PROVE  RangeInv'
  <2> DEFINE mm == [emb.mm EXCEPT ![c.row] = Zero]
  <2>1. emb = [num_rows |-> emb.num_rows, freelist |-> emb.freelist, mm |-> emb.mm]
    BY DEF RangeInv, TypeOK
  <2>2. emb' = [emb EXCEPT !.mm = mm]
    BY <1>6
  <2>3. emb' = [num_rows |-> emb.num_rows, freelist |-> emb.freelist, mm |-> mm]
    <3> HIDE DEF mm
    <3> QED
      BY <2>1, <2>2
  <2>4. mm \in [RowsOf(emb) -> Hashes \cup {Zero}]
    <3>1. emb.mm \in [RowsOf(emb) -> Hashes \cup {Zero}]
      BY Mover DEF StoreSound
    <3> QED
      BY <3>1
  <2> HIDE DEF mm
  <2>5. emb'.num_rows = emb.num_rows /\ emb'.freelist = emb.freelist /\ emb'.mm = mm
    BY <2>3
  <2>6. RowsOf(emb') = RowsOf(emb)
    BY <2>5 DEF RowsOf
  <2>7. StoreSound(emb')
    BY <2>4, <2>5, <2>6, Mover DEF StoreSound
  <2>8. \A v \in Workers : CallSound(wk'[v], emb')
    BY <1>2, <2>6 DEF CallSound
  <2>9. TypeOK'
    BY <1>1, <1>2, <1>3, <1>6, <2>3, <2>5 DEF RangeInv, TypeOK
  <2> QED
    BY <1>6, <2>6, <2>7, <2>8, <2>9 DEF RangeInv, Referenced
<1> QED
  BY <1>4, <1>5, <1>6 DEF Crash

LEMMA StepRange == ASSUME RangeInv, NEW w \in Workers, Step(w)
                   PROVE  RangeInv'
<1>1. CASE \E p \in Paths : NextFile(w, p)
  BY <1>1, NextFileRange
<1>2. CASE BatchEnd(w) \/ IndexRead(w) \/ IndexLookup(w) \/ IndexUpsertFile(w) \/ IndexDiff(w)
  BY <1>2, BatchEndRange, IndexReadRange, IndexLookupRange, IndexUpsertRange, IndexDiffRange
<1>3. CASE FreeNext(w) \/ IndexEmbed(w) \/ IndexDropOld(w) \/ upsert_chunks(w)
  BY <1>3, FreeNextRange, IndexEmbedRange, IndexDropOldRange, UpsertChunksRange
<1>4. CASE DeleteLookup(w) \/ DeleteReadChunks(w) \/ DeleteRecord(w)
  BY <1>4, DeleteLookupRange, DeleteReadRange, DeleteRecordRange
<1>5. CASE RenameRecord(w) \/ ProjectNextFile(w) \/ ProjectDrop(w)
  BY <1>5, RenameRecordRange, ProjectNextRange, ProjectDropRange
<1> QED
  BY <1>1, <1>2, <1>3, <1>4, <1>5 DEF Step

LEMMA InitRange == Init => RangeInv
<1> SUFFICES ASSUME Init PROVE RangeInv
  OBVIOUS
<1>1. /\ disk \in [Paths -> Contents \cup {Missing}] /\ project \in BOOLEAN /\ ops \in 0 .. MaxOps
      /\ settled \in [Workers -> BOOLEAN]
  <2>1. disk \in [Paths -> Contents \cup {Missing}]
    BY DEF Init
  <2>2. project \in BOOLEAN
    BY DEF Init
  <2>3. ops \in 0 .. MaxOps
    BY MaxOpsAssumption DEF Init
  <2>4. settled \in [Workers -> BOOLEAN]
    BY DEF Init
  <2> QED
    BY <2>1, <2>2, <2>3, <2>4
<1>2. DOMAIN files = {} /\ files \in [DOMAIN files -> [path : Paths, hash : Contents]] /\ chunks = {}
  BY DEF Init
<1>3. wk \in [Workers -> Locals] /\ \A w \in Workers : CallSound(wk[w], emb)
  BY IdleTyped DEF Init, Typed
<1>4. emb = [num_rows |-> 0, freelist |-> <<>>, mm |-> [r \in {} |-> Zero]]
  BY DEF Init
<1>5. emb.num_rows = 0 /\ emb.freelist = <<>> /\ DOMAIN emb.mm = {} /\ RowsOf(emb) = {}
      /\ emb.mm = [r \in {} |-> Zero]
  BY <1>4 DEF RowsOf
<1>6. StoreSound(emb)
  BY <1>5 DEF StoreSound
<1>7. TypeOK
  BY <1>1, <1>2, <1>3, <1>4, <1>5, FS_EmptySet DEF TypeOK
<1> QED
  BY <1>2, <1>3, <1>6, <1>7 DEF RangeInv, Referenced

LEMMA NextRange == RangeInv /\ [Next]_vars => RangeInv'
<1> SUFFICES ASSUME RangeInv, [Next]_vars PROVE RangeInv'
  OBVIOUS
<1>1. ASSUME NEW p \in Paths, NEW c \in Contents \cup {Missing}, Edit(p, c) PROVE RangeInv'
  BY <1>1, EditRange
<1>2. ASSUME NEW w \in Workers, CallAny(w) \/ Step(w) PROVE RangeInv'
  BY <1>2, CallRange, StepRange
<1>3. ASSUME NEW w \in Workers, EncodeFails(w) PROVE RangeInv'
  BY <1>3, IdleTyped, Mover, OnlyMoves DEF EncodeFails, tables
<1>4. CASE Crash
  BY <1>4, CrashRange
<1>5. CASE UNCHANGED vars
  <2>1. UNCHANGED <<disk, project, files, chunks, emb, wk, ops, settled>>
    BY <1>5 DEF vars
  <2>2. TypeOK'
    BY <2>1 DEF RangeInv, TypeOK
  <2> QED
    BY <2>1, <2>2 DEF RangeInv, Referenced
<1> QED
  BY <1>1, <1>2, <1>3, <1>4, <1>5 DEF Next

(* Whatever any number of threads do, and wherever they fail or the process  *)
(* dies, the rows that chunks name and that calls are about to free exist:   *)
(* free_row never raises in the middle of a loop.                            *)
THEOREM RowsInRangeForAll == Spec => []RowsInRange
<1>1. RangeInv => RowsInRange
  BY DEF RangeInv, RowsInRange, CallSound, RowsOf
<1> QED
  BY <1>1, InitRange, NextRange, PTL DEF Spec

-----------------------------------------------------------------------------
(* One caller *)

(* One thread calls, nothing fails in mid-call, and no content has the same  *)
(* chunk twice.                                                              *)
OneCaller ==
    /\ \E w : Workers = {w}
    /\ ~CanFail /\ ~CanCrash
    /\ \A c \in Contents : \A i, j \in DOMAIN c : c[i] = c[j] => i = j

IInv == RangeInv /\ OneCallerInv

(* Outside these points a call has nothing to do with chunks or rows. *)
Calm(l) == l.pc \notin {"diff", "free", "insert", "delete_free", "project_free"}

(* Records, chunks and rows as they are then. *)
TablesAgree ==
    /\ \A i, j \in DOMAIN files : files[i].path = files[j].path => i = j
    /\ \A c \in chunks : c.fid \in DOMAIN files
    /\ \A fid \in DOMAIN files : StoredAs(fid, files[fid].hash)

LEMMA CalmIs ==
    ASSUME NEW l, Calm(l), CallSound(l, emb), NEW cs
    PROVE  Stored(cs, l) = cs /\ Taken(l) = {} /\ (FilesSound(l) <=> TablesAgree)
<1>1. Stored(cs, l) = cs
  BY DEF Calm, Stored
<1>2. Taken(l) = {}
  BY DEF Calm, CallSound, Taken
<1>3. FilesSound(l) <=> TablesAgree
  BY DEF Calm, FilesSound, TablesAgree, Indexing
<1> QED
  BY <1>1, <1>2, <1>3

(* What the invariant says of the only caller. *)
LEMMA Sole ==
    ASSUME IInv, NEW w \in Workers
    PROVE  /\ RowsOwned(Stored(chunks, wk[w]), wk[w], emb)
           /\ FilesSound(wk[w]) /\ CallFits(wk[w])
           /\ wk[w].scan /\ settled[w] => ScanSound(wk[w])
BY DEF IInv, OneCallerInv

LEMMA Compose ==
    ASSUME RangeInv, NEW w, Workers = {w}, NEW m, Goto(w, m),
           RowsOwned(Stored(chunks', m), m, emb'), FilesSound(m)', CallFits(m)',
           m.scan /\ settled'[w] => ScanSound(m)'
    PROVE  OneCallerInv'
<1>1. wk'[w] = m
  BY DEF RangeInv, TypeOK, Goto
<1>2. \A v \in Workers : v = w
  OBVIOUS
<1>3. RowsOwned(Stored(chunks', wk'[w]), wk'[w], emb')
  BY <1>1
<1>4. FilesSound(wk[w])'
  BY <1>1 DEF FilesSound, Indexing
<1>5. CallFits(wk[w])'
  BY <1>1 DEF CallFits, Indexing, InHand
<1>6. wk'[w].scan /\ settled'[w] => ScanSound(wk[w])'
  BY <1>1 DEF ScanSound, InHand
<1> QED
  BY <1>2, <1>3, <1>4, <1>5, <1>6 DEF OneCallerInv

(* A step between calm points that leaves the stores alone. *)
LEMMA CalmStep ==
    ASSUME IInv, NEW w, Workers = {w}, NEW m, Goto(w, m), CallSound(m, emb),
           Calm(wk[w]), Calm(m), UNCHANGED <<files, chunks, emb>>,
           m.pc = "upsert" => m.fid = get_file(m.path),
           m.scan => m.pc = "batch" \/ InHand(m),
           m.scan /\ settled'[w] => ScanSound(m)'
    PROVE  OneCallerInv'
<1>1. RangeInv /\ CallSound(wk[w], emb)
  BY DEF IInv, RangeInv
<1>2. RowsOwned(Stored(chunks, m), m, emb)
  <2>1. Stored(chunks, m) = Stored(chunks, wk[w]) /\ Taken(m) = {}
    BY <1>1, CalmIs
  <2>2. RowsOwned(Stored(chunks, wk[w]), wk[w], emb) /\ Taken(wk[w]) = {}
    BY <1>1, CalmIs, Sole
  <2> QED
    BY <2>1, <2>2 DEF RowsOwned
<1>3. FilesSound(m)
  BY <1>1, CalmIs, Sole
<1>4. FilesSound(m)'
  BY <1>3 DEF FilesSound, Indexing, StoredAs, get_chunks_by_file
<1>5. CallFits(m)'
  <2>1. m.pc = "upsert" => m.fid = get_file(m.path)'
    BY DEF get_file
  <2> QED
    BY <2>1 DEF CallFits, Calm, Indexing
<1> QED
  BY <1>1, <1>2, <1>4, <1>5, Compose

LEMMA IdleCalm == Calm(Idle) /\ CallSound(Idle, emb) /\ Idle.pc = "idle" /\ ~Idle.scan
BY IdleTyped DEF Idle, Calm, Typed

LEMMA FileDoneCalm ==
    ASSUME RangeInv, NEW w \in Workers
    PROVE  /\ Calm(FileDone(w)) /\ CallSound(FileDone(w), emb) /\ FileDone(w).pc = "batch"
           /\ FileDone(w).todo = wk[w].todo /\ FileDone(w).scan = wk[w].scan
<1>1. FileDone(w) = [Idle EXCEPT !.pc = "batch", !.todo = wk[w].todo, !.scan = wk[w].scan]
  BY DEF FileDone
<1>2. FileDone(w).pc = "batch" /\ FileDone(w).todo = wk[w].todo /\ FileDone(w).scan = wk[w].scan
  BY <1>1 DEF Idle
<1> QED
  BY <1>2, FileDoneTyped DEF Calm, Typed

(* get_file finds the record of a path, if there is one. *)
LEMMA GetFileIs ==
    ASSUME RangeInv, NEW p
    PROVE  /\ get_file(p) # 0 => get_file(p) \in DOMAIN files /\ files[get_file(p)].path = p
           /\ get_file(p) = 0 => \A i \in DOMAIN files : files[i].path # p
<1>1. 0 \notin DOMAIN files
  BY Mover DEF RangeInv, TypeOK
<1> QED
  BY <1>1 DEF get_file

(* Files change, calls do not. *)
LEMMA EditOne == ASSUME IInv, NEW w, Workers = {w}, NEW p \in Paths, NEW c, Edit(p, c)
                 PROVE  OneCallerInv'
<1>1. UNCHANGED <<files, chunks, emb, wk>> /\ ~settled'[w]
  BY DEF Edit, tables
<1>2. RowsOwned(Stored(chunks, wk[w]), wk[w], emb) /\ FilesSound(wk[w]) /\ CallFits(wk[w])
  BY Sole
<1>3. FilesSound(wk[w])' /\ CallFits(wk[w])'
  BY <1>1, <1>2 DEF FilesSound, CallFits, Indexing, InHand, StoredAs, get_chunks_by_file, get_file
<1>4. RowsOwned(Stored(chunks', wk'[w]), wk'[w], emb')
  BY <1>1, <1>2
<1>5. \A v \in Workers : v = w
  OBVIOUS
<1> QED
  BY <1>1, <1>3, <1>4, <1>5 DEF OneCallerInv

(* The same when the thread then neither scans nor is about to record.       *)
LEMMA CalmMove ==
    ASSUME IInv, NEW w, Workers = {w}, NEW m, Goto(w, m), CallSound(m, emb),
           Calm(wk[w]), Calm(m), UNCHANGED <<files, chunks, emb>>,
           m.pc # "upsert", ~m.scan
    PROVE  OneCallerInv'
BY CalmStep

LEMMA IdleAt ==
    ASSUME IInv, NEW w \in Workers, wk[w].pc = "idle"
    PROVE  Calm(wk[w]) /\ CallSound(wk[w], emb) /\ ~wk[w].scan
BY Sole, Mover DEF Calm, CallFits, InHand, IInv

LEMMA ScanBegins ==
    ASSUME IInv, NEW w, Workers = {w}, full_scan(w)
    PROVE  OneCallerInv'
<1> DEFINE todo == {p \in Paths : disk[p] # Missing}
<1>1. PICK m : m = [Idle EXCEPT !.pc = "batch", !.scan = TRUE, !.todo = todo]
  OBVIOUS
<1>2. m.pc = "batch" /\ m.scan /\ m.todo = todo /\ m.free = {} /\ m.rows = <<>>
  <2> HIDE DEF todo
  <2> QED
    BY <1>1 DEF Idle
<1>3. /\ Goto(w, m) /\ UNCHANGED <<disk, files, chunks, emb>>
      /\ wk[w].pc = "idle"
  BY <1>1 DEF full_scan, tables, Call
<1>4. CallSound(m, emb) /\ Calm(m)
  BY <1>2 DEF CallSound, Calm
<1>5. Calm(wk[w])
  BY <1>3 DEF Calm
<1>6. ScanSound(m)'
  <2>1. ASSUME NEW p \in Paths, should_index(p)' PROVE p \in m.todo
    BY <1>2, <1>3, <2>1, IndexableAssumption, MissingAssumption DEF should_index
  <2> QED
    BY <1>2, <2>1 DEF ScanSound, InHand
<1> QED
  BY <1>2, <1>3, <1>4, <1>5, <1>6, CalmStep

LEMMA ProjectDeleteBegins ==
    ASSUME IInv, NEW w, Workers = {w}, delete_project(w)
    PROVE  OneCallerInv'
<1>1. PICK m : m = [Idle EXCEPT !.pc = "project_free", !.rest = DOMAIN files]
  OBVIOUS
<1>2. m.pc = "project_free" /\ ~m.scan /\ m.rest = DOMAIN files /\ m.free = {} /\ m.rows = <<>>
  BY <1>1 DEF Idle
<1>3. Goto(w, m) /\ UNCHANGED <<files, chunks, emb>> /\ wk[w].pc = "idle"
  BY <1>1 DEF delete_project, tables, Call
<1>4. Stored(chunks, wk[w]) = chunks /\ Taken(wk[w]) = {} /\ TablesAgree
  BY <1>3, CalmIs, IdleAt, Sole
<1>5. Stored(chunks, m) = chunks /\ Taken(m) = {}
  BY <1>2, <1>4 DEF Stored, Taken, TablesAgree
<1>6. RowsOwned(Stored(chunks', m), m, emb')
  BY <1>3, <1>4, <1>5, Sole DEF RowsOwned
<1>7. FilesSound(m)'
  BY <1>2, <1>3, <1>4 DEF FilesSound, TablesAgree, StoredAs, get_chunks_by_file
<1>8. CallFits(m)'
  BY <1>2, <1>3 DEF CallFits, Indexing, InHand
<1> QED
  BY <1>2, <1>3, <1>6, <1>7, <1>8, Compose DEF IInv

LEMMA CallOne ==
    ASSUME IInv, NEW w, Workers = {w}, CallAny(w)
    PROVE  OneCallerInv'
<1>1. wk[w].pc = "idle"
  BY DEF CallAny, Call, add_project, full_scan, update_files, delete_file, rename_file, delete_project
<1>2. Calm(wk[w]) /\ CallSound(wk[w], emb) /\ ~wk[w].scan
  BY <1>1, IdleAt
<1>3. CASE add_project(w)
  <2>1. PICK m : m = wk[w]
    OBVIOUS
  <2>2. Goto(w, m) /\ UNCHANGED <<files, chunks, emb>>
    BY <1>3, <2>1 DEF add_project, Goto, IInv, RangeInv, TypeOK
  <2> QED
    BY <1>1, <1>2, <2>1, <2>2, CalmMove
<1>4. ASSUME NEW ps, update_files(w, ps) PROVE OneCallerInv'
  <2>1. PICK m : m = [Idle EXCEPT !.pc = "batch", !.todo = ps]
    OBVIOUS
  <2>2. Goto(w, m) /\ UNCHANGED <<files, chunks, emb>>
    BY <1>4, <2>1 DEF update_files, tables
  <2>3. m.pc = "batch" /\ ~m.scan /\ m.free = {} /\ m.rows = <<>>
    BY <2>1 DEF Idle
  <2> QED
    BY <1>2, <2>2, <2>3, CalmMove DEF CallSound, Calm
<1>5. ASSUME NEW p, delete_file(w, p) PROVE OneCallerInv'
  <2>1. PICK m : m = [Idle EXCEPT !.pc = "delete", !.path = p]
    OBVIOUS
  <2>2. Goto(w, m) /\ UNCHANGED <<files, chunks, emb>>
    BY <1>5, <2>1 DEF delete_file, tables
  <2>3. m.pc = "delete" /\ ~m.scan /\ m.free = {} /\ m.rows = <<>>
    BY <2>1 DEF Idle
  <2> QED
    BY <1>2, <2>2, <2>3, CalmMove DEF CallSound, Calm
<1>6. ASSUME NEW p, NEW q \in Paths, rename_file(w, p, q) PROVE OneCallerInv'
  <2>1. PICK m : m = IF should_index(q)
                     THEN [Idle EXCEPT !.pc = "rename", !.path = p, !.to = q, !.fid = get_file(p)]
                     ELSE [Idle EXCEPT !.pc = "delete", !.path = p]
    OBVIOUS
  <2>2. Goto(w, m) /\ UNCHANGED <<files, chunks, emb>>
    BY <1>6, <2>1 DEF rename_file, tables
  <2>3. /\ m.pc = "delete" \/ (m.pc = "rename" /\ m.to = q)
        /\ ~m.scan /\ m.free = {} /\ m.rows = <<>>
    BY <2>1 DEF Idle
  <2> QED
    BY <1>2, <2>2, <2>3, CalmMove DEF CallSound, Calm
<1> QED
  BY <1>3, <1>4, <1>5, <1>6, ScanBegins, ProjectDeleteBegins DEF CallAny

(* In the middle of a batch. *)
LEMMA NextFileOne ==
    ASSUME IInv, NEW w, Workers = {w}, NEW p \in Paths, NextFile(w, p)
    PROVE  OneCallerInv'
<1> DEFINE l == wk[w]
<1>1. /\ l \in Locals /\ l.pc = "batch" /\ l.free = {} /\ l.rows = <<>> /\ p \in l.todo /\ Calm(l)
      /\ UNCHANGED <<disk, files, chunks, emb, settled>>
      /\ CallFits(l) /\ (l.scan /\ settled[w] => ScanSound(l))
  BY Sole, Mover DEF NextFile, tables, CallSound, Calm, IInv
<1> HIDE DEF l
<1>2. CASE Goto(w, Idle)
  <2>1. PICK m : m = Idle
    OBVIOUS
  <2> QED
    BY <1>1, <1>2, <2>1, CalmMove, IdleCalm DEF l
<1>3. CASE should_index(p) /\ Goto(w, [l EXCEPT !.pc = "read", !.todo = @ \ {p}, !.path = p])
  <2>1. PICK m : m = [l EXCEPT !.pc = "read", !.todo = @ \ {p}, !.path = p]
    OBVIOUS
  <2>2. /\ m.pc = "read" /\ m.scan = l.scan /\ m.todo = l.todo \ {p} /\ m.path = p
        /\ m.free = {} /\ m.rows = <<>>
    BY <1>1, <2>1 DEF Locals
  <2>3. CallSound(m, emb) /\ Calm(m) /\ InHand(m)
    BY <2>2 DEF CallSound, Calm, InHand
  <2>4. ASSUME m.scan, settled'[w] PROVE ScanSound(m)'
    <3>1. ScanSound(l)
      BY <1>1, <2>2, <2>4
    <3>2. ASSUME NEW q \in Paths, should_index(q), q \notin m.todo, q # m.path PROVE Recorded(q)
      BY <1>1, <2>2, <3>1, <3>2 DEF ScanSound, InHand
    <3>3. \A q \in Paths : (should_index(q) <=> should_index(q)') /\ (Recorded(q) <=> Recorded(q)')
      BY <1>1 DEF should_index, Recorded
    <3> QED
      BY <2>2, <2>3, <3>2, <3>3 DEF ScanSound, InHand
  <2> QED
    BY <1>1, <1>3, <2>1, <2>2, <2>3, <2>4, CalmStep DEF l
<1>4. CASE ~(should_index(p) /\ l.scan) /\ Goto(w, [l EXCEPT !.todo = @ \ {p}])
  <2>1. PICK m : m = [l EXCEPT !.todo = @ \ {p}]
    OBVIOUS
  <2>2. /\ m.pc = "batch" /\ m.scan = l.scan /\ m.todo = l.todo \ {p}
        /\ m.free = {} /\ m.rows = <<>>
    BY <1>1, <2>1 DEF Locals
  <2>3. CallSound(m, emb) /\ Calm(m)
    BY <2>2 DEF CallSound, Calm
  <2>4. ASSUME m.scan, settled'[w] PROVE ScanSound(m)'
    <3>1. ScanSound(l)
      BY <1>1, <2>2, <2>4
    <3>2. ASSUME NEW q \in Paths, should_index(q), q \notin m.todo PROVE Recorded(q)
      BY <1>1, <1>4, <2>2, <2>4, <3>1, <3>2 DEF ScanSound, InHand
    <3>3. \A q \in Paths : (should_index(q) <=> should_index(q)') /\ (Recorded(q) <=> Recorded(q)')
      BY <1>1 DEF should_index, Recorded
    <3> QED
      BY <2>2, <3>2, <3>3 DEF ScanSound, InHand
  <2> QED
    BY <1>1, <1>4, <2>1, <2>2, <2>3, <2>4, CalmStep DEF l
<1> QED
  BY <1>2, <1>3, <1>4 DEF NextFile, l

(* A file is done and, in a scan, recorded if it may be indexed. *)
LEMMA FileDoneOne ==
    ASSUME IInv, NEW w, Workers = {w}, Calm(wk[w]), InHand(wk[w]), Goto(w, FileDone(w)),
           UNCHANGED <<disk, files, chunks, emb, settled>>,
           wk[w].scan /\ settled[w] =>
             \A q \in Paths : q = wk[w].path /\ should_index(q) => Recorded(q)
    PROVE  OneCallerInv'
<1>1. PICK m : m = FileDone(w)
  OBVIOUS
<1>2. Calm(m) /\ CallSound(m, emb) /\ m.pc = "batch" /\ m.todo = wk[w].todo /\ m.scan = wk[w].scan
  BY <1>1, FileDoneCalm DEF IInv
<1>3. ASSUME m.scan, settled'[w] PROVE ScanSound(m)'
  <2>1. ScanSound(wk[w])
    BY <1>2, <1>3, Sole
  <2>2. ASSUME NEW q \in Paths, should_index(q), q \notin m.todo PROVE Recorded(q)
    BY <1>2, <1>3, <2>1, <2>2 DEF ScanSound
  <2>3. \A q \in Paths : (should_index(q) <=> should_index(q)') /\ (Recorded(q) <=> Recorded(q)')
    BY DEF should_index, Recorded
  <2> QED
    BY <1>2, <2>2, <2>3 DEF ScanSound, InHand
<1> QED
  BY <1>1, <1>2, <1>3, CalmStep

(* A scan that has read a file of the current content. *)
LEMMA KeepsContent ==
    ASSUME IInv, NEW w, Workers = {w}, Calm(wk[w]), InHand(wk[w]), NEW m, Goto(w, m),
           CallSound(m, emb), Calm(m), InHand(m), m.todo = wk[w].todo, m.path = wk[w].path,
           m.scan = wk[w].scan, 
           m.content = disk[m.path] \/ (m.content = wk[w].content /\ wk[w].pc # "read"),
           m.pc = "upsert" => m.fid = get_file(m.path),
           UNCHANGED <<disk, files, chunks, emb, settled>>
    PROVE  OneCallerInv'
<1>1. ASSUME m.scan, settled'[w] PROVE ScanSound(m)'
  <2>1. ScanSound(wk[w])
    BY <1>1, Sole
  <2>2. ASSUME NEW q \in Paths, should_index(q), q \notin m.todo, q # m.path PROVE Recorded(q)
    BY <2>1, <2>2 DEF ScanSound
  <2>3. \A q \in Paths : (should_index(q) <=> should_index(q)') /\ (Recorded(q) <=> Recorded(q)')
    BY DEF should_index, Recorded
  <2>4. m.content = disk'[m.path]
    BY <2>1 DEF ScanSound
  <2> QED
    BY <2>2, <2>3, <2>4 DEF ScanSound, InHand
<1> QED
  BY <1>1, CalmStep

LEMMA IndexReadOne ==
    ASSUME IInv, NEW w, Workers = {w}, IndexRead(w)
    PROVE  OneCallerInv'
<1> DEFINE l == wk[w]
<1>1. /\ l \in Locals /\ l.pc = "read" /\ l.free = {} /\ l.rows = <<>> /\ l.path \in Paths
      /\ UNCHANGED <<disk, files, chunks, emb, settled>>
  BY Mover DEF IndexRead, tables, CallSound, IInv
<1>2. Calm(l) /\ InHand(l)
  BY <1>1 DEF Calm, InHand
<1> HIDE DEF l
<1>3. CASE disk[l.path] = Missing /\ Goto(w, FileDone(w))
  <2>1. ~should_index(l.path)
    BY <1>3, IndexableAssumption, MissingAssumption DEF should_index
  <2> QED
    BY <1>1, <1>2, <1>3, <2>1, FileDoneOne DEF l
<1>4. CASE disk[l.path] # Missing /\ Goto(w, [l EXCEPT !.pc = "lookup", !.content = disk[l.path]])
  <2>1. PICK m : m = [l EXCEPT !.pc = "lookup", !.content = disk[l.path]]
    OBVIOUS
  <2>2. /\ m.pc = "lookup" /\ m.scan = l.scan /\ m.todo = l.todo /\ m.path = l.path
        /\ m.free = {} /\ m.rows = <<>> /\ m.content = disk[l.path]
    BY <1>1, <2>1 DEF Locals
  <2>3. disk[l.path] \in Contents
    BY <1>1, <1>4, Mover DEF IInv
  <2>4. CallSound(m, emb) /\ Calm(m) /\ InHand(m)
    BY <1>1, <2>2, <2>3 DEF CallSound, Calm, InHand
  <2>5. Goto(w, m) /\ m.content = disk[m.path] /\ m.pc # "upsert"
    BY <1>4, <2>1, <2>2
  <2> QED
    BY <1>1, <1>2, <2>2, <2>4, <2>5, KeepsContent DEF l
<1> QED
  BY <1>3, <1>4 DEF IndexRead, l

LEMMA IndexLookupOne ==
    ASSUME IInv, NEW w, Workers = {w}, IndexLookup(w)
    PROVE  OneCallerInv'
<1> DEFINE l == wk[w]
           id == get_file(l.path)
<1>1. /\ l \in Locals /\ l.pc = "lookup" /\ l.free = {} /\ l.rows = <<>> /\ l.path \in Paths
      /\ l.content \in Contents /\ UNCHANGED <<disk, files, chunks, emb, settled>>
  BY Mover DEF IndexLookup, tables, CallSound, IInv
<1>2. Calm(l) /\ InHand(l)
  BY <1>1 DEF Calm, InHand
<1> HIDE DEF l, id
<1>3. CASE id # 0 /\ files[id].hash = l.content /\ Goto(w, FileDone(w))
  <2>1. ASSUME l.scan, settled[w], NEW q \in Paths, q = l.path PROVE Recorded(q)
    <3>1. l.content = disk[q]
      BY <1>1, <1>2, <2>1, Sole DEF ScanSound, l
    <3>2. id \in DOMAIN files /\ files[id].path = q
      BY <1>3, <2>1, GetFileIs DEF id, IInv
    <3>3. files[id] \in [path : Paths, hash : Contents]
      BY <3>2, Mover DEF IInv
    <3>4. files[id] = [path |-> q, hash |-> disk[q]]
      BY <1>3, <3>1, <3>2, <3>3
    <3> QED
      BY <3>2, <3>4 DEF Recorded
  <2> QED
    BY <1>1, <1>2, <1>3, <2>1, FileDoneOne DEF l
<1>4. CASE Goto(w, [l EXCEPT !.pc = "upsert", !.fid = id])
  <2>1. PICK m : m = [l EXCEPT !.pc = "upsert", !.fid = id]
    OBVIOUS
  <2>2. /\ m.pc = "upsert" /\ m.scan = l.scan /\ m.todo = l.todo /\ m.path = l.path
        /\ m.free = {} /\ m.rows = <<>> /\ m.content = l.content /\ m.fid = id
    BY <1>1, <2>1 DEF Locals
  <2>3. CallSound(m, emb) /\ Calm(m) /\ InHand(m)
    BY <1>1, <2>2 DEF CallSound, Calm, InHand
  <2>4. m.fid = get_file(m.path)
    BY <2>2 DEF id
  <2> QED
    BY <1>1, <1>2, <1>4, <2>1, <2>2, <2>3, <2>4, KeepsContent DEF l
<1> QED
  BY <1>3, <1>4 DEF IndexLookup, l, id

LEMMA DeleteLookupOne ==
    ASSUME IInv, NEW w, Workers = {w}, DeleteLookup(w)
    PROVE  OneCallerInv'
<1> DEFINE l == wk[w]
<1>1. /\ l \in Locals /\ l.pc = "delete" /\ l.free = {} /\ l.rows = <<>> /\ ~l.scan
      /\ UNCHANGED <<disk, files, chunks, emb, settled>> /\ Calm(l)
  BY Mover, Sole DEF DeleteLookup, tables, CallSound, IInv, CallFits, InHand, Calm
<1> HIDE DEF l
<1>2. CASE Goto(w, AfterDelete(w))
  <2>1. PICK m : m = AfterDelete(w)
    OBVIOUS
  <2>2. m.pc \in {"idle", "read"} /\ ~m.scan
    BY <2>1 DEF AfterDelete, Idle
  <2>3. CallSound(m, emb)
    BY <2>1, AfterDeleteTyped DEF IInv, Typed
  <2> QED
    BY <1>1, <1>2, <2>1, <2>2, <2>3, CalmMove DEF Calm, l
<1>3. CASE Goto(w, [l EXCEPT !.pc = "delete_chunks", !.fid = get_file(l.path)])
  <2>1. PICK m : m = [l EXCEPT !.pc = "delete_chunks", !.fid = get_file(l.path)]
    OBVIOUS
  <2>2. m.pc = "delete_chunks" /\ ~m.scan /\ m.free = {} /\ m.rows = <<>>
    BY <1>1, <2>1 DEF Locals
  <2>3. Calm(m) /\ CallSound(m, emb)
    BY <2>2 DEF Calm, CallSound
  <2>4. Goto(w, m)
    BY <1>3, <2>1
  <2> QED
    BY <1>1, <2>2, <2>3, <2>4, CalmMove DEF l
<1> QED
  BY <1>2, <1>3 DEF DeleteLookup, l

LEMMA BatchEndOne ==
    ASSUME IInv, NEW w, Workers = {w}, BatchEnd(w)
    PROVE  OneCallerInv'
<1>1. PICK m : m = Idle
  OBVIOUS
<1>2. Goto(w, m) /\ Calm(wk[w]) /\ UNCHANGED <<files, chunks, emb>>
  BY <1>1 DEF BatchEnd, Calm
<1> QED
  BY <1>1, <1>2, IdleCalm, CalmMove

(* Recording a file.  Its id is that of the record of its path, or new.      *)
LEMMA IndexUpsertOne ==
    ASSUME IInv, OneCaller, NEW w, Workers = {w}, IndexUpsertFile(w)
    PROVE  OneCallerInv'
<1> DEFINE l == wk[w]
           p == l.path
           existing == get_file(p)
           cid == CASE existing # 0 -> existing
                    [] existing = 0 /\ l.fid # 0 -> l.fid
                    [] OTHER -> NextId(DOMAIN files)
           rec == [path |-> p, hash |-> l.content]
<1>1. /\ l \in Locals /\ l.pc = "upsert" /\ l.free = {} /\ l.rows = <<>> /\ p \in Paths
      /\ l.content \in Contents /\ UNCHANGED <<disk, project, chunks, emb, settled>>
      /\ l.fid = existing
  BY Mover, Sole DEF IndexUpsertFile, CallSound, CallFits, IInv
<1>2. Calm(l) /\ InHand(l) /\ CallSound(l, emb)
  BY <1>1, Mover DEF Calm, InHand, IInv
<1>3. RowsOwned(chunks, l, emb) /\ Taken(l) = {} /\ TablesAgree
  BY <1>2, CalmIs, Sole
<1> HIDE DEF l
<1>4. CASE files' = files /\ disk[p] = Missing /\ Goto(w, FileDone(w))
  <2>1. ~should_index(p)
    BY <1>4, IndexableAssumption, MissingAssumption DEF should_index
  <2> QED
    BY <1>1, <1>2, <1>4, <2>1, FileDoneOne DEF l
<1>5. CASE files' = files /\ Goto(w, Idle)
  <2>1. PICK m : m = Idle
    OBVIOUS
  <2> QED
    BY <1>1, <1>2, <1>5, <2>1, CalmMove, IdleCalm DEF l
<1>6. ASSUME NEW id, id = cid, ~(existing = 0 /\ (~project \/ id \in DOMAIN files)),
             files' = [i \in DOMAIN files \cup {id} |-> IF i = id THEN rec ELSE files[i]],
             Goto(w, [l EXCEPT !.pc = "diff", !.fid = id])
      PROVE  OneCallerInv'
  <2>1. /\ \A j \in DOMAIN files : files[j].path = p => j = id
        /\ id \in DOMAIN files => files[id].path = p
    <3>1. CASE existing # 0
      <4>1. id = existing /\ existing \in DOMAIN files /\ files[existing].path = p
        BY <1>6, <3>1, GetFileIs DEF IInv
      <4> QED
        BY <1>3, <4>1 DEF TablesAgree
    <3>2. CASE existing = 0
      <4>1. id \notin DOMAIN files
        BY <1>6, <3>2
      <4> QED
        BY <3>2, <4>1, GetFileIs DEF IInv
    <3> QED
      BY <3>1, <3>2
  <2>2. DOMAIN files' = DOMAIN files \cup {id}
    BY <1>6
  <2>3. files'[id] = rec /\ \A j \in DOMAIN files : j # id => files'[j] = files[j]
    BY <1>6
  <2>4. PICK m : m = [l EXCEPT !.pc = "diff", !.fid = id]
    OBVIOUS
  <2>5. /\ m.pc = "diff" /\ m.fid = id /\ m.path = p /\ m.content = l.content /\ m.free = {}
        /\ m.rows = <<>> /\ m.scan = l.scan /\ m.todo = l.todo
    BY <1>1, <2>4 DEF Locals
  <2> HIDE DEF existing
  <2>6. RowsOwned(Stored(chunks', m), m, emb')
    <3>1. Stored(chunks, m) = chunks /\ Taken(m) = {}
      BY <2>5 DEF Stored, Taken
    <3> QED
      BY <1>1, <1>3, <3>1 DEF RowsOwned
  <2>7. FilesSound(m)'
    <3>1. \A i, j \in DOMAIN files' : files'[i].path = files'[j].path => i = j
      <4>1. rec.path = p
        OBVIOUS
      <4> HIDE DEF rec
      <4> QED
        BY <1>3, <2>1, <2>2, <2>3, <4>1 DEF TablesAgree
    <3>2. \A c \in chunks' : c.fid \in DOMAIN files'
      BY <1>1, <1>3, <2>2 DEF TablesAgree
    <3>3. ASSUME NEW fid \in DOMAIN files', fid # id PROVE StoredAs(fid, files[fid].hash)'
      <4>1. fid \in DOMAIN files /\ files'[fid] = files[fid]
        BY <2>2, <2>3, <3>3
      <4> QED
        BY <1>1, <1>3, <4>1 DEF TablesAgree, StoredAs, get_chunks_by_file
    <3>4. \A c, d \in get_chunks_by_file(id) : c.hash = d.hash => c = d
      <4>1. CASE id \in DOMAIN files
        <5>1. StoredAs(id, files[id].hash) /\ files[id].hash \in Contents
          BY <1>3, <4>1, Mover DEF TablesAgree, IInv
        <5> QED
          BY <5>1 DEF StoredAs, OneCaller
      <4>2. CASE id \notin DOMAIN files
        BY <1>3, <4>2 DEF TablesAgree, get_chunks_by_file
      <4> QED
        BY <4>1, <4>2
    <3>5. \A c, d \in get_chunks_by_file(id)' : c.hash = d.hash => c = d
      BY <1>1, <3>4 DEF get_chunks_by_file
    <3> QED
      BY <2>5, <3>1, <3>2, <3>3, <3>5 DEF FilesSound, Indexing
  <2>8. CallFits(m)'
    BY <2>2, <2>3, <2>5 DEF CallFits, Indexing, InHand
  <2>9. ASSUME m.scan, settled'[w] PROVE ScanSound(m)'
    <3>1. ScanSound(l)
      BY <1>1, <2>5, <2>9, Sole DEF l
    <3>2. ASSUME NEW q \in Paths, should_index(q), q \notin m.todo, q # p PROVE Recorded(q)'
      <4>1. PICK i \in DOMAIN files : files[i] = [path |-> q, hash |-> disk[q]]
        BY <2>5, <3>1, <3>2 DEF ScanSound, Recorded
      <4>2. i # id
        BY <2>1, <3>2, <4>1
      <4> QED
        BY <1>1, <2>2, <2>3, <4>1, <4>2 DEF Recorded
    <3>3. \A q \in Paths : should_index(q) <=> should_index(q)'
      BY <1>1 DEF should_index
    <3>4. m.content = disk'[m.path]
      BY <1>1, <1>2, <2>5, <3>1 DEF ScanSound
    <3> QED
      BY <2>5, <3>2, <3>3, <3>4 DEF ScanSound, InHand
  <2> QED
    BY <1>6, <2>4, <2>6, <2>7, <2>8, <2>9, Compose DEF IInv
<1> QED
  BY <1>4, <1>5, <1>6 DEF IndexUpsertFile, l

(* Of chunks with different hashes the row kept for a hash is its chunk's. *)
LEMMA KeptRowOnly ==
    ASSUME NEW old, old \subseteq Chunk, \A c, d \in old : c.hash = d.hash => c = d,
           NEW b \in old
    PROVE  KeptRow(old, b.hash) = b.row /\ b.row # NoRow
<1> DEFINE same == {c \in old : c.hash = b.hash}
           last == {c \in same : \A d \in same : d.ix < c.ix \/ (d.ix = c.ix /\ d.id <= c.id)}
<1>1. b.id \in Nat /\ b.row \in Nat
  BY DEF Chunk
<1>2. same = {b}
  OBVIOUS
<1>3. last = {b}
  BY <1>1, <1>2
<1>4. KeptRow(old, b.hash) = (CHOOSE c \in last : TRUE).row
  BY <1>3 DEF KeptRow
<1> QED
  BY <1>1, <1>3, <1>4 DEF NoRow

(* A step of indexing a file that leaves records and chunks alone. *)
LEMMA IndexingMove ==
    ASSUME IInv, NEW w, Workers = {w}, NEW m, Goto(w, m), wk[w].pc \in {"diff", "free"}, m.pc = "free",
           m.fid = wk[w].fid, m.path = wk[w].path, m.content = wk[w].content, m.scan = wk[w].scan,
           m.todo = wk[w].todo, m.free \subseteq get_chunks_by_file(m.fid),
           UNCHANGED <<disk, files, chunks, settled>>,
           RowsOwned(Stored(chunks, m), m, emb')
    PROVE  OneCallerInv'
<1>1. FilesSound(wk[w]) /\ CallFits(wk[w]) /\ (wk[w].scan /\ settled[w] => ScanSound(wk[w]))
  BY Sole
<1>2. FilesSound(m)'
  BY <1>1 DEF FilesSound, Indexing, StoredAs, get_chunks_by_file
<1>3. CallFits(m)'
  BY <1>1 DEF CallFits, Indexing, InHand, get_chunks_by_file
<1>4. m.scan /\ settled'[w] => ScanSound(m)'
  BY <1>1 DEF ScanSound, InHand, should_index, Recorded
<1> QED
  BY <1>2, <1>3, <1>4, Compose DEF IInv

LEMMA IndexDiffOne ==
    ASSUME IInv, OneCaller, NEW w, Workers = {w}, IndexDiff(w)
    PROVE  OneCallerInv'
<1> DEFINE l == wk[w]
           old == get_chunks_by_file(l.fid)
           new == l.content
           free == Vanished(old, new)
           rows == [i \in DOMAIN new |-> KeptRow(old, new[i])]
<1>1. /\ l \in Locals /\ l.pc = "diff" /\ l.free = {} /\ l.rows = <<>>
      /\ new \in Contents /\ UNCHANGED <<disk, files, chunks, emb, settled>>
      /\ RowsOwned(Stored(chunks, l), l, emb) /\ FilesSound(l)
  BY Mover, Sole DEF IndexDiff, tables, CallSound, IInv
<1>2. PICK m : m = [l EXCEPT !.pc = "free", !.free = free, !.rows = rows]
  OBVIOUS
<1>3. Goto(w, m)
  BY <1>2 DEF IndexDiff
<1>4. old \subseteq chunks /\ old \subseteq Chunk /\ \A c, d \in old : c.hash = d.hash => c = d
  BY <1>1, Mover DEF FilesSound, get_chunks_by_file, IInv
<1>5. /\ m.pc = "free" /\ m.free = free /\ m.rows = rows /\ m.content = new /\ m.fid = l.fid
      /\ m.path = l.path /\ m.scan = l.scan /\ m.todo = l.todo
  <2> HIDE DEF free, rows
  <2> QED
    BY <1>1, <1>2 DEF Locals
<1>6. Stored(chunks, l) = chunks /\ Taken(l) = {}
  BY <1>1 DEF Stored, Taken
<1>7. DOMAIN rows = DOMAIN new /\ \A i \in DOMAIN new : rows[i] = KeptRow(old, new[i])
  OBVIOUS
<1>8. ASSUME NEW i \in Taken(m)
      PROVE  i \in DOMAIN new /\ \E c \in old : c.hash = new[i] /\ c.row = m.rows[i]
  <2>1. i \in DOMAIN new /\ KeptRow(old, new[i]) # NoRow
    BY <1>5, <1>7, <1>8 DEF Taken
  <2>2. \A c \in old : c.row \in Nat
    BY <1>4 DEF Chunk
  <2>3. \E c \in old : c.hash = new[i] /\ c.row = KeptRow(old, new[i])
    <3> HIDE DEF old
    <3> QED
      BY <2>1, <2>2, KeptRowType
  <2> QED
    BY <1>5, <1>7, <2>1, <2>3
<1>9. Stored(chunks, m) = {c \in chunks : c \in free \/ c.fid # l.fid}
  BY <1>5 DEF Stored
<1>10. \A c \in old : c.fid = l.fid
  BY DEF get_chunks_by_file
<1>11. \A c \in old : (\E i \in DOMAIN new : new[i] = c.hash) <=> c \notin free
  BY DEF Vanished
<1>12. ASSUME NEW c \in chunks, c \notin Stored(chunks, m)
       PROVE  \E i \in Taken(m) : m.rows[i] = c.row
  <2>1. c \in old /\ c \notin free
    BY <1>9, <1>12 DEF get_chunks_by_file
  <2>2. PICK i \in DOMAIN new : new[i] = c.hash
    BY <1>11, <2>1
  <2>3. rows[i] = c.row /\ c.row # NoRow
    BY <1>4, <1>7, <2>1, <2>2, KeptRowOnly
  <2> QED
    BY <1>5, <1>7, <2>2, <2>3 DEF Taken
<1>13. \A i, j \in DOMAIN new : new[i] = new[j] => i = j
  BY <1>1 DEF OneCaller
<1> HIDE DEF l, old, free, rows, new
<1>14. RowsOwned(Stored(chunks, m), m, emb)
  <2>1. /\ \A c \in chunks : c.row \in RowsOf(emb) \ FreeRows(emb) /\ emb.mm[c.row] = c.hash
        /\ \A c, d \in chunks : c.row = d.row => c = d
        /\ \A r \in RowsOf(emb) \ FreeRows(emb) : \E c \in chunks : c.row = r
    BY <1>1, <1>6 DEF RowsOwned
  <2>2. Stored(chunks, m) \subseteq chunks
    BY <1>9
  <2>3. \A i \in Taken(m) : m.rows[i] \notin FreeRows(emb) /\ emb.mm[m.rows[i]] = m.content[i]
    BY <1>4, <1>5, <1>8, <2>1
  <2>4. ASSUME NEW i \in Taken(m), NEW j \in Taken(m), m.rows[i] = m.rows[j] PROVE i = j
    <3>1. PICK c \in old : c.hash = new[i] /\ c.row = m.rows[i]
      BY <1>8
    <3>2. PICK d \in old : d.hash = new[j] /\ d.row = m.rows[j]
      BY <1>8
    <3>3. c = d
      BY <1>4, <2>1, <2>4, <3>1, <3>2
    <3> QED
      BY <1>8, <1>13, <3>1, <3>2, <3>3
  <2>5. ASSUME NEW i \in Taken(m), NEW c \in Stored(chunks, m) PROVE m.rows[i] # c.row
    <3>1. PICK d \in old : d.hash = new[i] /\ d.row = m.rows[i]
      BY <1>8
    <3>2. d \notin Stored(chunks, m)
      BY <1>8, <1>9, <1>10, <1>11, <3>1
    <3> QED
      BY <1>4, <2>1, <2>2, <3>1, <3>2
  <2>6. \A r \in RowsOf(emb) \ FreeRows(emb) :
          (\E c \in Stored(chunks, m) : c.row = r) \/ (\E i \in Taken(m) : m.rows[i] = r)
    BY <1>12, <2>1
  <2> QED
    BY <2>1, <2>2, <2>3, <2>4, <2>5, <2>6 DEF RowsOwned
<1>15. m.free \subseteq get_chunks_by_file(m.fid)
  BY <1>5 DEF free, Vanished, old
<1> QED
  BY <1>1, <1>3, <1>5, <1>14, <1>15, IndexingMove DEF l, new

(* A row is freed: its chunk is no longer one of those that own theirs.      *)
LEMMA FreeNextOne ==
    ASSUME IInv, NEW w, Workers = {w}, FreeNext(w)
    PROVE  OneCallerInv'
<1> DEFINE l == wk[w]
<1>1. /\ l \in Locals /\ l.pc \in {"free", "delete_free", "project_free"}
      /\ UNCHANGED <<disk, files, chunks, settled>> /\ StoreSound(emb) /\ CallSound(l, emb)
      /\ RowsOwned(Stored(chunks, l), l, emb) /\ FilesSound(l) /\ CallFits(l)
      /\ (l.scan /\ settled[w] => ScanSound(l))
  BY Mover, Sole DEF FreeNext, tables, IInv
<1>2. PICK c \in l.free : emb' = free_row(emb, c.row) /\ Goto(w, [l EXCEPT !.free = @ \ {c}])
  BY DEF FreeNext, NextToFree
<1> DEFINE free == l.free \ {c}
<1>3. PICK m : m = [l EXCEPT !.free = free]
  OBVIOUS
<1>4. Goto(w, m)
  BY <1>2, <1>3
<1>5. c.row \in RowsOf(emb)
  BY <1>1 DEF CallSound
<1>6. /\ RowsOf(emb') = RowsOf(emb)
      /\ FreeRows(emb') = FreeRows(emb) \cup {c.row}
      /\ \A s \in RowsOf(emb) \ {c.row} : emb'.mm[s] = emb.mm[s]
  <2>1. emb = [num_rows |-> emb.num_rows, freelist |-> emb.freelist, mm |-> emb.mm]
    BY DEF IInv, RangeInv, TypeOK
  <2>2. StoreSound(emb) /\ emb' = free_row(emb, c.row)
    BY <1>1, <1>2
  <2> QED
    BY <1>5, <2>1, <2>2, FreeRow
<1> HIDE DEF l, free
<1>7. /\ m.free = free /\ m.pc = l.pc /\ m.fid = l.fid /\ m.rest = l.rest /\ m.rows = l.rows
      /\ m.path = l.path /\ m.content = l.content /\ m.scan = l.scan /\ m.todo = l.todo
  BY <1>1, <1>3 DEF Locals
<1>8. c \in Stored(chunks, l)
  BY <1>1 DEF CallFits, Stored, get_chunks_by_file
<1>9. Stored(chunks, m) = Stored(chunks, l) \ {c}
  BY <1>1, <1>7 DEF CallFits, Stored, get_chunks_by_file, free
<1>10. Taken(m) = Taken(l)
  BY <1>7 DEF Taken
<1> DEFINE S == Stored(chunks, l)
<1>11. RowsOwned(S \ {c}, m, emb')
  <2>1. /\ \A d \in S : d.row \in RowsOf(emb) \ FreeRows(emb) /\ emb.mm[d.row] = d.hash
        /\ \A b, d \in S : b.row = d.row => b = d
        /\ \A i \in Taken(l) : l.rows[i] \notin FreeRows(emb) /\ emb.mm[l.rows[i]] = l.content[i]
        /\ \A i, j \in Taken(l) : l.rows[i] = l.rows[j] => i = j
        /\ \A i \in Taken(l), d \in S : l.rows[i] # d.row
        /\ \A r \in RowsOf(emb) \ FreeRows(emb) :
             (\E d \in S : d.row = r) \/ (\E i \in Taken(l) : l.rows[i] = r)
    BY <1>1 DEF RowsOwned
  <2>2. \A i \in Taken(l) : l.rows[i] \in RowsOf(emb)
    BY <1>1 DEF CallSound, Taken
  <2>3. c \in S
    BY <1>8
  <2> HIDE DEF S
  <2>4. \A d \in S \ {c} : d.row \in RowsOf(emb') \ FreeRows(emb') /\ emb'.mm[d.row] = d.hash
    BY <1>6, <2>1, <2>3
  <2>5. \A i \in Taken(m) : m.rows[i] \notin FreeRows(emb') /\ emb'.mm[m.rows[i]] = m.content[i]
    BY <1>6, <1>7, <1>10, <2>1, <2>2, <2>3
  <2>6. \A r \in RowsOf(emb') \ FreeRows(emb') :
             (\E d \in S \ {c} : d.row = r) \/ (\E i \in Taken(m) : m.rows[i] = r)
    BY <1>6, <1>7, <1>10, <2>1
  <2> QED
    BY <1>7, <1>10, <2>1, <2>4, <2>5, <2>6 DEF RowsOwned
<1>12. RowsOwned(Stored(chunks', m), m, emb')
  BY <1>1, <1>9, <1>11
<1>13. FilesSound(m)'
  BY <1>1, <1>7 DEF FilesSound, Indexing, StoredAs, get_chunks_by_file
<1>14. CallFits(m)'
  BY <1>1, <1>7 DEF CallFits, Indexing, InHand, get_chunks_by_file, free
<1>15. m.scan /\ settled'[w] => ScanSound(m)'
  BY <1>1, <1>7 DEF ScanSound, InHand, should_index, Recorded
<1> QED
  BY <1>4, <1>12, <1>13, <1>14, <1>15, Compose DEF IInv

LEMMA IndexEmbedOne ==
    ASSUME IInv, NEW w, Workers = {w}, IndexEmbed(w)
    PROVE  OneCallerInv'
<1> DEFINE l == wk[w]
           T == ToEmbed(w)
           new == RowsForBatch(emb, T)
           h == [i \in T |-> l.content[i]]
           rows == [i \in DOMAIN l.rows |-> IF i \in T THEN new[i] ELSE l.rows[i]]
<1>1. /\ l \in Locals /\ l.pc = "free" /\ l.free = {}
      /\ UNCHANGED <<disk, files, chunks, settled>> /\ StoreSound(emb) /\ CallSound(l, emb)
      /\ RowsOwned(Stored(chunks, l), l, emb) /\ CallFits(l)
  BY Mover, Sole DEF IndexEmbed, tables, IInv
<1>2. PICK m : m = [l EXCEPT !.rows = rows]
  OBVIOUS
<1>3. Goto(w, m) /\ emb' = append_batch(emb, h)
  BY <1>2 DEF IndexEmbed
<1>4. T = DOMAIN l.rows \ Taken(l) /\ Taken(l) \subseteq DOMAIN l.rows
  BY DEF ToEmbed, Taken
<1>5. /\ m.free = {} /\ m.pc = "free" /\ m.fid = l.fid /\ m.rows = rows
      /\ m.path = l.path /\ m.content = l.content /\ m.scan = l.scan /\ m.todo = l.todo
  <2> HIDE DEF rows, l
  <2> QED
    BY <1>1, <1>2 DEF Locals
<1>6. /\ RowsOf(emb) \subseteq RowsOf(emb')
      /\ new \in [T -> RowsOf(emb')]
      /\ \A i, j \in T : new[i] = new[j] => i = j
      /\ \A i \in T : new[i] \notin FreeRows(emb') /\ new[i] \notin RowsOf(emb) \ FreeRows(emb)
      /\ \A i \in T : emb'.mm[new[i]] = h[i]
      /\ \A r \in RowsOf(emb) \ FreeRows(emb) : r \notin FreeRows(emb') /\ emb'.mm[r] = emb.mm[r]
      /\ \A r \in RowsOf(emb') \ FreeRows(emb') :
            r \in RowsOf(emb) \ FreeRows(emb) \/ \E i \in T : new[i] = r
  <2>1. IsFiniteSet(T) /\ T \subseteq Int /\ h \in [T -> Hashes]
    BY <1>1, ToEmbedIs DEF IInv
  <2> HIDE DEF T, h, new
  <2>2. new = RowsForBatch(emb, T)
    BY DEF new
  <2> QED
    BY <1>1, <1>3, <2>1, <2>2, AppendBatch
<1>7. DOMAIN rows = DOMAIN l.rows
  OBVIOUS
<1>8. \A i \in T : i \in DOMAIN rows /\ rows[i] = new[i] /\ h[i] = l.content[i]
  BY <1>4
<1>9. \A i \in Taken(l) : i \in DOMAIN rows /\ i \notin T /\ rows[i] = l.rows[i]
  BY <1>4
<1> HIDE DEF l, T, new, h, rows
<1>10. \A r \in RowsOf(emb') : r # NoRow
  BY DEF RowsOf, NoRow
<1>11. Taken(m) = T \cup Taken(l)
  <2>1. \A i \in T : rows[i] # NoRow
    BY <1>6, <1>8, <1>10
  <2>2. \A i \in Taken(l) : rows[i] # NoRow
    BY <1>9 DEF Taken
  <2> QED
    BY <1>4, <1>5, <1>7, <1>8, <1>9, <2>1, <2>2 DEF Taken
<1>12. Stored(chunks, m) = Stored(chunks, l)
  BY <1>1, <1>5 DEF Stored
<1> DEFINE S == Stored(chunks, l)
<1>13. RowsOwned(S, m, emb')
  <2>1. /\ \A d \in S : d.row \in RowsOf(emb) \ FreeRows(emb) /\ emb.mm[d.row] = d.hash
        /\ \A b, d \in S : b.row = d.row => b = d
        /\ \A i \in Taken(l) : l.rows[i] \notin FreeRows(emb) /\ emb.mm[l.rows[i]] = l.content[i]
        /\ \A i, j \in Taken(l) : l.rows[i] = l.rows[j] => i = j
        /\ \A i \in Taken(l), d \in S : l.rows[i] # d.row
        /\ \A r \in RowsOf(emb) \ FreeRows(emb) :
             (\E d \in S : d.row = r) \/ (\E i \in Taken(l) : l.rows[i] = r)
    BY <1>1 DEF RowsOwned
  <2>2. \A i \in Taken(l) : l.rows[i] \in RowsOf(emb)
    BY <1>1 DEF CallSound, Taken
  <2> HIDE DEF S
  <2>3. \A d \in S : d.row \in RowsOf(emb') \ FreeRows(emb') /\ emb'.mm[d.row] = d.hash
    BY <1>6, <2>1
  <2>4. \A i \in Taken(l) : rows[i] \notin FreeRows(emb') /\ emb'.mm[rows[i]] = l.content[i]
    BY <1>6, <1>9, <2>1, <2>2
  <2>5. \A i \in T : rows[i] \notin FreeRows(emb') /\ emb'.mm[rows[i]] = l.content[i]
    BY <1>6, <1>8
  <2>6. ASSUME NEW i \in Taken(m), NEW j \in Taken(m), rows[i] = rows[j] PROVE i = j
    <3>1. CASE i \in T /\ j \in T
      BY <1>6, <1>8, <2>6, <3>1
    <3>2. CASE i \in Taken(l) /\ j \in Taken(l)
      BY <1>9, <2>1, <2>6, <3>2
    <3>3. CASE i \in T /\ j \in Taken(l)
      BY <1>6, <1>8, <1>9, <2>1, <2>2, <2>6, <3>3
    <3>4. CASE i \in Taken(l) /\ j \in T
      BY <1>6, <1>8, <1>9, <2>1, <2>2, <2>6, <3>4
    <3> QED
      BY <1>11, <3>1, <3>2, <3>3, <3>4
  <2>7. ASSUME NEW i \in Taken(m), NEW d \in S PROVE rows[i] # d.row
    <3>1. CASE i \in T
      BY <1>6, <1>8, <2>1, <3>1
    <3>2. CASE i \in Taken(l)
      BY <1>9, <2>1, <3>2
    <3> QED
      BY <1>11, <3>1, <3>2
  <2>8. \A r \in RowsOf(emb') \ FreeRows(emb') :
             (\E d \in S : d.row = r) \/ (\E i \in Taken(m) : rows[i] = r)
    BY <1>6, <1>8, <1>9, <1>11, <2>1
  <2>9. \A i \in Taken(m) : rows[i] \notin FreeRows(emb') /\ emb'.mm[rows[i]] = l.content[i]
    BY <1>11, <2>4, <2>5
  <2> QED
    BY <1>5, <2>1, <2>3, <2>6, <2>7, <2>8, <2>9 DEF RowsOwned
<1>14. m.free \subseteq get_chunks_by_file(m.fid)
  BY <1>5
<1> QED
  BY <1>1, <1>3, <1>5, <1>12, <1>13, <1>14, IndexingMove DEF l

LEMMA IndexDropOldOne ==
    ASSUME IInv, NEW w, Workers = {w}, IndexDropOld(w)
    PROVE  OneCallerInv'
<1> DEFINE l == wk[w]
<1>1. /\ l \in Locals /\ l.pc = "free" /\ l.free = {}
      /\ UNCHANGED <<disk, files, emb, settled>> /\ chunks' = WithoutFile(l.fid)
      /\ RowsOwned(Stored(chunks, l), l, emb) /\ FilesSound(l) /\ CallFits(l)
      /\ (l.scan /\ settled[w] => ScanSound(l))
  BY Mover, Sole DEF IndexDropOld, IInv
<1>2. PICK m : m = [l EXCEPT !.pc = "insert"]
  OBVIOUS
<1>3. Goto(w, m)
  BY <1>2 DEF IndexDropOld
<1> HIDE DEF l
<1>4. /\ m.free = {} /\ m.pc = "insert" /\ m.fid = l.fid /\ m.rows = l.rows
      /\ m.path = l.path /\ m.content = l.content /\ m.scan = l.scan /\ m.todo = l.todo
  BY <1>1, <1>2 DEF Locals
<1>5. Stored(chunks', m) = Stored(chunks, l) /\ Taken(m) = Taken(l)
  BY <1>1, <1>4 DEF Stored, Taken, WithoutFile, get_chunks_by_file
<1>6. RowsOwned(Stored(chunks', m), m, emb')
  BY <1>1, <1>4, <1>5 DEF RowsOwned
<1>7. FilesSound(m)'
  <2>1. get_chunks_by_file(m.fid)' = {}
    BY <1>1, <1>4 DEF WithoutFile, get_chunks_by_file
  <2>2. ASSUME NEW fid \in DOMAIN files, fid # l.fid PROVE StoredAs(fid, files[fid].hash)'
    <3>1. get_chunks_by_file(fid)' = get_chunks_by_file(fid)
      BY <1>1, <2>2 DEF WithoutFile, get_chunks_by_file
    <3>2. StoredAs(fid, files[fid].hash)
      BY <1>1, <2>2 DEF FilesSound
    <3> QED
      BY <1>1, <3>1, <3>2 DEF StoredAs
  <2>3. \A c \in chunks' : c.fid \in DOMAIN files
    BY <1>1 DEF FilesSound, WithoutFile
  <2> QED
    BY <1>1, <1>4, <2>1, <2>2, <2>3 DEF FilesSound, Indexing
<1>8. CallFits(m)'
  BY <1>1, <1>4 DEF CallFits, Indexing, InHand
<1>9. m.scan /\ settled'[w] => ScanSound(m)'
  BY <1>1, <1>4 DEF ScanSound, InHand, should_index, Recorded
<1> QED
  BY <1>3, <1>6, <1>7, <1>8, <1>9, Compose DEF IInv

(* The new chunks take the rows the call has. *)
LEMMA UpsertChunksOne ==
    ASSUME IInv, NEW w, Workers = {w}, upsert_chunks(w)
    PROVE  OneCallerInv'
<1> DEFINE l == wk[w]
           N == NewChunks(w)
<1>1. /\ l \in Locals /\ l.pc = "insert" /\ l.free = {}
      /\ UNCHANGED <<disk, files, emb, settled>> /\ CallSound(l, emb)
      /\ RowsOwned(Stored(chunks, l), l, emb) /\ FilesSound(l) /\ CallFits(l)
      /\ (l.scan /\ settled[w] => ScanSound(l))
  BY Mover, Sole DEF upsert_chunks, CallSound, IInv
<1>2. l.fid \in DOMAIN files /\ files[l.fid] = [path |-> l.path, hash |-> l.content]
  BY <1>1 DEF CallFits, Indexing
<1>3. chunks' = chunks \cup N /\ Goto(w, FileDone(w))
  BY <1>2 DEF upsert_chunks
<1>4. PICK m : m = FileDone(w)
  OBVIOUS
<1>5. Calm(m) /\ CallSound(m, emb) /\ m.pc = "batch" /\ m.todo = l.todo /\ m.scan = l.scan
  BY <1>4, FileDoneCalm DEF IInv
<1>6. Stored(chunks', m) = chunks' /\ Taken(m) = {}
  BY <1>5, CalmIs
<1>7. Stored(chunks, l) = chunks
  BY <1>1 DEF Stored
<1>8. /\ Taken(l) = DOMAIN l.rows /\ DOMAIN l.rows = DOMAIN l.content
      /\ \A i \in DOMAIN l.rows : l.rows[i] \in RowsOf(emb)
  <2>1. \A i \in DOMAIN l.rows : l.rows[i] \in RowsOf(emb)
    BY <1>1 DEF CallSound
  <2>2. \A i \in DOMAIN l.rows : l.rows[i] # NoRow
    BY <2>1 DEF RowsOf, NoRow
  <2> QED
    BY <1>1, <2>1, <2>2 DEF Taken, CallSound
<1>9. /\ \A c \in N : \E i \in DOMAIN l.rows :
           c.fid = l.fid /\ c.ix = i /\ c.hash = l.content[i] /\ c.row = l.rows[i]
      /\ \A i \in DOMAIN l.rows : \E c \in N : c.ix = i /\ c.row = l.rows[i]
      /\ \A c, d \in N : c.ix = d.ix => c = d
  <2> DEFINE id(i) == NextId({c.id : c \in chunks}) + i - 1
             R == DOMAIN l.rows
             new(i) == [id |-> id(i), fid |-> l.fid, ix |-> i, hash |-> l.content[i], row |-> l.rows[i]]
  <2>1. N = {new(i) : i \in R}
    BY DEF NewChunks
  <2> HIDE DEF id, R, N
  <2>2. \A c \in N : \E i \in R : c = new(i)
    BY <2>1
  <2>3. \A i \in R : new(i) \in N
    BY <2>1
  <2>4. \A i : new(i).fid = l.fid /\ new(i).ix = i /\ new(i).hash = l.content[i] /\ new(i).row = l.rows[i]
    OBVIOUS
  <2> HIDE DEF new
  <2> QED
    BY <2>2, <2>3, <2>4 DEF R
<1> HIDE DEF l, N
<1>10. /\ \A c \in chunks : c.row \in RowsOf(emb) \ FreeRows(emb) /\ emb.mm[c.row] = c.hash
       /\ \A c, d \in chunks : c.row = d.row => c = d
       /\ \A i \in DOMAIN l.rows : l.rows[i] \notin FreeRows(emb) /\ emb.mm[l.rows[i]] = l.content[i]
       /\ \A i, j \in DOMAIN l.rows : l.rows[i] = l.rows[j] => i = j
       /\ \A i \in DOMAIN l.rows, c \in chunks : l.rows[i] # c.row
       /\ \A r \in RowsOf(emb) \ FreeRows(emb) :
            (\E c \in chunks : c.row = r) \/ (\E i \in DOMAIN l.rows : l.rows[i] = r)
  BY <1>1, <1>7, <1>8 DEF RowsOwned
<1>11. RowsOwned(Stored(chunks', m), m, emb')
  <2>1. \A c \in N : c.row \in RowsOf(emb) \ FreeRows(emb) /\ emb.mm[c.row] = c.hash
    BY <1>8, <1>9, <1>10
  <2>2. \A c, d \in N : c.row = d.row => c = d
    BY <1>9, <1>10
  <2>3. \A c \in N, d \in chunks : c.row # d.row
    BY <1>9, <1>10
  <2>4. \A r \in RowsOf(emb) \ FreeRows(emb) : \E c \in chunks' : c.row = r
    BY <1>3, <1>9, <1>10
  <2>5. \A c, d \in chunks' : c.row = d.row => c = d
    BY <1>3, <1>10, <2>2, <2>3
  <2>6. \A c \in chunks' : c.row \in RowsOf(emb) \ FreeRows(emb) /\ emb.mm[c.row] = c.hash
    BY <1>3, <1>10, <2>1
  <2>7. RowsOwned(chunks', m, emb)
    BY <1>6, <2>4, <2>5, <2>6 DEF RowsOwned
  <2> QED
    BY <1>1, <1>6, <2>7
<1>12. FilesSound(m)'
  <2>1. \A fid : get_chunks_by_file(fid)' =
                   IF fid = l.fid THEN get_chunks_by_file(fid) \cup N ELSE get_chunks_by_file(fid)
    BY <1>3, <1>9 DEF get_chunks_by_file
  <2>2. get_chunks_by_file(l.fid) = {}
    BY <1>1 DEF FilesSound
  <2>3. ASSUME NEW fid \in DOMAIN files PROVE StoredAs(fid, files[fid].hash)'
    <3>1. CASE fid = l.fid
      <4>1. get_chunks_by_file(fid)' = N
        BY <2>1, <2>2, <3>1
      <4>2. files'[fid].hash = l.content
        BY <1>1, <1>2, <3>1
      <4> QED
        BY <1>8, <1>9, <4>1, <4>2 DEF StoredAs
    <3>2. CASE fid # l.fid
      <4>1. StoredAs(fid, files[fid].hash)
        BY <1>1, <3>2 DEF FilesSound
      <4>2. get_chunks_by_file(fid)' = get_chunks_by_file(fid)
        BY <2>1, <3>2
      <4> QED
        BY <1>1, <4>1, <4>2 DEF StoredAs
    <3> QED
      BY <3>1, <3>2
  <2>4. \A c \in chunks' : c.fid \in DOMAIN files
    BY <1>1, <1>2, <1>3, <1>9 DEF FilesSound
  <2>5. \A i, j \in DOMAIN files : files[i].path = files[j].path => i = j
    BY <1>1 DEF FilesSound
  <2> QED
    BY <1>1, <1>5, <2>3, <2>4, <2>5 DEF FilesSound, Indexing
<1>13. CallFits(m)'
  BY <1>5 DEF CallFits, Indexing, InHand
<1>14. ASSUME m.scan, settled'[w] PROVE ScanSound(m)'
  <2>1. ScanSound(l)
    BY <1>1, <1>5, <1>14
  <2>2. l.content = disk[l.path]
    BY <1>1, <2>1 DEF ScanSound, InHand
  <2>3. ASSUME NEW q \in Paths, should_index(q), q \notin m.todo PROVE Recorded(q)
    <3>1. CASE q = l.path
      BY <1>2, <2>2, <3>1 DEF Recorded
    <3>2. CASE q # l.path
      BY <1>5, <2>1, <2>3, <3>2 DEF ScanSound
    <3> QED
      BY <3>1, <3>2
  <2>4. \A q \in Paths : (should_index(q) <=> should_index(q)') /\ (Recorded(q) <=> Recorded(q)')
    BY <1>1 DEF should_index, Recorded
  <2> QED
    BY <1>5, <2>3, <2>4 DEF ScanSound, InHand
<1>15. Goto(w, m)
  BY <1>3, <1>4
<1> QED
  BY <1>11, <1>12, <1>13, <1>14, <1>15, Compose DEF IInv

-----------------------------------------------------------------------------
(* Deleting and renaming *)

LEMMA DeleteReadOne ==
    ASSUME IInv, NEW w, Workers = {w}, DeleteReadChunks(w)
    PROVE  OneCallerInv'
<1> DEFINE l == wk[w]
           old == get_chunks_by_file(l.fid)
<1>1. /\ l \in Locals /\ l.pc = "delete_chunks" /\ l.rows = <<>> /\ ~l.scan
      /\ UNCHANGED <<disk, files, chunks, emb, settled>> /\ CallSound(l, emb) /\ Calm(l)
  BY Mover, Sole DEF DeleteReadChunks, tables, CallSound, IInv, CallFits, InHand, Calm
<1>2. PICK m : m = [l EXCEPT !.pc = "delete_free", !.free = old]
  OBVIOUS
<1>3. Goto(w, m)
  BY <1>2 DEF DeleteReadChunks
<1>4. RowsOwned(chunks, l, emb) /\ Taken(l) = {} /\ TablesAgree
  BY <1>1, CalmIs, Sole
<1>5. old = {c \in chunks : c.fid = l.fid}
  BY DEF get_chunks_by_file
<1> HIDE DEF l, old
<1>6. m.pc = "delete_free" /\ m.free = old /\ m.rows = <<>> /\ m.fid = l.fid /\ ~m.scan
  BY <1>1, <1>2 DEF Locals
<1>7. Stored(chunks, m) = chunks /\ Taken(m) = {}
  BY <1>5, <1>6 DEF Stored, Taken
<1>8. RowsOwned(Stored(chunks', m), m, emb')
  BY <1>1, <1>4, <1>7 DEF RowsOwned
<1>9. FilesSound(m)'
  BY <1>1, <1>4, <1>6 DEF FilesSound, TablesAgree, StoredAs, get_chunks_by_file
<1>10. CallFits(m)'
  BY <1>1, <1>5, <1>6 DEF CallFits, Indexing, get_chunks_by_file
<1> QED
  BY <1>3, <1>6, <1>8, <1>9, <1>10, Compose DEF IInv

LEMMA AfterDeleteCalm ==
    ASSUME RangeInv, NEW w \in Workers
    PROVE  LET m == AfterDelete(w) IN
           Calm(m) /\ CallSound(m, emb) /\ ~m.scan /\ m.pc \in {"idle", "read"}
<1>1. AfterDelete(w).pc \in {"idle", "read"} /\ ~AfterDelete(w).scan
  BY DEF AfterDelete, Idle
<1> QED
  BY <1>1, AfterDeleteTyped DEF Calm, Typed

LEMMA DeleteRecordOne ==
    ASSUME IInv, NEW w, Workers = {w}, DeleteRecord(w)
    PROVE  OneCallerInv'
<1> DEFINE l == wk[w]
           fid == l.fid
<1>1. /\ l \in Locals /\ l.pc = "delete_free" /\ l.free = {} /\ l.rows = <<>>
      /\ UNCHANGED <<disk, emb, settled>>
      /\ RowsOwned(Stored(chunks, l), l, emb) /\ FilesSound(l)
  BY Mover, Sole DEF DeleteRecord, CallSound, IInv
<1>2. /\ files' = [i \in DOMAIN files \ {fid} |-> files[i]]
      /\ chunks' = {c \in chunks : c.fid # fid}
  BY DEF DeleteRecord, StoreDeleteFile, WithoutFile, get_chunks_by_file
<1>3. PICK m : m = AfterDelete(w)
  OBVIOUS
<1>4. Goto(w, m) /\ Calm(m) /\ CallSound(m, emb) /\ ~m.scan /\ m.pc \in {"idle", "read"}
  BY <1>3, AfterDeleteCalm DEF DeleteRecord, IInv
<1>5. Stored(chunks', m) = chunks' /\ Taken(m) = {}
  BY <1>4, CalmIs
<1>6. Stored(chunks, l) = chunks' /\ Taken(l) = {}
  BY <1>1, <1>2 DEF Stored, Taken
<1>7. RowsOwned(Stored(chunks', m), m, emb')
  BY <1>1, <1>5, <1>6 DEF RowsOwned
<1>8. PICK id : id = fid
  OBVIOUS
<1> HIDE DEF l, fid
<1>9. DOMAIN files' = DOMAIN files \ {id} /\ \A i \in DOMAIN files' : files'[i] = files[i]
  BY <1>2, <1>8
<1>10. FilesSound(m)'
  <2>1. \A i, j \in DOMAIN files' : files'[i].path = files'[j].path => i = j
    BY <1>1, <1>9 DEF FilesSound
  <2>2. \A c \in chunks' : c.fid \in DOMAIN files'
    BY <1>1, <1>2, <1>8, <1>9 DEF FilesSound
  <2>3. ASSUME NEW i \in DOMAIN files' PROVE StoredAs(i, files[i].hash)'
    <3>1. StoredAs(i, files[i].hash)
      BY <1>1, <1>9 DEF FilesSound, Indexing
    <3>2. get_chunks_by_file(i)' = get_chunks_by_file(i)
      BY <1>2, <1>8, <1>9 DEF get_chunks_by_file
    <3> QED
      BY <1>9, <3>1, <3>2 DEF StoredAs
  <2> QED
    BY <1>4, <2>1, <2>2, <2>3 DEF FilesSound, Indexing
<1>11. CallFits(m)'
  BY <1>4 DEF CallFits, Indexing, InHand
<1> QED
  BY <1>4, <1>7, <1>10, <1>11, Compose DEF IInv

LEMMA RenameRecordOne ==
    ASSUME IInv, NEW w, Workers = {w}, RenameRecord(w)
    PROVE  OneCallerInv'
<1> DEFINE l == wk[w]
           fid == l.fid
           to == l.to
<1>1. /\ l \in Locals /\ l.pc = "rename" /\ l.free = {} /\ l.rows = <<>> /\ ~l.scan
      /\ UNCHANGED <<disk, chunks, emb, settled>> /\ CallSound(l, emb) /\ Calm(l)
  BY Mover, Sole DEF RenameRecord, CallSound, IInv, CallFits, InHand, Calm
<1>2. RowsOwned(chunks, l, emb) /\ Taken(l) = {} /\ TablesAgree
  BY <1>1, CalmIs, Sole
<1>3. CASE files' = files /\ Goto(w, [l EXCEPT !.pc = "delete"])
  <2>1. PICK m : m = [l EXCEPT !.pc = "delete"]
    OBVIOUS
  <2> HIDE DEF l
  <2>2. m.pc = "delete" /\ ~m.scan /\ m.free = {} /\ m.rows = <<>>
    BY <1>1, <2>1 DEF Locals
  <2>3. Calm(m) /\ CallSound(m, emb)
    BY <2>2 DEF Calm, CallSound
  <2>4. Goto(w, m)
    BY <1>3, <2>1
  <2> QED
    BY <1>1, <1>3, <2>2, <2>3, <2>4, CalmMove DEF l
<1>4. CASE /\ ~(get_file(to) \notin {0, fid} /\ fid \in DOMAIN files)
           /\ files' = [i \in DOMAIN files |->
                          IF i = fid THEN [files[i] EXCEPT !.path = to] ELSE files[i]]
           /\ Goto(w, Idle)
  <2>1. PICK m : m = Idle
    OBVIOUS
  <2>2. Goto(w, m) /\ Calm(m) /\ CallSound(m, emb) /\ ~m.scan /\ m.pc = "idle"
    BY <1>4, <2>1, IdleCalm
  <2>3. Stored(chunks', m) = chunks' /\ Taken(m) = {}
    BY <2>2, CalmIs
  <2>4. RowsOwned(Stored(chunks', m), m, emb')
    BY <1>1, <1>2, <2>3 DEF RowsOwned
  <2>5. PICK id : id = fid
    OBVIOUS
  <2>6. PICK q : q = to
    OBVIOUS
  <2> HIDE DEF l, fid, to
  <2>7. /\ DOMAIN files' = DOMAIN files
        /\ \A i \in DOMAIN files : files'[i] = IF i = id THEN [files[i] EXCEPT !.path = q] ELSE files[i]
    BY <1>4, <2>5, <2>6
  <2>8. \A i \in DOMAIN files : files'[i].hash = files[i].hash
                                /\ files'[i].path = IF i = id THEN q ELSE files[i].path
    <3> TAKE i \in DOMAIN files
    <3>1. files[i] \in [path : Paths, hash : Contents]
      BY Mover DEF IInv
    <3> QED
      BY <2>7, <3>1
  <2>9. id \in DOMAIN files => \A j \in DOMAIN files : files[j].path = q => j = id
    <3>1. id \in DOMAIN files => get_file(q) \in {0, id}
      BY <1>4, <2>5, <2>6
    <3> QED
      BY <1>2, <3>1, GetFileIs DEF TablesAgree, IInv
  <2>10. FilesSound(m)'
    <3>1. \A i, j \in DOMAIN files' : files'[i].path = files'[j].path => i = j
      BY <1>2, <2>7, <2>8, <2>9 DEF TablesAgree
    <3>2. \A c \in chunks' : c.fid \in DOMAIN files'
      BY <1>1, <1>2, <2>7 DEF TablesAgree
    <3>3. ASSUME NEW i \in DOMAIN files' PROVE StoredAs(i, files[i].hash)'
      <4>1. StoredAs(i, files[i].hash)
        BY <1>2, <2>7 DEF TablesAgree
      <4> QED
        BY <1>1, <2>7, <2>8, <4>1 DEF StoredAs, get_chunks_by_file
    <3> QED
      BY <2>2, <3>1, <3>2, <3>3 DEF FilesSound, Indexing
  <2>11. CallFits(m)'
    BY <2>2 DEF CallFits, Indexing, InHand
  <2> QED
    BY <2>2, <2>4, <2>10, <2>11, Compose DEF IInv
<1> QED
  BY <1>3, <1>4 DEF RenameRecord

LEMMA ProjectNextOne ==
    ASSUME IInv, NEW w, Workers = {w}, ProjectNextFile(w)
    PROVE  OneCallerInv'
<1> DEFINE l == wk[w]
<1>1. /\ l \in Locals /\ l.pc = "project_free" /\ l.free = {} /\ l.rows = <<>> /\ ~l.scan
      /\ UNCHANGED <<disk, files, chunks, emb, settled>>
      /\ RowsOwned(Stored(chunks, l), l, emb) /\ FilesSound(l) /\ CallFits(l)
  BY Mover, Sole DEF ProjectNextFile, tables, CallSound, IInv, CallFits, InHand
<1>2. PICK fid \in l.rest :
        Goto(w, [l EXCEPT !.rest = @ \ {fid}, !.free = get_chunks_by_file(fid)])
  BY DEF ProjectNextFile
<1> DEFINE old == get_chunks_by_file(fid)
<1>3. PICK m : m = [l EXCEPT !.rest = @ \ {fid}, !.free = old]
  OBVIOUS
<1>4. Goto(w, m)
  BY <1>2, <1>3
<1>5. old = {c \in chunks : c.fid = fid}
  BY DEF get_chunks_by_file
<1> HIDE DEF l, old
<1>6. m.pc = "project_free" /\ m.free = old /\ m.rest = l.rest \ {fid} /\ m.rows = <<>> /\ ~m.scan
  BY <1>1, <1>3 DEF Locals
<1>7. Stored(chunks, m) = Stored(chunks, l) /\ Taken(m) = Taken(l) /\ Taken(l) = {}
  BY <1>1, <1>2, <1>5, <1>6 DEF Stored, Taken
<1>8. RowsOwned(Stored(chunks', m), m, emb')
  BY <1>1, <1>7 DEF RowsOwned
<1>9. FilesSound(m)'
  BY <1>1, <1>6 DEF FilesSound, Indexing, StoredAs, get_chunks_by_file
<1>10. CallFits(m)'
  BY <1>1, <1>2, <1>5, <1>6 DEF CallFits, Indexing
<1> QED
  BY <1>4, <1>6, <1>8, <1>9, <1>10, Compose DEF IInv

LEMMA ProjectDropOne ==
    ASSUME IInv, NEW w, Workers = {w}, ProjectDrop(w)
    PROVE  OneCallerInv'
<1> DEFINE l == wk[w]
<1>1. /\ l.pc = "project_free" /\ l.free = {} /\ l.rest = {} /\ l.rows = <<>>
      /\ files' = [i \in {} |-> i] /\ chunks' = {} /\ UNCHANGED emb
      /\ RowsOwned(Stored(chunks, l), l, emb)
  BY Mover, Sole DEF ProjectDrop, CallSound, IInv
<1>2. PICK m : m = Idle
  OBVIOUS
<1>3. Goto(w, m) /\ Calm(m) /\ CallSound(m, emb) /\ ~m.scan /\ m.pc = "idle"
  BY <1>2, IdleCalm DEF ProjectDrop
<1>4. Stored(chunks, l) = {} /\ Taken(l) = {} /\ Stored(chunks', m) = {} /\ Taken(m) = {}
  BY <1>1, <1>3, CalmIs DEF Stored, Taken
<1>5. RowsOwned(Stored(chunks', m), m, emb')
  BY <1>1, <1>4 DEF RowsOwned
<1>6. FilesSound(m)'
  BY <1>1, <1>3 DEF FilesSound, Indexing
<1>7. CallFits(m)'
  BY <1>3 DEF CallFits, Indexing, InHand
<1> QED
  BY <1>3, <1>5, <1>6, <1>7, Compose DEF IInv

LEMMA StepOne ==
    ASSUME IInv, OneCaller, NEW w, Workers = {w}, Step(w)
    PROVE  OneCallerInv'
<1>1. CASE (\E p \in Paths : NextFile(w, p)) \/ BatchEnd(w)
  BY <1>1, NextFileOne, BatchEndOne
<1>2. CASE IndexRead(w) \/ IndexLookup(w) \/ IndexUpsertFile(w) \/ IndexDiff(w)
  BY <1>2, IndexReadOne, IndexLookupOne, IndexUpsertOne, IndexDiffOne
<1>3. CASE FreeNext(w) \/ IndexEmbed(w) \/ IndexDropOld(w) \/ upsert_chunks(w)
  BY <1>3, FreeNextOne, IndexEmbedOne, IndexDropOldOne, UpsertChunksOne
<1>4. CASE DeleteLookup(w) \/ DeleteReadChunks(w) \/ DeleteRecord(w)
  BY <1>4, DeleteLookupOne, DeleteReadOne, DeleteRecordOne
<1>5. CASE RenameRecord(w) \/ ProjectNextFile(w) \/ ProjectDrop(w)
  BY <1>5, RenameRecordOne, ProjectNextOne, ProjectDropOne
<1> QED
  BY <1>1, <1>2, <1>3, <1>4, <1>5 DEF Step

LEMMA NextOne == OneCaller /\ IInv /\ [Next]_vars => IInv'
<1> SUFFICES ASSUME OneCaller, IInv, [Next]_vars PROVE OneCallerInv'
  BY NextRange DEF IInv
<1>1. PICK w : Workers = {w}
  BY DEF OneCaller
<1>2. ASSUME NEW p \in Paths, NEW c, Edit(p, c) PROVE OneCallerInv'
  BY <1>1, <1>2, EditOne
<1>3. CASE CallAny(w) \/ Step(w)
  BY <1>1, <1>3, CallOne, StepOne
<1>4. ASSUME NEW v \in Workers, EncodeFails(v) PROVE FALSE
  BY <1>4 DEF EncodeFails, OneCaller
<1>5. ~Crash
  BY DEF Crash, OneCaller
<1>6. CASE UNCHANGED vars
  <2>1. UNCHANGED <<disk, files, chunks, emb, wk, settled>>
    BY <1>6 DEF vars
  <2>2. RowsOwned(Stored(chunks, wk[w]), wk[w], emb)' /\ FilesSound(wk[w])' /\ CallFits(wk[w])'
    BY <1>1, <2>1, Sole
       DEF FilesSound, CallFits, Indexing, InHand, StoredAs, get_chunks_by_file, get_file
  <2>3. (wk[w].scan /\ settled[w] => ScanSound(wk[w]))'
    BY <1>1, <2>1, Sole DEF ScanSound, InHand, should_index, Recorded
  <2> QED
    BY <1>1, <2>2, <2>3 DEF OneCallerInv
<1> QED
  BY <1>1, <1>2, <1>3, <1>4, <1>5, <1>6 DEF Next

LEMMA InitOne == Init => IInv
<1> SUFFICES ASSUME Init, NEW w \in Workers
             PROVE  /\ RowsOwned(Stored(chunks, wk[w]), wk[w], emb)
                    /\ FilesSound(wk[w]) /\ CallFits(wk[w])
                    /\ wk[w].scan /\ settled[w] => ScanSound(wk[w])
  BY InitRange DEF IInv, OneCallerInv
<1>1. /\ wk[w] = Idle /\ chunks = {} /\ DOMAIN files = {} /\ ~settled[w]
      /\ emb.num_rows = 0
  BY DEF Init
<1>2. RowsOf(emb) = {}
  BY <1>1 DEF RowsOf
<1>3. Stored(chunks, Idle) = {} /\ Taken(Idle) = {}
  BY <1>1, IdleCalm, CalmIs
<1>4. RowsOwned(Stored(chunks, Idle), Idle, emb)
  BY <1>2, <1>3 DEF RowsOwned
<1>5. FilesSound(Idle) /\ CallFits(Idle)
  BY <1>1, IdleCalm DEF FilesSound, CallFits, Indexing
<1> QED
  BY <1>1, <1>4, <1>5

LEMMA QuietIs ==
    ASSUME OneCaller, IInv, Quiet
    PROVE  TablesAgree /\ HashDescribesChunks /\ RowsMatchChunks
<1>1. PICK w : Workers = {w}
  BY DEF OneCaller
<1> DEFINE l == wk[w]
<1>2. Calm(l) /\ CallSound(l, emb)
  BY <1>1, Mover DEF Quiet, Calm, IInv
<1>3. RowsOwned(chunks, l, emb) /\ Taken(l) = {} /\ TablesAgree
  BY <1>1, <1>2, CalmIs, Sole
<1> HIDE DEF l
<1>4. HashDescribesChunks
  BY <1>3 DEF HashDescribesChunks, TablesAgree
<1>5. RowsMatchChunks
  BY <1>3 DEF RowsMatchChunks, RowsHoldTheirChunk, OneRowPerChunk, NoRowLeaks, RowsOwned, RowsOf,
              Free, Referenced
<1> QED
  BY <1>3, <1>4, <1>5

(* One caller: between calls the hash of a file's record describes the       *)
(* chunks stored for it, so the shortcut of _index_file never skips a file   *)
(* whose chunks are missing or old.                                          *)
THEOREM HashDescribesForAll ==
    ASSUME OneCaller
    PROVE  Spec => []HashDescribesChunks
<1>1. IInv => HashDescribesChunks
  BY QuietIs DEF HashDescribesChunks
<1>2. IInv /\ [Next]_vars => IInv'
  BY NextOne
<1> QED
  BY <1>1, <1>2, InitOne, PTL DEF Spec

(* One caller: between calls chunks and allocated rows correspond one to     *)
(* one, and a row holds the embedding of its chunk's text.                   *)
THEOREM RowsMatchForAll ==
    ASSUME OneCaller
    PROVE  Spec => []RowsMatchChunks
<1>1. IInv => RowsMatchChunks
  BY QuietIs DEF RowsMatchChunks, RowsHoldTheirChunk, OneRowPerChunk, NoRowLeaks
<1>2. IInv /\ [Next]_vars => IInv'
  BY NextOne
<1> QED
  BY <1>1, <1>2, InitOne, PTL DEF Spec

(* One caller: a scan during which nothing is edited ends with every file    *)
(* that may be indexed indexed with its content.                             *)
THEOREM ScanIndexesAllForAll ==
    ASSUME OneCaller
    PROVE  Spec => ScanIndexesAll
<1>1. IInv => \A w \in Workers :
                BatchEnd(w) /\ wk[w].scan /\ settled[w] =>
                  \A p \in Paths : should_index(p) =>
                     /\ get_file(p) # 0
                     /\ files[get_file(p)].hash = disk[p]
                     /\ StoredAs(get_file(p), disk[p])
  <2> SUFFICES ASSUME IInv, NEW w \in Workers, BatchEnd(w), wk[w].scan, settled[w],
                      NEW p \in Paths, should_index(p)
               PROVE  /\ get_file(p) # 0
                      /\ files[get_file(p)].hash = disk[p]
                      /\ StoredAs(get_file(p), disk[p])
    OBVIOUS
  <2>1. wk[w].pc = "batch" /\ wk[w].todo = {} /\ Calm(wk[w]) /\ ~InHand(wk[w])
    BY DEF BatchEnd, Calm, InHand
  <2>2. TablesAgree
    BY <2>1, CalmIs, Mover, Sole DEF IInv
  <2>3. Recorded(p)
    BY <2>1, Sole DEF ScanSound
  <2>4. PICK fid \in DOMAIN files : files[fid] = [path |-> p, hash |-> disk[p]]
    BY <2>3 DEF Recorded
  <2>5. files[fid].path = p /\ files[fid].hash = disk[p]
    BY <2>4
  <2>6. get_file(p) = fid /\ get_file(p) # 0
    BY <2>2, <2>5, GetFileIs DEF TablesAgree, IInv
  <2> QED
    BY <2>2, <2>5, <2>6 DEF TablesAgree
<1>2. IInv /\ [Next]_vars =>
        [\A w \in Workers :
           BatchEnd(w) /\ wk[w].scan /\ settled[w] =>
             \A p \in Paths : should_index(p) =>
                /\ get_file(p) # 0
                /\ files[get_file(p)].hash = disk[p]
                /\ StoredAs(get_file(p), disk[p])]_vars
  BY <1>1
<1>3. IInv /\ [Next]_vars => IInv'
  BY NextOne
<1> QED
  BY <1>2, <1>3, InitOne, PTL DEF Spec, ScanIndexesAll
=============================================================================
