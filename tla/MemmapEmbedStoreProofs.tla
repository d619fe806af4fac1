----------------------- MODULE MemmapEmbedStoreProofs -----------------------
(***************************************************************************)
(* Proofs, for every value of the constants, that the embedding store keeps *)
(* its invariants across appends, frees, growth, crashes and restarts, and  *)
(* that it implements RowAllocator.                                         *)
(***************************************************************************)
EXTENDS MemmapEmbedStore, TLAPS

-----------------------------------------------------------------------------
(* Lemmas on the freelist. *)

(* Pushing a row on the freelist, as free_row does, adds that row and keeps  *)
(* the rows distinct when it was not there.                                  *)
LEMMA PushLemma ==
    ASSUME NEW S, NEW s \in Seq(S), NEW x \in S
    PROVE  /\ Append(s, x) \in Seq(S)
           /\ Elems(Append(s, x)) = Elems(s) \cup {x}
           /\ Distinct(s) /\ x \notin Elems(s) => Distinct(Append(s, x))
<1>1. Append(s, x) \in Seq(S) /\ Len(Append(s, x)) = Len(s) + 1
  OBVIOUS
<1>2. \A i \in 1 .. Len(s) + 1 : Append(s, x)[i] = IF i <= Len(s) THEN s[i] ELSE x
  OBVIOUS
<1>3. Elems(Append(s, x)) = Elems(s) \cup {x}
  BY <1>1, <1>2 DEF Elems
<1>4. ASSUME Distinct(s), x \notin Elems(s)
      PROVE  Distinct(Append(s, x))
  BY <1>1, <1>2, <1>4 DEF Elems, Distinct
<1> QED
  BY <1>1, <1>3, <1>4

(* Popping k rows off the end of the freelist, as append_batch does, splits  *)
(* it: what is popped and what remains are together what was there, and are  *)
(* disjoint when the freelist had no duplicates.                             *)
LEMMA PopLemma ==
    ASSUME NEW S, NEW s \in Seq(S), NEW k \in 0 .. Len(s)
    PROVE  LET rest == SubSeq(s, 1, Len(s) - k) IN
           /\ rest \in Seq(S) /\ Popped(s, k) \in Seq(S)
           /\ Len(Popped(s, k)) = k /\ DOMAIN Popped(s, k) = 1..k
           /\ Elems(s) = Elems(rest) \cup Elems(Popped(s, k))
           /\ Distinct(s) => /\ Distinct(rest) /\ Distinct(Popped(s, k))
                             /\ Elems(rest) \cap Elems(Popped(s, k)) = {}
<1> DEFINE rest == SubSeq(s, 1, Len(s) - k)
           pop == Popped(s, k)
<1>1. rest \in Seq(S) /\ Len(rest) = Len(s) - k /\ DOMAIN rest = 1 .. Len(s) - k
  OBVIOUS
<1>2. \A i \in 1 .. Len(s) - k : rest[i] = s[i]
  OBVIOUS
<1>3. pop \in [1..k -> S] /\ DOMAIN pop = 1..k
  BY DEF Popped
<1>4. pop \in Seq(S) /\ Len(pop) = k
  BY <1>3
<1>5. \A i \in 1..k : pop[i] = s[Len(s) - i + 1] /\ Len(s) - i + 1 \in DOMAIN s
  BY DEF Popped
<1> HIDE DEF rest, pop
<1>6. \A j \in Len(s) - k + 1 .. Len(s) : Len(s) - j + 1 \in 1..k /\ s[j] = pop[Len(s) - j + 1]
  BY <1>5
<1>7. Elems(s) \subseteq Elems(rest) \cup Elems(pop)
  <2> SUFFICES ASSUME NEW j \in DOMAIN s
               PROVE  s[j] \in Elems(rest) \cup Elems(pop)
    BY DEF Elems
  <2>1. CASE j <= Len(s) - k
    BY <1>1, <1>2, <2>1 DEF Elems
  <2>2. CASE j > Len(s) - k
    BY <1>3, <1>6, <2>2 DEF Elems
  <2> QED
    BY <2>1, <2>2
<1>8. Elems(rest) \subseteq Elems(s)
  BY <1>1, <1>2 DEF Elems
<1>9. Elems(pop) \subseteq Elems(s)
  BY <1>3, <1>5 DEF Elems
<1>10. ASSUME Distinct(s)
       PROVE  /\ Distinct(rest) /\ Distinct(pop)
              /\ Elems(rest) \cap Elems(pop) = {}
  <2>1. Distinct(rest)
    BY <1>1, <1>2, <1>10 DEF Distinct
  <2>2. Distinct(pop)
    <3> SUFFICES ASSUME NEW i \in 1..k, NEW j \in 1..k, i # j
                 PROVE  pop[i] # pop[j]
      BY <1>3 DEF Distinct
    <3> QED
      BY <1>5, <1>10 DEF Distinct
  <2>3. ASSUME NEW i \in 1 .. Len(s) - k, NEW j \in 1..k
        PROVE  rest[i] # pop[j]
    <3>1. rest[i] = s[i] /\ pop[j] = s[Len(s) - j + 1]
      BY <1>2, <1>5
    <3>2. i \in DOMAIN s /\ Len(s) - j + 1 \in DOMAIN s /\ i # Len(s) - j + 1
      OBVIOUS
    <3> QED
      BY <3>1, <3>2, <1>10 DEF Distinct
  <2> QED
    BY <1>1, <1>3, <2>1, <2>2, <2>3 DEF Elems
<1> QED
  BY <1>1, <1>3, <1>4, <1>7, <1>8, <1>9, <1>10 DEF rest, pop

(* Writing distinct rows stores each vector in its row and leaves the other  *)
(* rows of the file as they were.                                            *)
LEMMA WriteLemma ==
    ASSUME NEW m, NEW rows, NEW vecs, Distinct(rows)
    PROVE  /\ DOMAIN WriteRows(m, rows, vecs) = DOMAIN m
           /\ \A i \in DOMAIN rows :
                rows[i] \in DOMAIN m => WriteRows(m, rows, vecs)[rows[i]] = vecs[i]
           /\ \A r \in DOMAIN m \ Elems(rows) : WriteRows(m, rows, vecs)[r] = m[r]
<1>1. ASSUME NEW i \in DOMAIN rows, rows[i] \in DOMAIN m
      PROVE  WriteRows(m, rows, vecs)[rows[i]] = vecs[i]
  <2>1. rows[i] \in Elems(rows)
    BY DEF Elems
  <2>2. (CHOOSE j \in DOMAIN rows : rows[j] = rows[i]) = i
    BY DEF Distinct
  <2> QED
    BY <1>1, <2>1, <2>2 DEF WriteRows
<1> QED
  BY <1>1 DEF WriteRows

(* The capacity _grow asks for is enough for the rows it is asked for.       *)
LEMMA GrowLemma ==
    ASSUME NEW cap \in Nat, NEW n \in Nat
    PROVE  NewCapacity(cap, n) \in Nat /\ NewCapacity(cap, n) >= cap + n
<1>1. ((cap * GrowthNum) \div GrowthDen) + 1 \in Int
  BY GrowthAssumption
<1> QED
  BY <1>1 DEF NewCapacity, Larger

-----------------------------------------------------------------------------
(* The store a fresh start creates satisfies the inductive invariant.        *)
LEMMA InitIInv == Init => IInv
<1> SUFFICES ASSUME Init PROVE IInv
  OBVIOUS
<1> USE InitialRowsAssumption, BoundsAssumption DEF Init, _create_new
<1>1. TypeOK
  BY DEF TypeOK, Indexes, NoJob
<1>2. Elems(<<>>) = {} /\ Distinct(<<>>)
  BY DEF Elems, Distinct
<1>3. FreelistSound
  BY <1>2 DEF FreelistSound, IndexSound
<1>4. HeldDurable /\ HeldIntact /\ RowsAccounted
  BY <1>2 DEF HeldDurable, HeldIntact, RowsAccounted, Allocated, Unreturned, NoJob
<1>5. JobSound
  BY DEF JobSound, JobRowsSound, FreshRows, WrittenRows, JobPoint, NoJob
<1> QED
  BY <1>1, <1>3, <1>4, <1>5 DEF IInv

(* A row the sidecar or memory has as allocated is a row of the file.        *)
LEMMA AllocatedInFile ==
    ASSUME TypeOK, FreelistSound
    PROVE  /\ Allocated(st) \subseteq DOMAIN mm /\ Allocated(idx) \subseteq DOMAIN mm
           /\ Elems(st.freelist) \subseteq DOMAIN mm
           /\ Elems(idx.freelist) \subseteq DOMAIN mm
BY DEF TypeOK, FreelistSound, IndexSound, Allocated, Indexes

(* append_batch up to the tail: the recycled rows were free in memory and on *)
(* disk, so writing them touches no owned row.                               *)
LEMMA AppendFromFreelistStep ==
    ASSUME IInv, NEW n \in 1..MaxBatch, NEW vecs \in [1..n -> Vectors],
           AppendFromFreelist(n, vecs)
    PROVE  IInv'
<1> DEFINE fl == st.freelist
           k == Smaller(n, Len(fl))
           rows == Popped(fl, k)
           rest == SubSeq(fl, 1, Len(fl) - k)
<1> USE DEF IInv
<1>1. st \in Indexes /\ fl \in Seq(Nat) /\ st.num_rows \in Nat /\ n \in Nat
  BY BoundsAssumption DEF TypeOK, Indexes
<1>2. k \in 0 .. Len(fl) /\ k <= n
  BY <1>1 DEF Smaller
<1>3. /\ st' = [st EXCEPT !.freelist = rest]
      /\ mm' = WriteRows(mm, rows, vecs)
      /\ job' = [pc |-> IF k < n THEN "tail" ELSE "save", vecs |-> vecs, rows |-> rows]
      /\ UNCHANGED <<idx, open, held, orphans>>
      /\ open /\ job.pc = "idle" /\ st.num_rows + n <= MaxRows
  BY DEF AppendFromFreelist
<1>4. st = idx
  BY <1>3 DEF JobSound, JobPoint
<1>5. Distinct(fl)
  BY DEF FreelistSound, IndexSound
<1>6. /\ rest \in Seq(Nat) /\ rows \in Seq(Nat) /\ Len(rows) = k /\ DOMAIN rows = 1..k
      /\ Elems(fl) = Elems(rest) \cup Elems(rows)
      /\ Distinct(rest) /\ Distinct(rows) /\ Elems(rest) \cap Elems(rows) = {}
  BY <1>1, <1>2, <1>5, PopLemma
<1>7. /\ st'.freelist = rest /\ st'.num_rows = st.num_rows
      /\ st'.capacity = st.capacity /\ st'.sha = st.sha /\ st' \in Indexes
  BY <1>1, <1>3, <1>6 DEF Indexes
<1>8. Elems(rows) \subseteq DOMAIN mm
  BY <1>6, AllocatedInFile
<1>9. /\ DOMAIN mm' = DOMAIN mm
      /\ \A i \in 1..k : mm'[rows[i]] = vecs[i]
      /\ \A r \in DOMAIN mm \ Elems(rows) : mm'[r] = mm[r]
  <2>1. \A i \in 1..k : rows[i] \in DOMAIN mm
    BY <1>6, <1>8 DEF Elems
  <2> QED
    BY <1>3, <1>6, <2>1, WriteLemma
<1>10. Elems(rows) \cap Allocated(idx) = {}
  BY <1>4, <1>6 DEF Allocated
<1> HIDE DEF fl, k, rows, rest
<1>11. Allocated(st') = Allocated(idx) \cup Elems(rows)
  <2>1. Elems(rows) \subseteq 0 .. st.num_rows - 1
    BY <1>6 DEF FreelistSound, IndexSound, fl
  <2> QED
    BY <1>4, <1>6, <1>7, <2>1 DEF Allocated, fl
<1>12. Allocated(idx)' = Allocated(idx) /\ Allocated(st)' = Allocated(st')
  BY <1>3 DEF Allocated
<1>13. TypeOK'
  <2>1. \A r \in DOMAIN mm' : mm'[r] \in Vectors \cup {Zero}
    <3> SUFFICES ASSUME NEW r \in DOMAIN mm' PROVE mm'[r] \in Vectors \cup {Zero}
      OBVIOUS
    <3>1. CASE r \in Elems(rows)
      <4>1. PICK i \in 1..k : r = rows[i]
        BY <1>6, <3>1 DEF Elems
      <4> QED
        BY <1>2, <1>9, <4>1
    <3>2. CASE r \notin Elems(rows)
      BY <1>9, <3>2 DEF TypeOK
    <3> QED
      BY <3>1, <3>2
  <2>2. mm' \in [DOMAIN mm' -> Vectors \cup {Zero}]
    BY <1>3, <2>1 DEF WriteRows
  <2>3. vecs \in Seq(Vectors)
    BY <1>1
  <2>4. job' \in [pc : {"idle", "tail", "save", "return", "save_free"},
                  vecs : Seq(Vectors), rows : Seq(Nat)]
    BY <1>3, <1>6, <2>3
  <2> QED
    BY <1>3, <1>7, <1>9, <2>2, <2>4 DEF TypeOK
<1>14. FreelistSound'
  <2>1. IndexSound(idx)'
    BY <1>3, <1>9 DEF FreelistSound, IndexSound, Distinct, Elems
  <2>2. Distinct(st'.freelist) /\ Elems(st'.freelist) \subseteq 0 .. st'.num_rows - 1
    BY <1>6, <1>7 DEF FreelistSound, IndexSound, fl
  <2>3. IndexSound(st)'
    BY <1>7, <1>9, <2>2 DEF FreelistSound, IndexSound, Distinct, Elems
  <2> QED
    BY <2>1, <2>3 DEF FreelistSound
<1>15. HeldDurable'
  BY <1>3, <1>11, <1>12 DEF HeldDurable
<1>16. HeldIntact'
  BY <1>3, <1>9, <1>10 DEF HeldIntact, HeldDurable
<1>17. RowsAccounted'
  <2>1. Unreturned = {} /\ Unreturned' = {}
    BY <1>3 DEF Unreturned
  <2> QED
    BY <1>3, <1>12, <2>1 DEF RowsAccounted
<1>18. JobSound'
  <2>1. job'.rows = rows /\ job'.vecs = vecs /\ job'.pc = IF k < n THEN "tail" ELSE "save"
    BY <1>3
  <2>2. Len(vecs) = n
    BY <1>1
  <2>3. JobRowsSound'
    <3>1. Elems(rows) \cap DOMAIN held = {}
      BY <1>10 DEF HeldDurable
    <3>2. Elems(job.rows)' = Elems(rows) /\ Distinct(job.rows)'
      BY <1>6, <2>1 DEF Elems, Distinct
    <3> QED
      BY <1>3, <1>4, <1>7, <3>1, <3>2 DEF JobRowsSound
  <2>4. FreshRows'
    <3>1. Elems(job.rows)' = Elems(rows)
      BY <2>1 DEF Elems
    <3> QED
      BY <1>10, <1>11, <1>12, <3>1 DEF FreshRows
  <2>5. WrittenRows'
    BY <1>2, <1>6, <1>9, <2>1, <2>2 DEF WrittenRows
  <2>6. JobPoint'
    <3>1. Remaining' = n - k
      BY <1>6, <2>1, <2>2 DEF Remaining
    <3>2. k < n \/ k = n
      BY <1>1, <1>2
    <3> QED
      <4>1. idx' = idx /\ st.num_rows + n <= MaxRows
        BY <1>3
      <4>2. CASE k < n
        <5>1. k \in Nat /\ st'.num_rows \in Nat /\ MaxRows \in Nat
          BY <1>1, <1>2, <1>7, BoundsAssumption
        <5>2. st'.num_rows + Remaining' <= MaxRows
          BY <1>1, <1>7, <3>1, <4>1, <5>1
        <5>3. st'.num_rows = idx'.num_rows
          BY <1>4, <1>7, <4>1
        <5> QED
          BY <1>6, <2>1, <2>2, <4>2, <5>2, <5>3 DEF JobPoint
      <4>3. CASE k = n
        BY <1>6, <2>1, <2>2, <4>3 DEF JobPoint
      <4> QED
        BY <3>2, <4>2, <4>3
  <2> QED
    BY <2>3, <2>4, <2>5, <2>6 DEF JobSound
<1> QED
  BY <1>13, <1>14, <1>15, <1>16, <1>17, <1>18

(* _grow extends the file and zeroes only rows past the old capacity, which  *)
(* nobody owns.                                                              *)
LEMMA GrowStep ==
    ASSUME IInv, _grow
    PROVE  IInv'
<1> DEFINE cap == NewCapacity(st.capacity, Remaining)
<1> USE DEF IInv
<1>1. /\ st \in Indexes /\ st.capacity \in Nat /\ st.num_rows \in Nat
      /\ st.freelist \in Seq(Nat) /\ Remaining \in Nat
  BY DEF TypeOK, Indexes, Remaining, JobSound, WrittenRows, _grow
<1>2. cap \in Nat /\ cap >= st.capacity
  <2>1. cap \in Nat /\ cap >= st.capacity + Remaining
    BY <1>1, GrowLemma
  <2> QED
    BY <1>1, <2>1
<1>3. /\ mm' = [r \in DOMAIN mm \cup (0 .. cap - 1) |->
                 IF r \in st.capacity .. cap - 1 THEN Zero ELSE mm[r]]
      /\ st' = [st EXCEPT !.capacity = cap]
      /\ UNCHANGED <<idx, open, job, held, orphans>>
      /\ job.pc = "tail"
  BY DEF _grow
<1> HIDE DEF cap
<1>4. /\ st'.freelist = st.freelist /\ st'.num_rows = st.num_rows
      /\ st'.capacity = cap /\ st'.sha = st.sha /\ st' \in Indexes
  BY <1>1, <1>2, <1>3 DEF Indexes
<1>5. /\ DOMAIN mm' = DOMAIN mm \cup (0 .. cap - 1)
      /\ \A r \in 0 .. st.capacity - 1 : r \in DOMAIN mm /\ mm'[r] = mm[r]
      /\ 0 .. st.capacity - 1 \subseteq 0 .. cap - 1
  <2>1. 0 .. st.capacity - 1 \subseteq DOMAIN mm
    BY DEF FreelistSound, IndexSound
  <2>2. ASSUME NEW r \in 0 .. st.capacity - 1 PROVE mm'[r] = mm[r]
    BY <1>1, <1>2, <1>3, <2>1
  <2> QED
    BY <1>1, <1>2, <1>3, <2>1, <2>2
<1>6. Allocated(st)' = Allocated(st) /\ Allocated(idx)' = Allocated(idx)
  BY <1>3, <1>4 DEF Allocated
<1>7. Allocated(st) \subseteq 0 .. st.capacity - 1
  BY <1>1 DEF Allocated, FreelistSound, IndexSound
<1>8. TypeOK'
  <2>1. 0 .. cap - 1 \subseteq Nat
    BY <1>2
  <2>2. \A r \in DOMAIN mm' : mm'[r] \in Vectors \cup {Zero}
    <3> SUFFICES ASSUME NEW r \in DOMAIN mm' PROVE mm'[r] \in Vectors \cup {Zero}
      OBVIOUS
    <3>1. CASE r \in st.capacity .. cap - 1
      BY <1>3, <3>1
    <3>2. CASE r \notin st.capacity .. cap - 1
      <4>1. r \in DOMAIN mm
        BY <1>1, <1>2, <1>5, <3>2
      <4> QED
        BY <1>3, <3>2, <4>1 DEF TypeOK
    <3> QED
      BY <3>1, <3>2
  <2>3. mm' \in [DOMAIN mm' -> Vectors \cup {Zero}]
    BY <1>3, <2>2
  <2> QED
    BY <1>3, <1>4, <1>5, <2>1, <2>3 DEF TypeOK
<1>9. FreelistSound'
  <2>1. IndexSound(idx)'
    BY <1>3, <1>5 DEF FreelistSound, IndexSound, Distinct, Elems
  <2>2. st'.num_rows <= st'.capacity
    BY <1>1, <1>2, <1>4 DEF FreelistSound, IndexSound
  <2>3. IndexSound(st)'
    BY <1>4, <1>5, <2>2 DEF FreelistSound, IndexSound, Distinct, Elems
  <2> QED
    BY <2>1, <2>3 DEF FreelistSound
<1>10. HeldDurable'
  BY <1>3, <1>6 DEF HeldDurable
<1>11. HeldIntact'
  <2> SUFFICES ASSUME NEW r \in DOMAIN held
               PROVE  r \in DOMAIN mm' /\ mm'[r] = held[r]
    BY <1>3 DEF HeldIntact
  <2>1. r \in 0 .. st.capacity - 1
    BY <1>7 DEF HeldDurable
  <2> QED
    BY <1>5, <2>1 DEF HeldIntact
<1>12. RowsAccounted'
  BY <1>3, <1>6 DEF RowsAccounted, Unreturned
<1>13. JobSound'
  <2>1. JobRowsSound'
    BY <1>3, <1>4 DEF JobSound, JobRowsSound, Distinct, Elems
  <2>2. FreshRows'
    BY <1>3, <1>6 DEF JobSound, FreshRows, Elems
  <2>3. WrittenRows'
    <3>1. Elems(job.rows) \subseteq 0 .. st.capacity - 1
      BY <1>3, <1>7 DEF JobSound, FreshRows
    <3>2. \A i \in DOMAIN job.rows : job.rows[i] \in 0 .. st.capacity - 1
      BY <3>1 DEF Elems
    <3> QED
      BY <1>3, <1>5, <3>2 DEF JobSound, WrittenRows
  <2>4. JobPoint'
    BY <1>3, <1>4 DEF JobSound, JobPoint, Remaining
  <2> QED
    BY <2>1, <2>2, <2>3, <2>4 DEF JobSound
<1> QED
  BY <1>8, <1>9, <1>10, <1>11, <1>12, <1>13

(* The rows at the tail were never appended before.                          *)
LEMMA AppendAtTailStep ==
    ASSUME IInv, AppendAtTail
    PROVE  IInv'
<1> DEFINE k == Len(job.rows)
           n == Len(job.vecs)
           old == st.num_rows
           rows == [i \in 1..n |-> IF i <= k THEN job.rows[i] ELSE old + i - k - 1]
<1> USE DEF IInv
<1>1. /\ mm' = WriteRows(mm, rows, job.vecs)
      /\ job' = [job EXCEPT !.pc = "save", !.rows = rows]
      /\ st' = [st EXCEPT !.num_rows = old + Remaining]
      /\ UNCHANGED <<idx, open, held, orphans>>
      /\ job.pc = "tail" /\ old + Remaining <= st.capacity
  BY DEF AppendAtTail
<1>2. /\ st \in Indexes /\ st.capacity \in Nat /\ old \in Nat
      /\ st.freelist \in Seq(Nat) /\ job.rows \in Seq(Nat) /\ job.vecs \in Seq(Vectors)
      /\ k \in Nat /\ n \in Nat /\ k < n /\ Remaining = n - k
  BY <1>1 DEF TypeOK, Indexes, Remaining, JobSound, JobPoint
<1>3. /\ old = idx.num_rows /\ old + Remaining <= MaxRows /\ Distinct(job.rows) /\ open
      /\ Elems(job.rows) \cap DOMAIN held = {} /\ st.sha = idx.sha
      /\ Allocated(st) = Allocated(idx) \cup Elems(job.rows)
      /\ Allocated(idx) \cap Elems(job.rows) = {}
  BY <1>1 DEF JobSound, JobPoint, JobRowsSound, FreshRows
<1> HIDE DEF k, n, old
<1>4. /\ rows \in Seq(Nat) /\ Len(rows) = n /\ DOMAIN rows = 1..n
      /\ \A i \in 1..k : rows[i] = job.rows[i] /\ rows[i] \in 0 .. old - 1
      /\ \A i \in k+1 .. n : rows[i] = old + i - k - 1
  <2>1. \A i \in 1..k : job.rows[i] \in Nat /\ job.rows[i] \in Elems(job.rows)
    BY <1>2 DEF Elems, k
  <2>2. rows \in [1..n -> Nat]
    BY <1>2, <2>1
  <2>3. rows \in Seq(Nat) /\ Len(rows) = n /\ DOMAIN rows = 1..n
    BY <1>2, <2>2
  <2>4. Allocated(st) \subseteq 0 .. old - 1
    BY DEF Allocated, old
  <2>5. \A i \in 1..k : i \in 1..n /\ i <= k
    BY <1>2
  <2>6. \A i \in 1..k : rows[i] = job.rows[i] /\ rows[i] \in 0 .. old - 1
    BY <1>3, <2>1, <2>4, <2>5
  <2>7. \A i \in k+1 .. n : rows[i] = old + i - k - 1
    <3> SUFFICES ASSUME NEW i \in k+1 .. n PROVE rows[i] = old + i - k - 1
      OBVIOUS
    <3>1. i \in 1..n /\ ~(i <= k)
      BY <1>2
    <3> QED
      BY <3>1
  <2> QED
    BY <2>3, <2>6, <2>7
<1>5. /\ st'.freelist = st.freelist /\ st'.num_rows = old + (n - k)
      /\ st'.capacity = st.capacity /\ st'.sha = st.sha /\ st' \in Indexes
  <2>1. old + Remaining = old + (n - k) /\ old + (n - k) \in Nat
    BY <1>2
  <2> QED
    BY <1>1, <1>2, <2>1 DEF Indexes
<1>6. job'.pc = "save" /\ job'.rows = rows /\ job'.vecs = job.vecs
  BY <1>1 DEF TypeOK
<1> HIDE DEF rows
<1>7. Distinct(rows)
  <2> SUFFICES ASSUME NEW i \in 1..n, NEW j \in 1..n, i < j
               PROVE  rows[i] # rows[j]
    BY <1>2, <1>4 DEF Distinct
  <2>1. CASE j <= k
    <3>1. i \in 1..k /\ j \in 1..k /\ DOMAIN job.rows = 1..k
      BY <1>2, <2>1 DEF k
    <3> QED
      BY <1>3, <1>4, <3>1 DEF Distinct
  <2>2. CASE k < i
    <3>1. i \in k+1 .. n /\ j \in k+1 .. n
      BY <1>2, <2>2
    <3>2. rows[i] = old + i - k - 1 /\ rows[j] = old + j - k - 1
      BY <1>4, <3>1
    <3> QED
      BY <1>2, <3>2
  <2>3. CASE i <= k /\ k < j
    <3>1. i \in 1..k /\ j \in k+1 .. n
      BY <1>2, <2>3
    <3>2. rows[i] \in 0 .. old - 1 /\ rows[j] = old + j - k - 1
      BY <1>4, <3>1
    <3> QED
      BY <1>2, <2>3, <3>1, <3>2
  <2> QED
    BY <1>2, <2>1, <2>2, <2>3
<1>8. Elems(rows) = Elems(job.rows) \cup (old .. old + (n - k) - 1)
  <2>1. Elems(rows) \subseteq Elems(job.rows) \cup (old .. old + (n - k) - 1)
    <3> SUFFICES ASSUME NEW i \in 1..n
                 PROVE  rows[i] \in Elems(job.rows) \cup (old .. old + (n - k) - 1)
      BY <1>4 DEF Elems
    <3>1. CASE i <= k
      <4>1. i \in 1..k /\ rows[i] = job.rows[i]
        BY <1>2, <1>4, <3>1
      <4>2. i \in DOMAIN job.rows
        BY <1>2, <4>1 DEF k
      <4> QED
        BY <4>1, <4>2 DEF Elems
    <3>2. CASE i > k
      BY <1>2, <1>4, <3>2
    <3> QED
      BY <1>2, <3>1, <3>2
  <2>2. Elems(job.rows) \subseteq Elems(rows)
    <3> SUFFICES ASSUME NEW i \in 1..k PROVE job.rows[i] \in Elems(rows)
      <4>1. DOMAIN job.rows = 1..k
        BY <1>2 DEF k
      <4> QED
        BY <4>1 DEF Elems
    <3>1. i \in DOMAIN rows /\ rows[i] = job.rows[i]
      BY <1>2, <1>4
    <3> QED
      BY <3>1 DEF Elems
  <2>3. ASSUME NEW r \in old .. old + (n - k) - 1 PROVE r \in Elems(rows)
    <3>1. r - old + k + 1 \in k+1 .. n /\ r - old + k + 1 \in 1..n
      BY <1>2
    <3>2. rows[r - old + k + 1] = r
      BY <1>2, <1>4, <3>1
    <3> QED
      BY <1>4, <3>1, <3>2 DEF Elems
  <2> QED
    BY <2>1, <2>2, <2>3
<1>9. Elems(st.freelist) \subseteq 0 .. old - 1 /\ old <= st.capacity
  BY DEF FreelistSound, IndexSound, old
<1>10. Allocated(st)' = Allocated(st) \cup (old .. old + (n - k) - 1)
  <2>1. Allocated(st)' = (0 .. old + (n - k) - 1) \ Elems(st.freelist)
    <3>1. Elems(st'.freelist) = Elems(st.freelist)
      BY <1>5
    <3>2. Allocated(st)' = (0 .. st'.num_rows - 1) \ Elems(st'.freelist)
      BY DEF Allocated, Elems
    <3> QED
      BY <1>2, <1>5, <3>1, <3>2
  <2>2. Allocated(st) = (0 .. old - 1) \ Elems(st.freelist)
    BY DEF Allocated, old
  <2>3. 0 .. old + (n - k) - 1 = (0 .. old - 1) \cup (old .. old + (n - k) - 1)
    BY <1>2
  <2>4. (old .. old + (n - k) - 1) \cap Elems(st.freelist) = {}
    BY <1>2, <1>9
  <2> QED
    BY <2>1, <2>2, <2>3, <2>4
<1>11. Allocated(idx)' = Allocated(idx) /\ Allocated(idx) \cap Elems(rows) = {}
  <2>1. Allocated(idx) \subseteq 0 .. old - 1
    BY <1>3 DEF Allocated
  <2>2. Allocated(idx)' = Allocated(idx)
    BY <1>1 DEF Allocated
  <2> QED
    BY <1>2, <1>3, <1>8, <2>1, <2>2
<1>12. Elems(rows) \subseteq DOMAIN mm
  <2>1. Elems(job.rows) \subseteq DOMAIN mm
    BY <1>3, AllocatedInFile
  <2>2. old .. old + (n - k) - 1 \subseteq 0 .. st.capacity - 1
    BY <1>1, <1>2
  <2> QED
    BY <1>8, <2>1, <2>2 DEF FreelistSound, IndexSound
<1>13. /\ DOMAIN mm' = DOMAIN mm
       /\ \A i \in 1..n : mm'[rows[i]] = job.vecs[i]
       /\ \A r \in DOMAIN mm \ Elems(rows) : mm'[r] = mm[r]
  <2>1. \A i \in 1..n : rows[i] \in DOMAIN mm
    BY <1>4, <1>12 DEF Elems
  <2> QED
    BY <1>1, <1>4, <1>7, <2>1, WriteLemma
<1>14. TypeOK'
  <2>1. ASSUME NEW r \in DOMAIN mm' PROVE mm'[r] \in Vectors \cup {Zero}
    <3>1. CASE r \in Elems(rows)
      <4>1. PICK i \in 1..n : r = rows[i]
        BY <1>4, <3>1 DEF Elems
      <4>2. job.vecs[i] \in Vectors
        BY <1>2 DEF n
      <4> QED
        BY <1>13, <4>1, <4>2
    <3>2. CASE r \notin Elems(rows)
      BY <1>13, <3>2 DEF TypeOK
    <3> QED
      BY <3>1, <3>2
  <2>2. mm' \in [DOMAIN mm' -> Vectors \cup {Zero}]
    BY <1>1, <2>1 DEF WriteRows
  <2>3. job' \in [pc : {"idle", "tail", "save", "return", "save_free"},
                  vecs : Seq(Vectors), rows : Seq(Nat)]
    BY <1>1, <1>4 DEF TypeOK
  <2> QED
    BY <1>1, <1>5, <1>13, <2>2, <2>3 DEF TypeOK
<1>15. FreelistSound'
  <2>1. IndexSound(idx)'
    BY <1>1, <1>13 DEF FreelistSound, IndexSound, Distinct, Elems
  <2>2. st'.num_rows <= st'.capacity /\ st'.num_rows <= MaxRows
    BY <1>1, <1>2, <1>3, <1>5
  <2>3. Elems(st'.freelist) \subseteq 0 .. st'.num_rows - 1 /\ Distinct(st'.freelist)
    <3>1. 0 .. old - 1 \subseteq 0 .. st'.num_rows - 1
      BY <1>2, <1>5
    <3> QED
      BY <1>5, <1>9, <3>1 DEF FreelistSound, IndexSound
  <2>4. IndexSound(st)'
    BY <1>5, <1>13, <2>2, <2>3 DEF FreelistSound, IndexSound, Distinct, Elems
  <2> QED
    BY <2>1, <2>4 DEF FreelistSound
<1>16. HeldDurable'
  BY <1>1, <1>10, <1>11 DEF HeldDurable
<1>17. HeldIntact'
  BY <1>1, <1>11, <1>13 DEF HeldDurable, HeldIntact
<1>18. RowsAccounted'
  <2>1. Unreturned = {} /\ Unreturned' = {}
    BY <1>1, <1>6 DEF Unreturned
  <2> QED
    BY <1>1, <1>11, <2>1 DEF RowsAccounted
<1>19. JobSound'
  <2>1. Elems(job.rows)' = Elems(rows) /\ Distinct(job.rows)'
    BY <1>6, <1>7 DEF Elems, Distinct
  <2>2. JobRowsSound'
    BY <1>1, <1>3, <1>5, <1>11, <2>1 DEF JobRowsSound, HeldDurable
  <2>3. FreshRows'
    BY <1>3, <1>8, <1>10, <1>11, <2>1 DEF FreshRows
  <2>4. WrittenRows'
    BY <1>2, <1>4, <1>6, <1>13 DEF WrittenRows, n
  <2>5. JobPoint'
    BY <1>4, <1>6 DEF JobPoint, n
  <2> QED
    BY <2>2, <2>3, <2>4, <2>5 DEF JobSound
<1> QED
  BY <1>14, <1>15, <1>16, <1>17, <1>18, <1>19

(* Saving the sidecar makes the job's rows durable, or its freed row free.   *)
LEMMA SaveIndexStep ==
    ASSUME IInv, _save_index
    PROVE  IInv'
<1> USE DEF IInv
<1>1. /\ job.pc \in {"save", "save_free"} /\ idx' = st
      /\ job' = IF job.pc = "save" THEN [job EXCEPT !.pc = "return"] ELSE NoJob
      /\ UNCHANGED <<mm, st, open, held, orphans>>
  BY DEF _save_index
<1>2. job.rows \in Seq(Nat) /\ job.vecs \in Seq(Vectors)
  BY DEF TypeOK
<1>3. /\ job.pc = "save" => job'.pc = "return" /\ job'.rows = job.rows /\ job'.vecs = job.vecs
      /\ job.pc = "save_free" => job' = NoJob
  BY <1>1 DEF TypeOK
<1>4. Allocated(idx)' = Allocated(st) /\ Allocated(st)' = Allocated(st)
  BY <1>1 DEF Allocated
<1>5. TypeOK'
  <2>1. job' \in [pc : {"idle", "tail", "save", "return", "save_free"},
                  vecs : Seq(Vectors), rows : Seq(Nat)]
    BY <1>1 DEF TypeOK, NoJob
  <2> QED
    BY <1>1, <2>1 DEF TypeOK
<1>6. FreelistSound'
  BY <1>1 DEF FreelistSound, IndexSound, Distinct, Elems
<1>7. HeldDurable' /\ HeldIntact'
  BY <1>1, <1>4 DEF HeldDurable, HeldIntact
<1>8. RowsAccounted' /\ JobSound'
  <2>1. CASE job.pc = "save"
    <3>1. Unreturned = {} /\ Unreturned' = Elems(job.rows)
      BY <1>3, <2>1 DEF Unreturned, Elems
    <3>2. Elems(job.rows)' = Elems(job.rows) /\ Distinct(job.rows)'
      BY <1>3, <2>1 DEF Elems, Distinct, JobSound, JobRowsSound
    <3>3. /\ Allocated(st) = Allocated(idx) \cup Elems(job.rows)
          /\ Allocated(idx) \cap Elems(job.rows) = {}
      BY <2>1 DEF JobSound, FreshRows
    <3>4. RowsAccounted'
      BY <1>1, <1>4, <3>1, <3>3 DEF RowsAccounted
    <3>5. JobRowsSound'
      BY <1>1, <2>1, <3>2 DEF JobSound, JobRowsSound
    <3>6. FreshRows' /\ WrittenRows' /\ JobPoint'
      BY <1>1, <1>3, <2>1 DEF JobSound, FreshRows, WrittenRows, JobPoint
    <3> QED
      BY <3>4, <3>5, <3>6 DEF JobSound
  <2>2. CASE job.pc = "save_free"
    <3>1. Unreturned = Elems(job.rows) /\ Unreturned' = {}
      BY <1>3, <2>2 DEF Unreturned, NoJob
    <3>2. Allocated(st) = Allocated(idx) \ Elems(job.rows)
      BY <2>2 DEF JobSound, JobPoint
    <3>3. RowsAccounted'
      BY <1>1, <1>4, <3>1, <3>2 DEF RowsAccounted
    <3>4. JobSound'
      BY <1>1, <1>3, <2>2
         DEF JobSound, JobRowsSound, FreshRows, WrittenRows, JobPoint, NoJob
    <3> QED
      BY <3>3, <3>4
  <2> QED
    BY <1>1, <2>1, <2>2
<1> QED
  BY <1>5, <1>6, <1>7, <1>8

(* The rows of a returning append, and the embeddings their caller gets.     *)
LEMMA ReturnedRows ==
    ASSUME IInv, AppendReturn
    PROVE  /\ DOMAIN held' = DOMAIN held \cup Elems(job.rows)
           /\ DOMAIN held \cap Elems(job.rows) = {}
           /\ Elems(job.rows) \subseteq Allocated(idx)
           /\ \A r \in DOMAIN held : held'[r] = held[r]
           /\ \A r \in Elems(job.rows) : held'[r] = mm[r] /\ held'[r] \in Vectors
<1> USE DEF IInv
<1>1. /\ job.pc = "return"
      /\ held' = [r \in DOMAIN held \cup Elems(job.rows) |->
                    IF r \in Elems(job.rows)
                    THEN job.vecs[CHOOSE i \in DOMAIN job.rows : job.rows[i] = r]
                    ELSE held[r]]
  BY DEF AppendReturn
<1>2. /\ Distinct(job.rows) /\ DOMAIN held \cap Elems(job.rows) = {}
      /\ Len(job.rows) = Len(job.vecs)
      /\ \A i \in DOMAIN job.rows : mm[job.rows[i]] = job.vecs[i]
  BY <1>1 DEF JobSound, JobRowsSound, WrittenRows, JobPoint
<1>3. Elems(job.rows) \subseteq Allocated(idx)
  BY <1>1 DEF RowsAccounted, Unreturned
<1>4. ASSUME NEW r \in Elems(job.rows)
      PROVE  held'[r] = mm[r] /\ held'[r] \in Vectors
  <2>1. PICK i \in DOMAIN job.rows : job.rows[i] = r
    BY <1>4 DEF Elems
  <2>2. (CHOOSE j \in DOMAIN job.rows : job.rows[j] = r) = i
    BY <1>2, <2>1 DEF Distinct
  <2>3. held'[r] = job.vecs[i]
    BY <1>1, <1>4, <2>2
  <2>4. job.vecs[i] \in Vectors
    <3>1. job.rows \in Seq(Nat) /\ job.vecs \in Seq(Vectors)
      BY DEF TypeOK
    <3> QED
      BY <1>2, <3>1
  <2> QED
    BY <1>2, <2>1, <2>3, <2>4
<1> QED
  BY <1>1, <1>2, <1>3, <1>4

(* append_batch returns rows that nobody owned.                              *)
LEMMA AppendReturnStep ==
    ASSUME IInv, AppendReturn
    PROVE  IInv'
<1> USE DEF IInv
<1>1. job.pc = "return" /\ job' = NoJob /\ UNCHANGED <<mm, idx, st, open, orphans>>
  BY DEF AppendReturn
<1>2. /\ DOMAIN held' = DOMAIN held \cup Elems(job.rows)
      /\ DOMAIN held \cap Elems(job.rows) = {}
      /\ Elems(job.rows) \subseteq Allocated(idx)
      /\ \A r \in DOMAIN held : held'[r] = held[r]
      /\ \A r \in Elems(job.rows) : held'[r] = mm[r] /\ held'[r] \in Vectors
  BY ReturnedRows
<1>3. st = idx
  BY <1>1 DEF JobSound, JobPoint
<1>4. Allocated(idx)' = Allocated(idx) /\ Allocated(st)' = Allocated(idx)
  BY <1>1, <1>3 DEF Allocated
<1>5. TypeOK'
  <2>1. \A r \in DOMAIN held' : held'[r] \in Vectors
    BY <1>2 DEF TypeOK
  <2>2. held' \in [DOMAIN held' -> Vectors]
    BY <2>1 DEF AppendReturn
  <2>3. Elems(job.rows) \subseteq Nat
    BY <1>2 DEF Allocated, TypeOK, Indexes
  <2>4. job' \in [pc : {"idle", "tail", "save", "return", "save_free"},
                  vecs : Seq(Vectors), rows : Seq(Nat)]
    BY <1>1 DEF NoJob
  <2> QED
    BY <1>1, <1>2, <2>2, <2>3, <2>4 DEF TypeOK
<1>6. FreelistSound'
  BY <1>1 DEF FreelistSound, IndexSound, Distinct, Elems
<1>7. HeldDurable'
  BY <1>2, <1>3, <1>4 DEF HeldDurable
<1>8. HeldIntact'
  BY <1>1, <1>2, AllocatedInFile DEF HeldIntact
<1>9. RowsAccounted'
  <2>1. Unreturned = Elems(job.rows) /\ Unreturned' = {}
    BY <1>1 DEF Unreturned, NoJob
  <2> QED
    BY <1>1, <1>2, <1>4, <2>1 DEF RowsAccounted
<1>10. JobSound'
  BY <1>1, <1>3 DEF JobSound, JobRowsSound, FreshRows, WrittenRows, JobPoint, NoJob
<1> QED
  BY <1>5, <1>6, <1>7, <1>8, <1>9, <1>10

(* free_row takes a row away from its owner before the row can be recycled.  *)
LEMMA FreeRowStep ==
    ASSUME IInv, NEW row, free_row(row)
    PROVE  IInv'
<1> USE DEF IInv
<1>1. /\ open /\ job.pc = "idle" /\ row \in 0 .. st.num_rows - 1
      /\ row \notin Elems(st.freelist)
      /\ mm' = [mm EXCEPT ![row] = Zero]
      /\ st' = [st EXCEPT !.freelist = Append(st.freelist, row)]
      /\ held' = [r \in DOMAIN held \ {row} |-> held[r]]
      /\ orphans' = orphans \ {row}
      /\ job' = [pc |-> "save_free", vecs |-> <<>>, rows |-> <<row>>]
      /\ UNCHANGED <<idx, open>>
  BY DEF free_row
<1>2. st \in Indexes /\ st.num_rows \in Nat /\ st.freelist \in Seq(Nat) /\ row \in Nat
  BY <1>1 DEF TypeOK, Indexes
<1>3. st = idx
  BY <1>1 DEF JobSound, JobPoint
<1>4. /\ Append(st.freelist, row) \in Seq(Nat)
      /\ Elems(Append(st.freelist, row)) = Elems(st.freelist) \cup {row}
      /\ Distinct(Append(st.freelist, row))
  BY <1>1, <1>2, PushLemma DEF FreelistSound, IndexSound
<1>5. /\ st'.freelist = Append(st.freelist, row) /\ st'.num_rows = st.num_rows
      /\ st'.capacity = st.capacity /\ st'.sha = st.sha /\ st' \in Indexes
  BY <1>1, <1>2, <1>4 DEF Indexes
<1>6. row \in Allocated(idx) /\ row \in DOMAIN mm
  BY <1>1, <1>3, AllocatedInFile DEF Allocated
<1>7. /\ Allocated(idx)' = Allocated(idx)
      /\ Allocated(st)' = Allocated(idx) \ {row}
  <2>1. Allocated(st') = Allocated(idx) \ {row}
    BY <1>3, <1>4, <1>5 DEF Allocated
  <2> QED
    BY <1>1, <2>1 DEF Allocated, Elems
<1>8. Elems(job.rows)' = {row} /\ Distinct(job.rows)'
  BY <1>1 DEF Elems, Distinct
<1>9. DOMAIN held' = DOMAIN held \ {row} /\ \A r \in DOMAIN held' : held'[r] = held[r]
  BY <1>1
<1>10. DOMAIN mm' = DOMAIN mm /\ \A r \in DOMAIN mm \ {row} : mm'[r] = mm[r]
  BY <1>1
<1>11. TypeOK'
  <2>1. mm' \in [DOMAIN mm -> Vectors \cup {Zero}]
    BY <1>1 DEF TypeOK
  <2>2. held' \in [DOMAIN held \ {row} -> Vectors]
    BY <1>1 DEF TypeOK
  <2>3. job' \in [pc : {"idle", "tail", "save", "return", "save_free"},
                  vecs : Seq(Vectors), rows : Seq(Nat)]
    BY <1>1, <1>2
  <2> QED
    BY <1>1, <1>5, <1>9, <1>10, <2>1, <2>2, <2>3 DEF TypeOK
<1>12. FreelistSound'
  <2>1. IndexSound(idx)'
    BY <1>1, <1>10 DEF FreelistSound, IndexSound, Distinct, Elems
  <2>2. Distinct(st'.freelist) /\ Elems(st'.freelist) \subseteq 0 .. st'.num_rows - 1
    BY <1>1, <1>4, <1>5 DEF FreelistSound, IndexSound
  <2>3. IndexSound(st)'
    BY <1>5, <1>10, <2>2 DEF FreelistSound, IndexSound, Distinct, Elems
  <2> QED
    BY <2>1, <2>3 DEF FreelistSound
<1>13. HeldDurable'
  BY <1>7, <1>9 DEF HeldDurable
<1>14. HeldIntact'
  BY <1>9, <1>10 DEF HeldIntact
<1>15. RowsAccounted'
  <2>1. Unreturned = {} /\ Unreturned' = {row}
    BY <1>1, <1>8 DEF Unreturned
  <2> QED
    BY <1>1, <1>6, <1>7, <1>9, <2>1 DEF RowsAccounted
<1>16. JobSound'
  <2>1. job'.pc = "save_free"
    BY <1>1
  <2>2. JobRowsSound'
    BY <1>1, <1>3, <1>5, <1>8, <1>9 DEF JobRowsSound
  <2>3. FreshRows' /\ WrittenRows' /\ JobPoint'
    BY <1>7, <1>8, <2>1 DEF FreshRows, WrittenRows, JobPoint
  <2> QED
    BY <2>2, <2>3 DEF JobSound
<1> QED
  BY <1>11, <1>12, <1>13, <1>14, <1>15, <1>16

(* A clean shutdown finds memory and sidecar equal.                          *)
LEMMA CloseStep ==
    ASSUME IInv, close
    PROVE  IInv'
<1> USE DEF IInv
<1>1. job.pc = "idle" /\ idx' = st /\ open' = FALSE /\ UNCHANGED <<mm, st, job, held, orphans>>
  BY DEF close
<1>2. st = idx
  BY <1>1 DEF JobSound, JobPoint
<1>3. TypeOK' /\ FreelistSound' /\ HeldDurable' /\ HeldIntact' /\ RowsAccounted'
  <2>1. TypeOK'
    BY <1>1, <1>2 DEF TypeOK
  <2>2. FreelistSound'
    BY <1>1, <1>2 DEF FreelistSound, IndexSound, Distinct, Elems
  <2>3. Allocated(st)' = Allocated(idx) /\ Allocated(idx)' = Allocated(idx)
    BY <1>1, <1>2 DEF Allocated
  <2>4. HeldDurable' /\ HeldIntact' /\ RowsAccounted'
    BY <1>1, <2>3 DEF HeldDurable, HeldIntact, RowsAccounted, Unreturned
  <2> QED
    BY <2>1, <2>2, <2>4
<1>4. JobSound'
  BY <1>1, <1>2 DEF JobSound, JobRowsSound, FreshRows, WrittenRows, JobPoint
<1> QED
  BY <1>3, <1>4

(* A crash at any point of an operation falls back on a sound sidecar.       *)
LEMMA CrashStep ==
    ASSUME IInv, Crash
    PROVE  IInv'
<1> USE DEF IInv
<1>1. /\ open' = FALSE /\ job' = NoJob /\ orphans' = orphans \cup Unreturned
      /\ st' = idx /\ UNCHANGED <<mm, idx, held>>
  BY DEF Crash
<1>2. Allocated(st)' = Allocated(idx) /\ Allocated(idx)' = Allocated(idx)
  BY <1>1 DEF Allocated
<1>3. TypeOK'
  <2>1. Unreturned \subseteq Nat
    BY DEF TypeOK, Unreturned, Elems
  <2>2. job' \in [pc : {"idle", "tail", "save", "return", "save_free"},
                  vecs : Seq(Vectors), rows : Seq(Nat)]
    BY <1>1 DEF NoJob
  <2> QED
    BY <1>1, <2>1, <2>2 DEF TypeOK
<1>4. FreelistSound'
  BY <1>1 DEF FreelistSound, IndexSound, Distinct, Elems
<1>5. HeldDurable' /\ HeldIntact'
  BY <1>1, <1>2 DEF HeldDurable, HeldIntact
<1>6. RowsAccounted'
  <2>1. Unreturned' = {}
    BY <1>1 DEF Unreturned, NoJob
  <2> QED
    BY <1>1, <1>2, <2>1 DEF RowsAccounted
<1>7. JobSound'
  BY <1>1 DEF JobSound, JobRowsSound, FreshRows, WrittenRows, JobPoint, NoJob
<1> QED
  BY <1>3, <1>4, <1>5, <1>6, <1>7

(* A restart reads back the sidecar, whichever model digest it records.      *)
LEMMA OpenStep ==
    ASSUME IInv, NEW sha \in Shas, _open_existing(sha)
    PROVE  IInv'
<1> USE DEF IInv
<1>1. /\ ~open /\ open' = TRUE /\ st' = [idx EXCEPT !.sha = sha] /\ idx' = st'
      /\ UNCHANGED <<mm, job, held, orphans>>
  BY DEF _open_existing
<1>2. job.pc = "idle"
  BY <1>1 DEF JobSound, JobRowsSound
<1>3. /\ st'.freelist = idx.freelist /\ st'.num_rows = idx.num_rows
      /\ st'.capacity = idx.capacity /\ st' \in Indexes
  BY <1>1 DEF TypeOK, Indexes
<1>4. Allocated(st)' = Allocated(idx) /\ Allocated(idx)' = Allocated(idx)
  BY <1>1, <1>3 DEF Allocated
<1>5. TypeOK'
  BY <1>1, <1>3 DEF TypeOK
<1>6. FreelistSound'
  BY <1>1, <1>3 DEF FreelistSound, IndexSound, Distinct, Elems
<1>7. HeldDurable' /\ HeldIntact' /\ RowsAccounted'
  BY <1>1, <1>4 DEF HeldDurable, HeldIntact, RowsAccounted, Unreturned
<1>8. JobSound'
  <2>1. job = NoJob /\ st' = idx' /\ job' = job
    BY <1>1, <1>2 DEF JobSound, JobPoint
  <2> QED
    BY <2>1 DEF JobSound, JobRowsSound, FreshRows, WrittenRows, JobPoint, NoJob
<1> QED
  BY <1>5, <1>6, <1>7, <1>8

(* Every step of the store preserves the inductive invariant.                *)
LEMMA NextIInv == IInv /\ [Next]_vars => IInv'
<1> SUFFICES ASSUME IInv, [Next]_vars PROVE IInv'
  OBVIOUS
<1>1. CASE append_batch
  <2>0. PICK n \in 1..MaxBatch : \E ts \in [1..n -> Texts] :
           AppendFromFreelist(n, [i \in 1..n |-> Embedding(ts[i])])
    BY <1>1 DEF append_batch
  <2>1. PICK ts \in [1..n -> Texts] :
           AppendFromFreelist(n, [i \in 1..n |-> Embedding(ts[i])])
    BY <2>0
  <2>2. [i \in 1..n |-> Embedding(ts[i])] \in [1..n -> Vectors]
    BY DEF Embedding, Vectors, IInv, TypeOK, Indexes
  <2> QED
    BY <2>1, <2>2, AppendFromFreelistStep
<1>2. CASE _grow
  BY <1>2, GrowStep
<1>3. CASE AppendAtTail
  BY <1>3, AppendAtTailStep
<1>4. CASE _save_index
  BY <1>4, SaveIndexStep
<1>5. CASE AppendReturn
  BY <1>5, AppendReturnStep
<1>6. CASE \E row \in 0 .. MaxRows - 1 : free_row(row)
  BY <1>6, FreeRowStep
<1>7. CASE close
  BY <1>7, CloseStep
<1>8. CASE Crash
  BY <1>8, CrashStep
<1>9. CASE \E sha \in Shas : _open_existing(sha)
  BY <1>9, OpenStep
<1>10. CASE UNCHANGED vars
  <2> USE <1>10 DEF vars, IInv
  <2>1. TypeOK'
    BY DEF TypeOK
  <2>2. FreelistSound'
    BY DEF FreelistSound, IndexSound, Distinct, Elems
  <2>3. Allocated(st)' = Allocated(st) /\ Allocated(idx)' = Allocated(idx)
    BY DEF Allocated
  <2>4. HeldDurable' /\ HeldIntact' /\ RowsAccounted'
    BY <2>3 DEF HeldDurable, HeldIntact, RowsAccounted, Unreturned
  <2>5. JobRowsSound' /\ FreshRows'
    BY <2>3 DEF JobSound, JobRowsSound, FreshRows, Distinct, Elems
  <2>6. WrittenRows' /\ JobPoint'
    BY <2>3 DEF JobSound, WrittenRows, JobPoint, Remaining, NoJob, Elems
  <2> QED
    BY <2>1, <2>2, <2>4, <2>5, <2>6 DEF JobSound
<1> QED
  BY <1>1, <1>2, <1>3, <1>4, <1>5, <1>6, <1>7, <1>8, <1>9, <1>10 DEF Next, Step

-----------------------------------------------------------------------------
(* The inductive invariant holds in every reachable state.                   *)
THEOREM InductiveInvariant == Spec => []IInv
<1> QED
  BY InitIInv, NextIInv, PTL DEF Spec

(* The types of the variables, in every reachable state.                     *)
THEOREM TypeCorrect == Spec => []TypeOK
<1>1. IInv => TypeOK
  BY DEF IInv
<1> QED
  BY InductiveInvariant, <1>1, PTL

(* The freelist never holds a row twice nor a row outside the file, whatever *)
(* the interleaving of appends, frees, crashes and restarts.                 *)
THEOREM FreelistIsSound == Spec => []FreelistSound
<1>1. IInv => FreelistSound
  BY DEF IInv
<1> QED
  BY InductiveInvariant, <1>1, PTL

(* A row a caller owns survives every crash and is never handed out again.   *)
THEOREM OwnedRowsAreDurable == Spec => []HeldDurable
<1>1. IInv => HeldDurable
  BY DEF IInv
<1> QED
  BY InductiveInvariant, <1>1, PTL

(* A row a caller owns keeps its embedding.                                  *)
THEOREM OwnedRowsAreIntact == Spec => []HeldIntact
<1>1. IInv => HeldIntact
  BY DEF IInv
<1> QED
  BY InductiveInvariant, <1>1, PTL

(* No row leaks but those a crash takes from its caller.                     *)
THEOREM NoRowLeaks == Spec => []RowsAccounted
<1>1. IInv => RowsAccounted
  BY DEF IInv
<1> QED
  BY InductiveInvariant, <1>1, PTL

(* Growth, recycling, sidecar saves, crashes and restarts are invisible: all *)
(* a caller sees is an allocator of distinct rows.                           *)
THEOREM ImplementsAllocator == Spec => AllocatorSpec
<1>1. Init => Allocator!Init
  BY DEF Init, Allocator!Init
<1>2. IInv /\ [Next]_vars => [Allocator!Next]_held
  <2> SUFFICES ASSUME IInv, [Next]_vars, held' # held PROVE Allocator!Next
    OBVIOUS
  <2>1. AppendReturn \/ \E row \in 0 .. MaxRows - 1 : free_row(row)
    BY DEF Next, Step, vars, append_batch, AppendFromFreelist, _grow, AppendAtTail,
           _save_index, close, Crash, _open_existing
  <2>2. CASE AppendReturn
    <3> DEFINE new == Elems(job.rows)
               vecs == [r \in new |-> held'[r]]
    <3>1. /\ DOMAIN held' = DOMAIN held \cup new /\ DOMAIN held \cap new = {}
          /\ new \subseteq Allocated(idx)
          /\ \A r \in DOMAIN held : held'[r] = held[r]
          /\ \A r \in new : held'[r] \in Vectors
      BY <2>2, ReturnedRows
    <3>2. new \in SUBSET ((0 .. MaxRows - 1) \ DOMAIN held)
      <4>1. idx.num_rows \in Nat /\ idx.num_rows <= MaxRows
        BY DEF IInv, TypeOK, Indexes, FreelistSound, IndexSound
      <4>2. Allocated(idx) \subseteq 0 .. MaxRows - 1
        BY <4>1, BoundsAssumption DEF Allocated
      <4> QED
        BY <3>1, <4>2
    <3>3. vecs \in [new -> Vectors]
      BY <3>1
    <3>4. held' = [r \in DOMAIN held \cup new |-> IF r \in new THEN vecs[r] ELSE held[r]]
      <4>1. held' = [r \in DOMAIN held' |-> held'[r]]
        BY <2>2 DEF AppendReturn
      <4> QED
        BY <3>1, <4>1
    <3> QED
      BY <3>2, <3>3, <3>4 DEF Allocator!Next, Allocator!Alloc
  <2>3. CASE \E row \in 0 .. MaxRows - 1 : free_row(row)
    <3>1. PICK row : held' = [r \in DOMAIN held \ {row} |-> held[r]]
      BY <2>3 DEF free_row
    <3>2. row \in DOMAIN held
      <4>1. SUFFICES ASSUME row \notin DOMAIN held PROVE FALSE
        OBVIOUS
      <4>2. held = [r \in DOMAIN held |-> held[r]]
        BY DEF IInv, TypeOK
      <4> QED
        BY <3>1, <4>1, <4>2
    <3> QED
      BY <3>1, <3>2 DEF Allocator!Next, Allocator!Free
  <2> QED
    BY <2>1, <2>2, <2>3
<1> QED
  BY <1>1, <1>2, InductiveInvariant, PTL DEF Spec, AllocatorSpec, Allocator!Spec

-----------------------------------------------------------------------------
(* ModelIdentity, strengthened by the embeddings an append is still writing. *)
JobModel == \A i \in DOMAIN job.vecs : job.vecs[i].sha = st.sha

ModelInv == OnMismatch = "raise" => ModelIdentity /\ JobModel

(* A store that refuses a different model digest holds embeddings of one     *)
(* model only, across restarts with any model.                               *)
THEOREM OneModel == Spec => []ModelIdentity
<1>1. Init => ModelInv
  BY DEF Init, ModelInv, ModelIdentity, JobModel, NoJob
<1>2. IInv /\ ModelInv /\ [Next]_vars => ModelInv'
  <2> SUFFICES ASSUME IInv, ModelInv, [Next]_vars, OnMismatch = "raise"
               PROVE  ModelIdentity' /\ JobModel'
    BY DEF ModelInv
  <2>0. ModelIdentity /\ JobModel /\ \A r \in DOMAIN held : held[r].sha = st.sha
    BY DEF ModelInv, ModelIdentity
  <2>1. st.sha = idx.sha
    BY DEF IInv, JobSound, JobRowsSound, JobPoint
  <2>2. CASE append_batch
    <3>1. PICK n \in 1..MaxBatch : \E ts \in [1..n -> Texts] :
             AppendFromFreelist(n, [i \in 1..n |-> Embedding(ts[i])])
      BY <2>2 DEF append_batch
    <3>2. PICK ts \in [1..n -> Texts] :
             AppendFromFreelist(n, [i \in 1..n |-> Embedding(ts[i])])
      BY <3>1
    <3>3. /\ job'.vecs = [i \in 1..n |-> Embedding(ts[i])]
          /\ st'.sha = st.sha /\ held' = held
      BY <3>2 DEF AppendFromFreelist, IInv, TypeOK, Indexes
    <3> QED
      BY <2>0, <3>3 DEF ModelIdentity, JobModel, Embedding
  <2>3. CASE _grow \/ AppendAtTail
    <3>1. job'.vecs = job.vecs /\ st'.sha = st.sha /\ held' = held
      BY <2>3 DEF _grow, AppendAtTail, IInv, TypeOK, Indexes
    <3> QED
      BY <2>0, <3>1 DEF ModelIdentity, JobModel
  <2>4. CASE _save_index
    <3>1. (job'.vecs = job.vecs \/ job'.vecs = <<>>) /\ st' = st /\ held' = held
      BY <2>4 DEF _save_index, IInv, TypeOK, NoJob
    <3> QED
      BY <2>0, <3>1 DEF ModelIdentity, JobModel
  <2>5. CASE AppendReturn
    <3>1. /\ job' = NoJob /\ st' = st
          /\ DOMAIN held' = DOMAIN held \cup Elems(job.rows)
          /\ \A r \in DOMAIN held : held'[r] = held[r]
          /\ \A r \in Elems(job.rows) : held'[r] = mm[r]
      BY <2>5, ReturnedRows DEF AppendReturn
    <3>2. \A i \in DOMAIN job.rows : mm[job.rows[i]] = job.vecs[i] /\ i \in DOMAIN job.vecs
      BY <2>5 DEF AppendReturn, IInv, TypeOK, JobSound, JobPoint, WrittenRows
    <3>3. \A r \in Elems(job.rows) : mm[r].sha = st.sha
      BY <2>0, <3>2 DEF Elems, JobModel
    <3> QED
      BY <2>0, <3>1, <3>3 DEF ModelIdentity, JobModel, NoJob
  <2>6. CASE \E row \in 0 .. MaxRows - 1 : free_row(row)
    <3>1. PICK row \in 0 .. MaxRows - 1 : free_row(row)
      BY <2>6
    <3>2. /\ job'.vecs = <<>> /\ st'.sha = st.sha
          /\ held' = [r \in DOMAIN held \ {row} |-> held[r]]
      BY <3>1 DEF free_row, IInv, TypeOK, Indexes
    <3> QED
      BY <2>0, <3>2 DEF ModelIdentity, JobModel
  <2>7. CASE close
    BY <2>0, <2>7 DEF close, ModelIdentity, JobModel
  <2>8. CASE Crash
    BY <2>0, <2>1, <2>8 DEF Crash, ModelIdentity, JobModel, NoJob
  <2>9. CASE \E sha \in Shas : _open_existing(sha)
    <3>1. PICK sha \in Shas : _open_existing(sha)
      BY <2>9
    <3>2. st'.sha = st.sha /\ job' = job /\ held' = held
      BY <2>1, <3>1, OnMismatchAssumption DEF _open_existing, IInv, TypeOK, Indexes
    <3> QED
      BY <2>0, <3>2 DEF ModelIdentity, JobModel
  <2>10. CASE UNCHANGED vars
    BY <2>0, <2>10 DEF vars, ModelIdentity, JobModel
  <2> QED
    BY <2>2, <2>3, <2>4, <2>5, <2>6, <2>7, <2>8, <2>9, <2>10 DEF Next, Step
<1>3. ModelInv => ModelIdentity
  BY DEF ModelInv, ModelIdentity
<1> QED
  BY <1>1, <1>2, <1>3, InductiveInvariant, PTL DEF Spec
=============================================================================
