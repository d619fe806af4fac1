-------------------------- MODULE AlgorithmProofs --------------------------
(***************************************************************************)
(* Proofs about the functions that Algorithms calls, for every input its     *)
(* constants may give, and about the batches that the watcher folds.         *)
(***************************************************************************)
EXTENDS Algorithms, Batches, SetLemmas

(* Every call has been made, or none: it is NoCall or in one of the sets. *)
Calls ==
    Searches \cup Routes \cup Texts \cup Retrievals \cup Splices \cup Walks \cup Evictions
    \cup Configurations \cup PackScans

LEMMA CallsMade == AlgSpec => [](call \in Calls \cup {NoCall})
<1>1. AlgInit => call \in Calls \cup {NoCall}
  BY DEF AlgInit
<1>2. call \in Calls \cup {NoCall} /\ [AlgNext]_call => (call \in Calls \cup {NoCall})'
  BY DEF AlgNext, Make, Search, Route, ChunkText, Retrieve, Splice, ListFiles, Discard, Configure,
    ScanPacks, Calls
<1> QED
  BY <1>1, <1>2, PTL DEF AlgSpec

-----------------------------------------------------------------------------
(* Batches of events *)

Reported == [type : {"CREATE", "MODIFY", "DELETE"}, path : Paths, old : {NoPath}]

(* What a path's events tell of it: nothing happened to one that has none;   *)
(* the last one says whether the file is there; and one that was there       *)
(* before the batch is created only after it was deleted.                    *)
EventsTell ==
    /\ before \subseteq Paths /\ present \subseteq Paths /\ events \in Seq(Reported)
    /\ \A p \in Paths \ PathsIn(events) : p \in before <=> p \in present
    /\ \A i \in DOMAIN events : (\A j \in DOMAIN events : i < j => events[j].path # events[i].path) =>
         (events[i].path \in present <=> events[i].type # "DELETE")
    /\ \A i \in DOMAIN events : (events[i].type = "CREATE" /\ events[i].path \in before) =>
         \E j \in DOMAIN events : j < i /\ events[j].path = events[i].path /\ events[j].type = "DELETE"

(* A path with events has a last one, which LastEvent finds. *)
LEMMA LastEventIs ==
    ASSUME events \in Seq(Reported), NEW p \in PathsIn(events)
    PROVE  \E i \in DOMAIN events :
             /\ events[i].path = p /\ LastEvent(events, p) = events[i]
             /\ \A j \in DOMAIN events : i < j => events[j].path # p
<1> DEFINE at == {i \in DOMAIN events : events[i].path = p}
           l == CHOOSE i \in at : \A j \in at : j <= i
<1>1. Len(events) \in Nat /\ DOMAIN events = 1 .. Len(events)
  OBVIOUS
<1>2. at \in SUBSET (1 .. Len(events)) /\ at # {}
  BY <1>1 DEF PathsIn
<1>3. \E i \in at : \A j \in at : j <= i
  BY <1>1, <1>2, LastOf
<1>4. l \in at /\ \A j \in at : j <= l
  BY <1>3
<1>5. LastEvent(events, p) = events[l]
  BY DEF LastEvent
<1>6. l \in DOMAIN events /\ events[l].path = p /\ l \in Nat
  BY <1>1, <1>4
<1>7. ASSUME NEW j \in DOMAIN events, l < j PROVE events[j].path # p
  <2>1. j \in Nat
    BY <1>1
  <2>2. j \in at => j <= l
    BY <1>4
  <2> HIDE DEF l
  <2> QED
    BY <1>6, <1>7, <2>1, <2>2
<1> HIDE DEF l
<1> QED
  BY <1>5, <1>6, <1>7

(* FirstIndex is 0 or the first such event. *)
LEMMA FirstIndexIs ==
    ASSUME events \in Seq(Reported), NEW p, NEW t
    PROVE  \/ FirstIndex(events, p, t) = 0
              /\ \A i \in DOMAIN events : ~(events[i].path = p /\ events[i].type = t)
           \/ FirstIndex(events, p, t) \in DOMAIN events
              /\ events[FirstIndex(events, p, t)].path = p /\ events[FirstIndex(events, p, t)].type = t
              /\ \A i \in DOMAIN events : (events[i].path = p /\ events[i].type = t) =>
                                            FirstIndex(events, p, t) <= i
<1> DEFINE at == {i \in DOMAIN events : events[i].path = p /\ events[i].type = t}
           f == CHOOSE i \in at : \A j \in at : i <= j
<1>1. at \subseteq Nat
  <2>1. DOMAIN events = 1 .. Len(events) /\ Len(events) \in Nat
    OBVIOUS
  <2> QED
    BY <2>1
<1>2. FirstIndex(events, p, t) = IF at = {} THEN 0 ELSE f
  BY DEF FirstIndex
<1>3. CASE at = {}
  BY <1>2, <1>3
<1>4. CASE at # {}
  <2>1. \E i \in at : \A j \in at : i <= j
    BY <1>1, <1>4, LeastNat
  <2>2. f \in at /\ \A j \in at : f <= j
    BY <2>1
  <2> HIDE DEF f
  <2> QED
    BY <1>2, <1>4, <2>2
<1> QED
  BY <1>3, <1>4

(* What is left of a path's events says whether it is there, and CREATE that *)
(* it was not there before.                                                  *)
LEMMA PerPathTells ==
    ASSUME EventsTell, NEW p \in PathsIn(events)
    PROVE  /\ p \in Paths /\ PerPath(events, p).path = p /\ PerPath(events, p).old = NoPath
           /\ PerPath(events, p).type \in {"CREATE", "MODIFY", "DELETE"}
           /\ PerPath(events, p).type = "DELETE" <=> p \notin present
           /\ PerPath(events, p).type = "CREATE" => p \notin before
<1> DEFINE del == FirstIndex(events, p, "DELETE")
           cre == FirstIndex(events, p, "CREATE")
<1>1. events \in Seq(Reported)
  BY DEF EventsTell
<1>2. PICK i \in DOMAIN events :
        /\ events[i].path = p /\ LastEvent(events, p) = events[i]
        /\ \A j \in DOMAIN events : i < j => events[j].path # p
  BY <1>1, LastEventIs
<1>3. events[i] \in Reported
  BY <1>1
<1>4. p \in present <=> events[i].type # "DELETE"
  BY <1>2 DEF EventsTell
<1>5. PerPath(events, p) = IF events[i].type = "CREATE" /\ del # 0 /\ del < cre
                           THEN Event("MODIFY", p) ELSE events[i]
  BY <1>2 DEF PerPath
<1>6. events[i].type = "CREATE" /\ p \in before => del # 0 /\ del < cre
  <2> HAVE events[i].type = "CREATE" /\ p \in before
  <2>1. cre \in DOMAIN events /\ events[cre].path = p /\ events[cre].type = "CREATE"
    BY <1>1, <1>2, FirstIndexIs
  <2>2. PICK j \in DOMAIN events : j < cre /\ events[j].path = p /\ events[j].type = "DELETE"
    BY <2>1 DEF EventsTell
  <2>3. del \in DOMAIN events /\ del <= j
    BY <1>1, <2>2, FirstIndexIs
  <2>4. DOMAIN events = 1 .. Len(events) /\ Len(events) \in Nat
    BY <1>1
  <2> HIDE DEF del, cre
  <2> QED
    BY <2>1, <2>2, <2>3, <2>4
<1> HIDE DEF del, cre
<1> QED
  BY <1>2, <1>3, <1>4, <1>5, <1>6 DEF Reported, Event

(* The two kinds of paths phase 3 looks at are few and apart. *)
LEMMA SurvivingIs ==
    ASSUME EventsTell, NEW t
    PROVE  /\ IsFiniteSet(Surviving(events, t))
           /\ Cardinality(Surviving(events, t)) = 1 =>
                \E p \in PathsIn(events) : PerPath(events, p).type = t /\ Surviving(events, t) = {p}
<1>1. IsFiniteSet(PathsIn(events))
  <2> DEFINE f == [i \in DOMAIN events |-> events[i].path]
  <2>1. DOMAIN events = 1 .. Len(events) /\ Len(events) \in Nat
    BY DEF EventsTell
  <2>2. IsFiniteSet(DOMAIN events)
    BY <2>1, FS_Interval
  <2>3. f \in Surjection(DOMAIN events, PathsIn(events))
    BY DEF Surjection, PathsIn
  <2> QED
    BY <2>2, <2>3, FS_Surjection
<1>2. Surviving(events, t) \in SUBSET PathsIn(events)
  BY DEF Surviving
<1>3. IsFiniteSet(Surviving(events, t))
  BY <1>1, <1>2, FS_Subset
<1>4. ASSUME Cardinality(Surviving(events, t)) = 1
      PROVE  \E p \in PathsIn(events) : PerPath(events, p).type = t /\ Surviving(events, t) = {p}
  <2>1. PICK p : Surviving(events, t) = {p}
    BY <1>3, <1>4, FS_Singleton
  <2> QED
    BY <2>1 DEF Surviving
<1> QED
  BY <1>3, <1>4

(* The batch's entries: one for each first event of a path that is not the   *)
(* old one of a rename.                                                      *)
LEMMA BatchIs ==
    ASSUME EventsTell
    PROVE  /\ DOMAIN Batch = 1 .. Cardinality(FirstEvents(events))
           /\ \A k \in DOMAIN Batch : \E i \in FirstEvents(events) :
                /\ i = Nth(FirstEvents(events), k) /\ events[i].path \in PathsIn(events)
                /\ Batch[k] = Coalesced(events, events[i].path) /\ Batch[k].path = events[i].path
           /\ \A i \in FirstEvents(events) : \E k \in DOMAIN Batch :
                Batch[k] = Coalesced(events, events[i].path) /\ Batch[k].path = events[i].path
           /\ \A k, m \in DOMAIN Batch : k # m =>
                Nth(FirstEvents(events), k) # Nth(FirstEvents(events), m)
<1> DEFINE first == FirstEvents(events)
<1>1. Len(events) \in Nat /\ DOMAIN events = 1 .. Len(events)
  BY DEF EventsTell
<1>2. first \in SUBSET (1 .. Len(events))
  BY <1>1 DEF FirstEvents
<1>3. Batch = [k \in 1 .. Cardinality(first) |-> Coalesced(events, events[Nth(first, k)].path)]
  BY DEF Batch, _coalesce_events, Nth
<1> HIDE DEF first
<1>4. /\ \A k \in 1..Cardinality(first) : Nth(first, k) \in first
      /\ \A i \in first : \E k \in 1..Cardinality(first) : Nth(first, k) = i
      /\ \A k, m \in 1..Cardinality(first) : k < m <=> Nth(first, k) < Nth(first, m)
      /\ Cardinality(first) \in Nat
  BY <1>1, <1>2, NthIs
<1>5. \A i \in first : events[i].path \in PathsIn(events) /\ Coalesced(events, events[i].path).path = events[i].path
  <2> TAKE i \in first
  <2>1. events[i].path \in PathsIn(events)
    BY <1>1, <1>2 DEF PathsIn
  <2> QED
    BY <2>1, PerPathTells DEF Coalesced
<1>6. \A k, m \in 1..Cardinality(first) : k # m => Nth(first, k) # Nth(first, m)
  <2> TAKE k, m \in 1..Cardinality(first)
  <2> HAVE k # m
  <2>1. k < m \/ m < k
    BY <1>4
  <2>2. Nth(first, k) \in Int /\ Nth(first, m) \in Int
    <3>1. Nth(first, k) \in 1 .. Len(events) /\ Nth(first, m) \in 1 .. Len(events)
      BY <1>2, <1>4
    <3> QED
      BY <1>1, <3>1
  <2> QED
    BY <1>4, <2>1, <2>2
<1> QED
  BY <1>3, <1>4, <1>5, <1>6 DEF first

(* A path with events has a first one. *)
LEMMA FirstEventOf ==
    ASSUME EventsTell, NEW p \in PathsIn(events)
    PROVE  \E i \in DOMAIN events : events[i].path = p /\ \A j \in 1 .. i - 1 : events[j].path # events[i].path
<1> DEFINE at == {i \in DOMAIN events : events[i].path = p}
<1>1. Len(events) \in Nat /\ DOMAIN events = 1 .. Len(events)
  BY DEF EventsTell
<1>2. at \subseteq Nat /\ at # {}
  BY <1>1 DEF PathsIn
<1>3. PICK i \in at : \A j \in at : i <= j
  BY <1>2, LeastNat
<1>4. ASSUME NEW j \in 1 .. i - 1 PROVE events[j].path # events[i].path
  <2>1. j \in DOMAIN events /\ ~(i <= j) /\ events[i].path = p
    BY <1>1, <1>3
  <2> QED
    BY <1>3, <2>1
<1> QED
  BY <1>3, <1>4

(* From what the events tell, the batch is faithful. *)
LEMMA TellsFaithful ==
    ASSUME EventsTell
    PROVE  BatchesAreFaithful
<1> DEFINE first == FirstEvents(events)
<1>1. Len(events) \in Nat /\ DOMAIN events = 1 .. Len(events)
  BY DEF EventsTell
<1>2. ASSUME NEW p \in PathsIn(events), ~(IsRename(events) /\ p \in Surviving(events, "DELETE"))
      PROVE  \E k \in DOMAIN Batch : Batch[k] = Coalesced(events, p) /\ Batch[k].path = p
  <2>1. PICK i \in DOMAIN events : events[i].path = p /\ \A j \in 1 .. i - 1 : events[j].path # events[i].path
    BY FirstEventOf
  <2>2. i \in first
    BY <1>2, <2>1 DEF FirstEvents
  <2> QED
    BY <2>1, <2>2, BatchIs
<1>3. \A k \in DOMAIN Batch : \E p \in PathsIn(events) :
        Batch[k] = Coalesced(events, p) /\ Batch[k].path = p
        /\ ~(IsRename(events) /\ p \in Surviving(events, "DELETE"))
  <2> TAKE k \in DOMAIN Batch
  <2>1. PICK i \in first : events[i].path \in PathsIn(events)
                           /\ Batch[k] = Coalesced(events, events[i].path) /\ Batch[k].path = events[i].path
    BY BatchIs
  <2> QED
    BY <2>1 DEF FirstEvents
<1>4. ASSUME NEW k \in DOMAIN Batch, NEW m \in DOMAIN Batch, k # m PROVE Batch[k].path # Batch[m].path
  <2>1. PICK i \in first : i = Nth(first, k) /\ Batch[k].path = events[i].path
    BY BatchIs
  <2>2. PICK j \in first : j = Nth(first, m) /\ Batch[m].path = events[j].path
    BY BatchIs
  <2>3. i # j
    BY <1>4, <2>1, <2>2, BatchIs
  <2>4. i \in 1 .. Len(events) /\ j \in 1 .. Len(events)
    BY <1>1 DEF FirstEvents
  <2>5. i \in 1 .. j - 1 \/ j \in 1 .. i - 1
    BY <1>1, <2>3, <2>4
  <2> QED
    BY <2>1, <2>2, <2>5 DEF FirstEvents
<1>5. \A p \in PathsIn(events) : p \in Surviving(events, "DELETE") <=> p \notin present
  BY PerPathTells DEF Surviving
<1>6. ASSUME NEW p \in PathsIn(events)
      PROVE  /\ Coalesced(events, p).type = "DELETE" <=> p \notin present
             /\ Coalesced(events, p).type \in {"CREATE", "RENAME"} => p \notin before
             /\ Coalesced(events, p).type = "RENAME" =>
                  /\ IsRename(events)
                  /\ Coalesced(events, p).old = CHOOSE q \in Surviving(events, "DELETE") : TRUE
             /\ (IsRename(events) /\ p \in Surviving(events, "CREATE")) => Coalesced(events, p).type = "RENAME"
  BY PerPathTells DEF Coalesced, Surviving
<1>7. Updated = PathsIn(events) \cap present
  <2>1. ASSUME NEW x \in Updated PROVE x \in PathsIn(events) \cap present
    <3>1. PICK k \in DOMAIN Batch : Batch[k].type # "DELETE" /\ x = Batch[k].path
      BY <2>1 DEF Updated
    <3> QED
      BY <1>3, <1>6, <3>1
  <2>2. ASSUME NEW x \in PathsIn(events) \cap present PROVE x \in Updated
    <3>1. PICK k \in DOMAIN Batch : Batch[k] = Coalesced(events, x) /\ Batch[k].path = x
      BY <1>2, <1>5
    <3>2. Batch[k].type # "DELETE"
      BY <1>6, <3>1
    <3> QED
      BY <3>1, <3>2 DEF Updated
  <2> QED
    BY <2>1, <2>2
<1>8. Removed = PathsIn(events) \ present
  <2>1. ASSUME IsRename(events)
        PROVE  /\ (CHOOSE q \in Surviving(events, "DELETE") : TRUE) \in PathsIn(events) \ present
               /\ Surviving(events, "DELETE") = {CHOOSE q \in Surviving(events, "DELETE") : TRUE}
    <3>1. PICK p \in PathsIn(events) : Surviving(events, "DELETE") = {p}
      BY <2>1, SurvivingIs DEF IsRename
    <3>2. (CHOOSE q \in Surviving(events, "DELETE") : TRUE) = p
      BY <3>1
    <3> QED
      BY <1>5, <3>1, <3>2
  <2>2. ASSUME NEW x \in Removed PROVE x \in PathsIn(events) \ present
    <3>1. CASE \E k \in DOMAIN Batch : Batch[k].type = "DELETE" /\ x = Batch[k].path
      BY <1>3, <1>6, <3>1
    <3>2. CASE \E k \in DOMAIN Batch : Batch[k].type = "RENAME" /\ x = Batch[k].old
      BY <1>3, <1>6, <2>1, <3>2
    <3> QED
      BY <2>2, <3>1, <3>2 DEF Removed
  <2>3. ASSUME NEW x \in PathsIn(events) \ present, ~IsRename(events) PROVE x \in Removed
    <3>1. PICK k \in DOMAIN Batch : Batch[k] = Coalesced(events, x) /\ Batch[k].path = x
      BY <1>2, <2>3
    <3>2. Batch[k].type = "DELETE"
      BY <1>6, <3>1
    <3> QED
      BY <3>1, <3>2 DEF Removed
  <2>4. ASSUME NEW x \in PathsIn(events) \ present, IsRename(events) PROVE x \in Removed
    <3>1. x = CHOOSE q \in Surviving(events, "DELETE") : TRUE
      BY <1>5, <2>1, <2>4
    <3>2. PICK p \in PathsIn(events) : PerPath(events, p).type = "CREATE" /\ Surviving(events, "CREATE") = {p}
      BY <2>4, SurvivingIs DEF IsRename
    <3>3. p \notin Surviving(events, "DELETE")
      BY <3>2 DEF Surviving
    <3>4. PICK k \in DOMAIN Batch : Batch[k] = Coalesced(events, p)
      BY <1>2, <3>3
    <3>5. Batch[k].type = "RENAME" /\ Batch[k].old = x
      BY <1>6, <2>4, <3>1, <3>2, <3>4
    <3> QED
      BY <3>5 DEF Removed
  <2> QED
    BY <2>2, <2>3, <2>4
<1>9. ASSUME NEW k \in DOMAIN Batch, Batch[k].type \in {"CREATE", "RENAME"} PROVE Batch[k].path \notin before
  BY <1>3, <1>6, <1>9
<1> QED
  BY <1>4, <1>7, <1>8, <1>9 DEF BatchesAreFaithful

LEMMA EventsTellInit == BatchInit => EventsTell
<1> SUFFICES ASSUME BatchInit PROVE EventsTell
  OBVIOUS
<1>1. events = <<>> /\ DOMAIN events = {} /\ events \in Seq(Reported)
  BY DEF BatchInit
<1> QED
  BY <1>1 DEF BatchInit, EventsTell, PathsIn

LEMMA EventsTellStep == EventsTell /\ [BatchNext]_bvars => EventsTell'
<1> SUFFICES ASSUME EventsTell, [BatchNext]_bvars PROVE EventsTell'
  OBVIOUS
<1>1. CASE UNCHANGED bvars
  BY <1>1 DEF bvars, EventsTell, PathsIn
<1>2. CASE BatchNext
  <2>1. PICK p \in Paths : Create(p) \/ Modify(p) \/ Delete(p)
    BY <1>2 DEF BatchNext
  <2>2. PICK e \in Reported : /\ e.path = p /\ events' = Append(events, e) /\ before' = before
                              /\ present' = IF e.type = "DELETE" THEN present \ {p} ELSE present \cup {p}
                              /\ e.type = "CREATE" => p \notin present
    <3>1. /\ Event("CREATE", p) \in Reported /\ Event("MODIFY", p) \in Reported /\ Event("DELETE", p) \in Reported
      BY DEF Event, Reported
    <3>2. present \cup {p} = present \/ p \notin present
      OBVIOUS
    <3> QED
      BY <2>1, <3>1, <3>2 DEF Create, Modify, Delete, Queue, Event
  <2>3. Len(events) \in Nat /\ DOMAIN events = 1 .. Len(events) /\ events \in Seq(Reported)
    BY DEF EventsTell
  <2> DEFINE n == Len(events)
  <2>4. /\ events' \in Seq(Reported) /\ DOMAIN events' = 1 .. n + 1 /\ events'[n + 1] = e
        /\ \A i \in 1 .. n : events'[i] = events[i]
    BY <2>2, <2>3
  <2> HIDE DEF n
  <2>5. n \in Nat /\ DOMAIN events = 1 .. n /\ n + 1 \in 1 .. n + 1 /\ \A i \in 1 .. n : i \in 1 .. n + 1 /\ i < n + 1
    BY <2>3 DEF n
  <2>6. PathsIn(events)' = PathsIn(events) \cup {p}
    <3>1. \A i \in 1 .. n + 1 : i \in 1 .. n \/ i = n + 1
      BY <2>5
    <3> QED
      BY <2>2, <2>4, <2>5, <3>1 DEF PathsIn
  <2>7. before' \subseteq Paths /\ present' \subseteq Paths
    BY <2>2 DEF EventsTell
  <2>8. \A q \in Paths \ PathsIn(events)' : q \in before' <=> q \in present'
    BY <2>2, <2>6 DEF EventsTell
  <2>9. ASSUME NEW i \in DOMAIN events', \A j \in DOMAIN events' : i < j => events'[j].path # events'[i].path
        PROVE  events'[i].path \in present' <=> events'[i].type # "DELETE"
    <3>1. CASE i = n + 1
      BY <2>2, <2>4, <3>1
    <3>2. CASE i \in 1 .. n
      <4>1. events'[i].path # p
        BY <2>2, <2>4, <2>5, <2>9, <3>2
      <4>2. \A j \in DOMAIN events : i < j => events[j].path # events[i].path
        BY <2>4, <2>5, <2>9, <3>2
      <4>3. events[i].path \in present <=> events[i].type # "DELETE"
        BY <2>5, <3>2, <4>2 DEF EventsTell
      <4> QED
        BY <2>2, <2>4, <3>2, <4>1, <4>3
    <3> QED
      BY <2>4, <2>5, <3>1, <3>2
  <2>10. ASSUME NEW i \in DOMAIN events', events'[i].type = "CREATE", events'[i].path \in before'
         PROVE  \E j \in DOMAIN events' : j < i /\ events'[j].path = events'[i].path /\ events'[j].type = "DELETE"
    <3>1. CASE i = n + 1
      <4>1. p \in before /\ p \notin present
        BY <2>2, <2>4, <2>10, <3>1
      <4>2. p \in PathsIn(events)
        BY <4>1 DEF EventsTell
      <4>3. PICK j \in DOMAIN events : events[j].path = p /\ \A k \in DOMAIN events : j < k => events[k].path # p
        BY <2>3, <4>2, LastEventIs
      <4>4. events[j].type = "DELETE"
        BY <4>1, <4>3 DEF EventsTell
      <4> QED
        BY <2>2, <2>4, <2>5, <3>1, <4>3, <4>4
    <3>2. CASE i \in 1 .. n
      <4>1. PICK j \in DOMAIN events : j < i /\ events[j].path = events[i].path /\ events[j].type = "DELETE"
        BY <2>2, <2>4, <2>5, <2>10, <3>2 DEF EventsTell
      <4> QED
        BY <2>4, <2>5, <3>2, <4>1
    <3> QED
      BY <2>4, <2>5, <3>1, <3>2
  <2> QED
    BY <2>4, <2>7, <2>8, <2>9, <2>10 DEF EventsTell, PathsIn
<1> QED
  BY <1>1, <1>2

(* Any changes to any files are handed to the indexer faithfully. *)
THEOREM BatchesFaithful == BatchSpec => []BatchesAreFaithful
<1>1. BatchInit => EventsTell
  BY EventsTellInit
<1>2. EventsTell /\ [BatchNext]_bvars => EventsTell'
  BY EventsTellStep
<1>3. EventsTell => BatchesAreFaithful
  BY TellsFaithful
<1> QED
  BY <1>1, <1>2, <1>3, PTL DEF BatchSpec

-----------------------------------------------------------------------------
(* Routes *)

(* The deepest root above a directory, when some project's is above it. *)
LEMMA DeepestIs ==
    ASSUME NEW cwd \in Seq(STRING), NEW indexed, NEW roots, DOMAIN roots \subseteq ProjectNames,
           \A n \in DOMAIN roots : roots[n] \in Seq(STRING),
           NEW m \in DOMAIN roots, m \in Range(indexed), IsPrefix(roots[m], cwd)
    PROVE  LET d == DeepestRoot(cwd, indexed, roots)
           IN /\ d \in DOMAIN roots /\ d \in Range(indexed) /\ IsPrefix(roots[d], cwd)
              /\ Len(roots[m]) <= Len(roots[d])
<1> DEFINE above == {n \in DOMAIN roots : n \in Range(indexed) /\ IsPrefix(roots[n], cwd)}
           lens == {Len(roots[n]) : n \in above}
           d == CHOOSE n \in above : \A k \in above : Len(roots[k]) <= Len(roots[n])
<1>1. m \in above
  OBVIOUS
<1>2. \A n \in above : Len(roots[n]) \in Nat /\ Len(roots[n]) <= Len(cwd)
  BY DEF IsPrefix
<1>3. lens \in SUBSET (0 .. Len(cwd)) /\ lens # {} /\ Len(cwd) \in Nat
  <2>1. Len(cwd) \in Nat /\ \A n \in above : Len(roots[n]) \in 0 .. Len(cwd)
    BY <1>2
  <2> HIDE DEF above
  <2> QED
    BY <1>1, <2>1
<1>4. IsFiniteSet(lens) /\ lens \subseteq Nat
  <2>1. IsFiniteSet(0 .. Len(cwd)) /\ 0 .. Len(cwd) \subseteq Nat
    BY <1>3, FS_Interval
  <2> HIDE DEF lens
  <2> QED
    BY <1>3, <2>1, FS_Subset
<1>5. Max(lens) \in lens /\ \A l \in lens : l <= Max(lens)
  <2> HIDE DEF lens
  <2> QED
    BY <1>3, <1>4, MaxIsGreatest
<1>6. \E n \in above : \A k \in above : Len(roots[k]) <= Len(roots[n])
  BY <1>5
<1>7. d \in above /\ \A k \in above : Len(roots[k]) <= Len(roots[d])
  BY <1>6
<1>8. DeepestRoot(cwd, indexed, roots) = d
  BY <1>1 DEF DeepestRoot
<1> HIDE DEF d
<1> QED
  BY <1>1, <1>7, <1>8

(* Walking up from a directory ends at an indexed project, or nowhere. *)
LEMMA WalkedIs ==
    ASSUME NEW cwd \in Seq(STRING), NEW indexed \in Seq(ProjectNames), NEW roots,
           DOMAIN roots \subseteq ProjectNames, \A n \in DOMAIN roots : roots[n] \in Seq(STRING)
    PROVE  LET w == _walk_to_project(cwd, indexed, roots)
           IN /\ w # NoProject => w \in Range(indexed)
              /\ \A n \in Range(indexed) \cap DOMAIN roots :
                   IsPrefix(roots[n], cwd) =>
                     w # NoProject /\ w \in DOMAIN roots /\ IsPrefix(roots[n], roots[w])
<1> DEFINE w == _walk_to_project(cwd, indexed, roots)
           d == DeepestRoot(cwd, indexed, roots)
           above == {n \in DOMAIN roots : n \in Range(indexed) /\ IsPrefix(roots[n], cwd)}
<1>1. \A n \in ProjectNames : n # NoProject
  BY RoutesAssumption
<1>2. ASSUME NEW n \in above
      PROVE  /\ w = d /\ d \in above /\ d # NoProject /\ IsPrefix(roots[n], roots[d])
  <2>1. d \in DOMAIN roots /\ d \in Range(indexed) /\ IsPrefix(roots[d], cwd) /\ Len(roots[n]) <= Len(roots[d])
    BY DeepestIs
  <2>2. d # NoProject
    BY <1>1, <2>1
  <2>3. w = d
    BY <2>2 DEF _walk_to_project
  <2> HIDE DEF d
  <2>4. roots[n] \in Seq(STRING) /\ roots[d] \in Seq(STRING)
    BY <2>1
  <2>5. IsPrefix(roots[n], roots[d])
    <3>1. /\ Len(roots[n]) \in Nat /\ Len(roots[d]) \in Nat /\ IsPrefix(roots[n], cwd)
          /\ Len(cwd) \in Nat
      BY <2>4
    <3>2. roots[n] = SubSeq(cwd, 1, Len(roots[n])) /\ roots[d] = SubSeq(cwd, 1, Len(roots[d]))
          /\ Len(roots[d]) <= Len(cwd)
      BY <2>1, <2>4, <3>1 DEF IsPrefix
    <3>3. SubSeq(roots[d], 1, Len(roots[n])) = roots[n]
      BY <2>1, <2>4, <3>1, <3>2
    <3> QED
      BY <2>1, <3>3 DEF IsPrefix
  <2> QED
    BY <2>1, <2>2, <2>3, <2>5
<1>3. CASE above # {}
  BY <1>2, <1>3
<1>4. CASE above = {}
  <2>1. d = NoProject /\ w = FirstOf(indexed, Range(cwd))
    BY <1>4 DEF _walk_to_project, DeepestRoot
  <2>2. w # NoProject => w \in Range(indexed)
    <3>1. CASE Among(indexed, Range(cwd)) = <<>>
      BY <2>1, <3>1 DEF FirstOf
    <3>2. CASE Among(indexed, Range(cwd)) # <<>>
      <4>1. Range(Among(indexed, Range(cwd))) = Range(indexed) \cap Range(cwd)
            /\ Among(indexed, Range(cwd)) \in Seq(ProjectNames)
        BY AmongFinds
      <4>2. w = Among(indexed, Range(cwd))[1]
        BY <2>1, <3>2 DEF FirstOf
      <4>3. 1 \in DOMAIN Among(indexed, Range(cwd))
        BY <3>2, <4>1
      <4>4. w \in Range(Among(indexed, Range(cwd)))
        BY <4>2, <4>3 DEF Range
      <4> QED
        BY <4>1, <4>4
    <3> QED
      BY <3>1, <3>2
  <2> QED
    BY <1>4, <2>2
<1> QED
  BY <1>3, <1>4

MentionedIn(c, indexed) == {n \in Range(indexed) : Mentioned(c, n)}

Walked(c, indexed) == IF c.cwd = NoCwd THEN NoProject ELSE _walk_to_project(c.cwd, indexed, c.roots)

(* The five decisions. *)
LEMMA RoutedIs ==
    ASSUME NEW c, IsRoute(c), NEW indexed \in Seq(ProjectNames)
    PROVE  LET d == Routed(c, indexed)
               named == MentionedIn(c, indexed)
               matched == Among(indexed, named)
               w == Walked(c, indexed)
           IN \/ c.project # NoProject /\ d = Decision(c.project, "explicit_project", <<c.project>>)
              \/ c.project = NoProject /\ named # {} /\ d = Decision(matched[1], "cross_project_pattern", matched)
              \/ c.project = NoProject /\ named = {} /\ c.sticky # NoProject
                 /\ d = Decision(c.sticky, "active_project_sticky", <<c.sticky>>)
              \/ c.project = NoProject /\ named = {} /\ c.sticky = NoProject /\ w # NoProject
                 /\ d = Decision(w, "cwd_walk_to_sentinel", <<w>>)
              \/ c.project = NoProject /\ named = {} /\ c.sticky = NoProject /\ w = NoProject
                 /\ d = Decision(NoProject, "fanout_no_primary", indexed)
<1> DEFINE d == Routed(c, indexed)
           named == MentionedIn(c, indexed)
           matched == Among(indexed, named)
           w == Walked(c, indexed)
<1>1. d = CASE c.project # NoProject -> Decision(c.project, "explicit_project", <<c.project>>)
            [] c.project = NoProject /\ named # {} -> Decision(matched[1], "cross_project_pattern", matched)
            [] c.project = NoProject /\ named = {} /\ c.sticky # NoProject ->
                 Decision(c.sticky, "active_project_sticky", <<c.sticky>>)
            [] c.project = NoProject /\ named = {} /\ c.sticky = NoProject /\ w # NoProject ->
                 Decision(w, "cwd_walk_to_sentinel", <<w>>)
            [] OTHER -> Decision(NoProject, "fanout_no_primary", indexed)
  BY DEF Routed, decide_scope, MentionedIn, Walked
<1> HIDE DEF d, named, matched, w
<1>2. CASE c.project # NoProject
  BY <1>1, <1>2 DEF d
<1>3. CASE c.project = NoProject /\ named # {}
  BY <1>1, <1>3 DEF d, named, matched
<1>4. CASE c.project = NoProject /\ named = {} /\ c.sticky # NoProject
  BY <1>1, <1>4 DEF d, named
<1>5. CASE c.project = NoProject /\ named = {} /\ c.sticky = NoProject /\ w # NoProject
  BY <1>1, <1>5 DEF d, named, w
<1>6. CASE c.project = NoProject /\ named = {} /\ c.sticky = NoProject /\ w = NoProject
  BY <1>1, <1>6 DEF d, named, w
<1> QED
  BY <1>2, <1>3, <1>4, <1>5, <1>6

(* One more project nothing in the search hears of makes no difference to a  *)
(* search that has a primary.                                                *)
LEMMA UnheardIsNothing ==
    ASSUME NEW c, IsRoute(c), NEW n \in ProjectNames \ Heard(c), Routed(c, c.indexed).primary # NoProject
    PROVE  Routed(c, <<n>> \o c.indexed) = Routed(c, c.indexed)
<1> DEFINE s == c.indexed
           t == <<n>> \o c.indexed
<1>1. s \in Seq(ProjectNames) /\ t \in Seq(ProjectNames) /\ Range(t) = Range(s) \cup {n}
  BY ConsRange DEF IsRoute
<1>2. n \notin c.cued /\ n \notin c.bare /\ n \notin DOMAIN c.roots /\ (c.cwd # NoCwd => n \notin Range(c.cwd))
  BY DEF Heard
<1>3. MentionedIn(c, t) = MentionedIn(c, s) /\ n \notin MentionedIn(c, s)
  BY <1>1, <1>2 DEF MentionedIn, Mentioned
<1>4. Among(t, MentionedIn(c, t)) = Among(s, MentionedIn(c, s))
  BY <1>1, <1>3, AmongSkips
<1>5. Walked(c, t) = Walked(c, s)
  <2>1. CASE c.cwd = NoCwd
    BY <2>1 DEF Walked
  <2>2. CASE c.cwd # NoCwd
    <3>1. {k \in DOMAIN c.roots : k \in Range(t) /\ IsPrefix(c.roots[k], c.cwd)}
          = {k \in DOMAIN c.roots : k \in Range(s) /\ IsPrefix(c.roots[k], c.cwd)}
      BY <1>1, <1>2
    <3>2. DeepestRoot(c.cwd, t, c.roots) = DeepestRoot(c.cwd, s, c.roots)
      <4> DEFINE A(x) == {k \in DOMAIN c.roots : k \in Range(x) /\ IsPrefix(c.roots[k], c.cwd)}
      <4>1. \A x : DeepestRoot(c.cwd, x, c.roots) =
              IF A(x) = {} THEN NoProject
              ELSE CHOOSE k \in A(x) : \A m \in A(x) : Len(c.roots[m]) <= Len(c.roots[k])
        BY Zenon DEF DeepestRoot
      <4>2. A(t) = A(s)
        BY <3>1
      <4> HIDE DEF A, s, t
      <4> QED
        BY <4>1, <4>2
    <3>3. n \notin Range(c.cwd)
      BY <1>2, <2>2
    <3>4. Among(t, Range(c.cwd)) = Among(s, Range(c.cwd))
      BY <1>1, <3>3, AmongSkips
    <3>5. FirstOf(t, Range(c.cwd)) = FirstOf(s, Range(c.cwd))
      BY <3>4 DEF FirstOf
    <3> QED
      BY <3>2, <3>5 DEF Walked, _walk_to_project
  <2> QED
    BY <2>1, <2>2
<1> HIDE DEF s, t
<1>6. Routed(c, s).primary # NoProject
  BY DEF s
<1>7. Routed(c, t) = Routed(c, s)
  BY <1>1, <1>3, <1>4, <1>5, <1>6, RoutedIs DEF Decision
<1> QED
  BY <1>7 DEF s, t

(* The conjuncts of RoutesAsMeant, for one search. *)
LEMMA RouteIsMeant ==
    ASSUME NEW c, IsRoute(c)
    PROVE  LET d == Routed(c, c.indexed)
               told == {c.project, c.sticky} \ {NoProject}
               filter == _scope_to_filter(d)
           IN /\ filter.projects \subseteq Range(c.indexed) \cup told
              /\ filter.all => c.indexed = <<>> /\ told = {}
              /\ c.project # NoProject => filter.projects = {c.project}
              /\ (d.primary \in CommonNames /\ d.source = "cross_project_pattern") => d.primary \in c.cued
              /\ (d.source = "cwd_walk_to_sentinel" /\ c.cwd # NoCwd) =>
                   \A n \in Range(c.indexed) \cap DOMAIN c.roots :
                     IsPrefix(c.roots[n], c.cwd) => IsPrefix(c.roots[n], c.roots[d.primary])
<1> DEFINE d == Routed(c, c.indexed)
           told == {c.project, c.sticky} \ {NoProject}
           filter == _scope_to_filter(d)
           named == MentionedIn(c, c.indexed)
           matched == Among(c.indexed, named)
           w == Walked(c, c.indexed)
           nested == \A n \in Range(c.indexed) \cap DOMAIN c.roots :
                       IsPrefix(c.roots[n], c.cwd) => IsPrefix(c.roots[n], c.roots[w])
<1>1. c.indexed \in Seq(ProjectNames)
  BY DEF IsRoute
<1>2. /\ matched \in Seq(ProjectNames) /\ Range(matched) \subseteq Range(c.indexed)
      /\ named # {} => matched # <<>> /\ matched[1] \in named
  <2>1. named \subseteq Range(c.indexed)
    BY DEF MentionedIn
  <2>2. Range(c.indexed) \cap named = named
    BY <2>1
  <2> HIDE DEF named
  <2> QED
    BY <1>1, <2>2, AmongFinds
<1>3. \A n \in named : Mentioned(c, n)
  BY DEF MentionedIn
<1>4. /\ w # NoProject => w \in Range(c.indexed)
      /\ c.cwd # NoCwd => nested
  BY <1>1, WalkedIs DEF Walked, IsRoute
<1>5. \A x : Range(<<x>>) = {x} /\ <<x>> # <<>>
  BY DEF Range
<1>6. \/ c.project # NoProject /\ d = Decision(c.project, "explicit_project", <<c.project>>)
      \/ c.project = NoProject /\ named # {} /\ d = Decision(matched[1], "cross_project_pattern", matched)
      \/ c.project = NoProject /\ named = {} /\ c.sticky # NoProject
         /\ d = Decision(c.sticky, "active_project_sticky", <<c.sticky>>)
      \/ c.project = NoProject /\ named = {} /\ c.sticky = NoProject /\ w # NoProject
         /\ d = Decision(w, "cwd_walk_to_sentinel", <<w>>)
      \/ c.project = NoProject /\ named = {} /\ c.sticky = NoProject /\ w = NoProject
         /\ d = Decision(NoProject, "fanout_no_primary", c.indexed)
  BY <1>1, RoutedIs
<1>7. filter = IF d.fanout = <<>> THEN [all |-> TRUE, projects |-> {}]
               ELSE [all |-> FALSE, projects |-> Range(d.fanout)]
  BY DEF _scope_to_filter
<1> HIDE DEF d, filter, named, matched, w, nested
<1>8. filter.projects \subseteq Range(c.indexed) \cup told
  BY <1>2, <1>4, <1>5, <1>6, <1>7 DEF Decision
<1>9. filter.all => c.indexed = <<>> /\ told = {}
  BY <1>2, <1>5, <1>6, <1>7 DEF Decision
<1>10. c.project # NoProject => filter.projects = {c.project}
  BY <1>5, <1>6, <1>7 DEF Decision
<1>11. (d.primary \in CommonNames /\ d.source = "cross_project_pattern") => d.primary \in c.cued
  BY <1>2, <1>3, <1>6 DEF Decision, Mentioned
<1>12. d.source = "cwd_walk_to_sentinel" => d.primary = w
  BY <1>6 DEF Decision
<1>13. (d.source = "cwd_walk_to_sentinel" /\ c.cwd # NoCwd) =>
         \A n \in Range(c.indexed) \cap DOMAIN c.roots :
           IsPrefix(c.roots[n], c.cwd) => IsPrefix(c.roots[n], c.roots[d.primary])
  BY <1>4, <1>12 DEF nested
<1> QED
  BY <1>8, <1>9, <1>10, <1>11, <1>13 DEF d, filter

(* An identifier keeps both rankings. *)
LEMMA IdentifierRanksBoth ==
    ASSUME NEW c, IsRoute(c), c.identifier
    PROVE  Policy(c).bm25 > 0 /\ Policy(c).dense > 0
<1>1. c.chars \in Nat
  BY DEF IsRoute
<1>2. detect_query_shape(c) \in {"unknown", "mixed", "symbolic"}
  <2>1. c.natural \in BOOLEAN /\ c.identifier \in BOOLEAN
    BY DEF IsRoute
  <2>2. CASE c.chars < 5
    BY <1>1, <2>1, <2>2 DEF detect_query_shape
  <2>3. CASE c.chars >= 5 /\ c.natural
    BY <1>1, <2>1, <2>3 DEF detect_query_shape
  <2>4. CASE c.chars >= 5 /\ ~c.natural
    BY <1>1, <2>1, <2>4 DEF detect_query_shape
  <2> QED
    BY <1>1, <2>2, <2>3, <2>4
<1> DEFINE shape == detect_query_shape(c)
<1>3. Policy(c) = select_policy(c.chunks * 8000, shape)
  BY DEF Policy, _resolve_policy
<1> HIDE DEF shape
<1>4. shape # "prose"
  BY <1>2 DEF shape
<1>5. select_policy(c.chunks * 8000, shape).bm25 = 1 /\ select_policy(c.chunks * 8000, shape).dense = 1
  BY <1>4 DEF select_policy, _POLICY_TABLE
<1> QED
  BY <1>3, <1>5

(* Routing, for any names, directories, roots and indexes. *)
THEOREM RoutesAsMeantForAll == AlgSpec => []RoutesAsMeant
<1>1. call \in Calls \cup {NoCall} => RoutesAsMeant
  <2> HAVE call \in Calls \cup {NoCall}
  <2>1. call.kind = "route" => IsRoute(call)
    BY KindsAssumption, RoutesAssumption DEF Calls, NoCall
  <2>2. ASSUME call.kind = "route", NEW n \in ProjectNames \ Heard(call),
               Routed(call, call.indexed).primary # NoProject
        PROVE  Routed(call, <<n>> \o call.indexed) = Routed(call, call.indexed)
    BY <2>1, <2>2, UnheardIsNothing
  <2>3. call.kind = "route" /\ call.identifier => Policy(call).bm25 > 0 /\ Policy(call).dense > 0
    BY <2>1, IdentifierRanksBoth
  <2> QED
    BY <2>1, <2>2, <2>3, RouteIsMeant DEF RoutesAsMeant
<1> QED
  BY <1>1, CallsMade, PTL

-----------------------------------------------------------------------------
(* Evictions *)

AddBytes(c, sum, p) == sum + p.bytes

Plans == INSTANCE FoldLemmas WITH Step <- PlanNext
Sums == INSTANCE FoldLemmas WITH Step <- AddBytes

Project == [name : Nat, bytes : Nat, scanned : Nat, session : BOOLEAN, missing : BOOLEAN]

(* What a plan frees, entry by entry. *)
LEMMA FreedIs ==
    /\ Freed(<<>>) = 0
    /\ \A t \in Seq(Project), p \in Project : Freed(Append(t, p)) = Freed(t) + p.bytes
<1>1. \A t : Freed(t) = Sums!Fold(0, 0, t)
  BY Zenon DEF Freed, AddBytes, FoldLeft, MapThenFoldSet, Max, Sums!Fold, Sums!Greatest
<1>2. Sums!Fold(0, 0, <<>>) = 0
  BY Sums!FoldEmpty, NumbersInductive DEF Sums!Inductive
<1>3. ASSUME NEW t \in Seq(Project), NEW p \in Project
      PROVE  Freed(Append(t, p)) = Freed(t) + p.bytes
  <2>1. Sums!Fold(0, 0, Append(t, p)) = AddBytes(0, Sums!Fold(0, 0, t), p)
    BY Sums!FoldAppend, NumbersInductive DEF Sums!Inductive
  <2> QED
    BY <1>1, <2>1 DEF AddBytes
<1> QED
  BY <1>1, <1>2, <1>3

(* A sum of sizes is a number, whatever is summed. *)
LEMMA FreedCounts ==
    ASSUME NEW t \in Seq(Project)
    PROVE  Freed(t) \in Nat
<1>1. Freed(t) = Sums!Fold(0, 0, t)
  BY Zenon DEF Freed, AddBytes, FoldLeft, MapThenFoldSet, Max, Sums!Fold, Sums!Greatest
<1>2. PICK f : Sums!IsRun(f, 0, 0, t) /\ Sums!Fold(0, 0, t) = f[Len(t)]
  BY Sums!FoldRun, NumbersInductive DEF Sums!Inductive
<1> DEFINE done == {k \in 0 .. Len(t) : f[k] \in Nat}
<1>3. Len(t) \in Nat
  OBVIOUS
<1>4. 0 \in done
  BY <1>2, <1>3 DEF Sums!IsRun
<1>5. ASSUME NEW k \in 0 .. Len(t) - 1, k \in done PROVE k + 1 \in done
  <2>1. k + 1 \in 1 .. Len(t) /\ k + 1 - 1 = k /\ k + 1 \in 0 .. Len(t)
    BY <1>3
  <2>2. f[k + 1] = f[k] + t[k + 1].bytes
    BY <1>2, <2>1 DEF Sums!IsRun, AddBytes
  <2>3. t[k + 1] \in Project /\ f[k] \in Nat
    BY <1>5, <2>1
  <2> QED
    BY <2>1, <2>2, <2>3 DEF Project
<1> HIDE DEF done
<1>6. \A k \in 0 .. Len(t) : k \in done
  BY <1>3, <1>4, <1>5, UpTo
<1> QED
  BY <1>1, <1>2, <1>3, <1>6 DEF done

(* The last use orders projects: names are told apart. *)
LEMMA UseOrders ==
    ASSUME NEW b, IsCache(b), NEW ps \in SUBSET b.projects
    PROVE  /\ IsFiniteSet(ps) /\ ps \subseteq Project
           /\ \A p \in ps : LastUse(b, p) \in Nat
           /\ Orders({e \in Pairs(ps) : Sooner(b, e[1], e[2])}, ps)
<1>1. b.projects \subseteq Project /\ b.queried \in Seq(Nat) /\ IsFiniteSet(b.projects)
  BY DEF IsCache, Caches, Project
<1>2. IsFiniteSet(ps) /\ ps \subseteq Project
  BY <1>1, FS_Subset
<1>3. \A p \in ps : LastUse(b, p) \in Nat /\ p.bytes \in Nat /\ p.name \in Nat
  <2> TAKE p \in ps
  <2>1. p.name \in DOMAIN b.queried /\ p.scanned \in Nat /\ p.bytes \in Nat /\ p.name \in Nat
    BY <1>1, <1>2 DEF IsCache, Project
  <2>2. b.queried[p.name] \in Nat
    BY <1>1, <2>1
  <2> QED
    BY <2>1, <2>2 DEF LastUse
<1>4. \A p, q \in ps : p.name = q.name => p = q
  BY DEF IsCache
<1> DEFINE R == {e \in Pairs(ps) : Sooner(b, e[1], e[2])}
<1>5. \A p, q \in ps : <<p, q>> \in R <=> Sooner(b, p, q)
  BY DEF Pairs
<1> HIDE DEF R
<1>6. \A p, q \in ps : Sooner(b, p, q) => ~Sooner(b, q, p)
  BY <1>3 DEF Sooner
<1>7. \A p, q \in ps : p = q \/ Sooner(b, p, q) \/ Sooner(b, q, p)
  BY <1>3, <1>4 DEF Sooner
<1>8. \A p, q, r \in ps : Sooner(b, p, q) /\ Sooner(b, q, r) => Sooner(b, p, r)
  BY <1>3 DEF Sooner
<1>9. Orders(R, ps)
  BY <1>5, <1>6, <1>7, <1>8 DEF Orders
<1> QED
  BY <1>2, <1>3, <1>9 DEF R

(* What is taken after some of the candidates: those of the first m that     *)
(* take room, all of them while more is to be freed.                         *)
TakenOf(s, m) == {s[i] : i \in {j \in 1 .. m : s[j].bytes > 0}}

PlanHolds(b, s, st, k) ==
    /\ st = [targets |-> st.targets, freed |-> Freed(st.targets)]
    /\ st.targets \in Seq(Project) /\ Freed(st.targets) \in Nat
    /\ \E m \in 0 .. k : Range(st.targets) = TakenOf(s, m) /\ (st.freed < b.size - b.budget => m = k)
    /\ st.targets # <<>> => Freed(Front(st.targets)) < b.size - b.budget

(* Front takes off what Append put on. *)
LEMMA FrontOfAppend ==
    ASSUME NEW S, NEW t \in Seq(S), NEW x \in S
    PROVE  Front(Append(t, x)) = t /\ Append(t, x) # <<>>
<1>1. Len(Append(t, x)) = Len(t) + 1 /\ Append(t, x) \in Seq(S) /\ Len(t) \in Nat
  OBVIOUS
<1>2. Front(Append(t, x)) = SubSeq(Append(t, x), 1, Len(t))
  BY <1>1 DEF Front
<1>3. \A i \in 1 .. Len(t) : Append(t, x)[i] = t[i]
  OBVIOUS
<1>4. SubSeq(Append(t, x), 1, Len(t)) = t
  BY <1>1, <1>3
<1> QED
  BY <1>1, <1>2, <1>4

LEMMA PlanGoesOn ==
    ASSUME NEW b, b.size \in Nat, b.budget \in Nat, NEW s \in Seq(Project), NEW h \in Nat, NEW k \in 1 .. Len(s),
           k = h + 1, NEW st, PlanHolds(b, s, st, h)
    PROVE  PlanHolds(b, s, PlanNext(b, st, s[k]), k)
<1> DEFINE need == b.size - b.budget
           p == s[k]
           t == st.targets
<1>0. k \in Nat /\ k >= 1 /\ k - 1 = h /\ h \in 0 .. k - 1 /\ k \in 1 .. Len(s) /\ Len(s) \in Nat
  OBVIOUS
<1>1. p \in Project /\ p.bytes \in Nat /\ need \in Int
  <2>1. s[k] \in Project
    BY <1>0
  <2> QED
    BY <2>1 DEF Project
<1>2. /\ t \in Seq(Project) /\ Freed(t) \in Nat /\ st = [targets |-> t, freed |-> Freed(t)]
      /\ t # <<>> => Freed(Front(t)) < need
  BY DEF PlanHolds
<1>3. PICK m \in 0 .. k - 1 : Range(t) = TakenOf(s, m) /\ (st.freed < need => m = k - 1)
  BY <1>0 DEF PlanHolds
<1>4. st.freed = Freed(t)
  BY <1>2
<1>5. CASE st.freed >= need
  <2>1. PlanNext(b, st, p) = st
    BY <1>5 DEF PlanNext
  <2>2. m \in 0 .. k /\ ~(st.freed < need)
    BY <1>0, <1>1, <1>2, <1>4, <1>5
  <2> HIDE DEF p, t, need
  <2> QED
    BY <1>2, <1>3, <1>4, <2>1, <2>2 DEF PlanHolds, need, t, p
<1>6. CASE st.freed < need /\ p.bytes = 0
  <2>1. PlanNext(b, st, p) = st
    BY <1>6 DEF PlanNext
  <2>2. TakenOf(s, k) = TakenOf(s, k - 1)
    <3>1. \A j \in 1 .. k : j \in 1 .. k - 1 \/ j = k
      BY <1>0
    <3>2. \A j \in 1 .. k - 1 : j \in 1 .. k
      BY <1>0
    <3>3. ~(s[k].bytes > 0)
      BY <1>6
    <3> QED
      BY <3>1, <3>2, <3>3 DEF TakenOf
  <2>3. Range(t) = TakenOf(s, k) /\ k \in 0 .. k
    BY <1>0, <1>3, <1>6, <2>2
  <2> HIDE DEF p, t, need
  <2> QED
    BY <1>2, <1>4, <2>1, <2>3 DEF PlanHolds, need, t, p
<1>7. CASE st.freed < need /\ p.bytes > 0
  <2> DEFINE u == Append(t, p)
  <2>1. PlanNext(b, st, p) = [targets |-> u, freed |-> st.freed + p.bytes]
    BY <1>1, <1>2, <1>4, <1>7 DEF PlanNext
  <2>2. u \in Seq(Project) /\ Freed(u) = Freed(t) + p.bytes /\ Freed(u) \in Nat
    BY <1>1, <1>2, FreedIs
  <2>3. Range(u) = Range(t) \cup {p}
    BY <1>1, <1>2, AppendRange
  <2>4. TakenOf(s, k) = TakenOf(s, k - 1) \cup {p}
    <3>1. \A j \in 1 .. k : j \in 1 .. k - 1 \/ j = k
      BY <1>0
    <3>2. \A j \in 1 .. k - 1 : j \in 1 .. k
      BY <1>0
    <3>3. s[k].bytes > 0 /\ k \in 1 .. k
      BY <1>0, <1>7
    <3> QED
      BY <3>1, <3>2, <3>3 DEF TakenOf
  <2>5. Range(u) = TakenOf(s, k) /\ k \in 0 .. k
    BY <1>0, <1>3, <1>7, <2>3, <2>4
  <2>6. Front(u) = t /\ Freed(t) < need
    BY <1>1, <1>2, <1>4, <1>7, FrontOfAppend
  <2> HIDE DEF p, t, need, u
  <2>7. PlanHolds(b, s, [targets |-> u, freed |-> st.freed + p.bytes], k)
    <3> DEFINE v == [targets |-> u, freed |-> st.freed + p.bytes]
    <3>1. v.targets = u /\ v.freed = Freed(u) /\ v = [targets |-> u, freed |-> Freed(u)]
      BY <1>4, <2>2
    <3>2. \E i \in 0 .. k : Range(u) = TakenOf(s, i) /\ (v.freed < b.size - b.budget => i = k)
      BY <2>5
    <3>3. Freed(Front(u)) < b.size - b.budget
      BY <2>6 DEF need
    <3> HIDE DEF v
    <3> QED
      BY <2>2, <3>1, <3>2, <3>3 DEF PlanHolds, v
  <2> QED
    BY <2>1, <2>7 DEF need, p
<1> QED
  BY <1>1, <1>2, <1>4, <1>5, <1>6, <1>7

(* What plan_eviction ends with when the cache is over its budget. *)
LEMMA PlanIs ==
    ASSUME NEW b, IsCache(b), b.budget > 0, b.size > b.budget
    PROVE  LET s == ByUse(b, {p \in b.projects : p.name \notin b.pinned})
           IN \E st : PlanHolds(b, s, st, Len(s)) /\ plan_eviction(b) = st.targets
<1> DEFINE ps == {p \in b.projects : p.name \notin b.pinned}
           s == ByUse(b, ps)
           base == [targets |-> <<>>, freed |-> 0]
           need == b.size - b.budget
<1>1. b.size \in Nat /\ b.budget \in Nat /\ ps \in SUBSET b.projects
  BY DEF IsCache, Caches
<1>2. IsFiniteSet(ps) /\ ps \subseteq Project /\ Orders({e \in Pairs(ps) : Sooner(b, e[1], e[2])}, ps)
  BY <1>1, UseOrders
<1>3. s \in Seq(ps)
  BY <1>2, SortedIs DEF ByUse
<1>4. s \in Seq(Project) /\ Len(s) \in Nat
  BY <1>2, <1>3
<1> HIDE DEF ps
<1>5. plan_eviction(b) = Plans!Fold(b, base, s).targets
  <2>1. ~(b.budget = 0 \/ b.size <= b.budget)
    BY <1>1
  <2>2. plan_eviction(b) = FoldLeft(LAMBDA acc, p : PlanNext(b, acc, p), base, s).targets
    BY <2>1, Zenon DEF plan_eviction, ps
  <2>3. FoldLeft(LAMBDA acc, p : PlanNext(b, acc, p), base, s) = Plans!Fold(b, base, s)
    BY Zenon DEF FoldLeft, MapThenFoldSet, Max, Plans!Fold, Plans!Greatest
  <2> QED
    BY <2>2, <2>3
<1> HIDE DEF s
<1>6. PICK f : Plans!IsRun(f, b, base, s) /\ Plans!Fold(b, base, s) = f[Len(s)]
  BY <1>4, Plans!FoldRun, NumbersInductive DEF Plans!Inductive
<1> DEFINE done == {k \in 0 .. Len(s) : PlanHolds(b, s, f[k], k)}
<1>7. 0 \in done
  <2>1. f[0] = base /\ 0 \in 0 .. Len(s) /\ 0 \in 0 .. 0
    BY <1>4, <1>6 DEF Plans!IsRun
  <2>2. TakenOf(s, 0) = {} /\ Range(<<>>) = {} /\ <<>> \in Seq(Project)
    BY DEF TakenOf, Range
  <2>3. PlanHolds(b, s, base, 0)
    <3>1. base.targets = <<>> /\ base.freed = 0 /\ Freed(<<>>) = 0 /\ \E m \in 0 .. 0 : m = 0
      BY FreedIs
    <3> HIDE DEF base
    <3>2. base = [targets |-> base.targets, freed |-> Freed(base.targets)]
      BY <3>1 DEF base
    <3> QED
      BY <2>2, <3>1, <3>2 DEF PlanHolds
  <2> QED
    BY <2>1, <2>3
<1>8. ASSUME NEW k \in 0 .. Len(s) - 1, k \in done PROVE k + 1 \in done
  <2>1. k + 1 \in 1 .. Len(s) /\ k + 1 - 1 = k /\ k + 1 \in 0 .. Len(s)
    BY <1>4
  <2>2. f[k + 1] = PlanNext(b, f[k], s[k + 1])
    BY <1>6, <2>1 DEF Plans!IsRun
  <2>3. PlanHolds(b, s, PlanNext(b, f[k], s[k + 1]), k + 1)
    <3>1. k \in Nat /\ k + 1 \in 1 .. Len(s) /\ PlanHolds(b, s, f[k], k)
      BY <1>4, <1>8, <2>1
    <3> QED
      BY <1>1, <1>4, <3>1, PlanGoesOn
  <2> QED
    BY <2>1, <2>2, <2>3
<1> HIDE DEF done
<1>9. Len(s) \in done
  <2>1. \A k \in 0 .. Len(s) : k \in done
    BY <1>4, <1>7, <1>8, UpTo
  <2> QED
    BY <1>4, <2>1
<1>10. PlanHolds(b, s, f[Len(s)], Len(s)) /\ plan_eviction(b) = f[Len(s)].targets
  BY <1>5, <1>6, <1>9 DEF done
<1> QED
  BY <1>10 DEF s, ps

LEMMA EvictionMinimal ==
    ASSUME NEW b, IsCache(b)
    PROVE  EvictionIsMinimal(b)
<1> DEFINE plan == plan_eviction(b)
           gone == Range(plan)
           ps == {p \in b.projects : p.name \notin b.pinned}
           may == {p \in b.projects : p.name \notin b.pinned /\ p.bytes > 0}
           s == ByUse(b, ps)
<1>1. b.size \in Nat /\ b.budget \in Nat /\ ps \in SUBSET b.projects
  BY DEF IsCache, Caches
<1>2. execute_eviction(b, {}) = b.projects \ gone
  BY DEF execute_eviction
<1>3. CASE b.budget = 0 \/ b.size <= b.budget
  <2>1. plan = <<>> /\ gone = {} /\ Freed(plan) = 0
    <3>1. plan = <<>>
      BY <1>3 DEF plan_eviction
    <3>2. Range(<<>>) = {}
      BY DEF Range
    <3> QED
      BY <3>1, <3>2, FreedIs
  <2>2. b.budget > 0 => b.size - Freed(plan) <= b.budget
    BY <1>1, <1>3, <2>1
  <2> HIDE DEF plan, gone
  <2>3. EvictionIsMinimal(b)
    BY <1>2, <2>1, <2>2 DEF EvictionIsMinimal, plan, gone
  <2> QED
    BY <2>3
<1>4. CASE b.budget > 0 /\ b.size > b.budget
  <2>1. PICK st : PlanHolds(b, s, st, Len(s)) /\ plan = st.targets
    BY <1>4, PlanIs
  <2>2. /\ IsFiniteSet(ps) /\ ps \subseteq Project /\ Orders({e \in Pairs(ps) : Sooner(b, e[1], e[2])}, ps)
        /\ \A p \in ps : LastUse(b, p) \in Nat
    BY <1>1, UseOrders
  <2> DEFINE R == {e \in Pairs(ps) : Sooner(b, e[1], e[2])}
  <2>3. /\ s \in Seq(ps)
        /\ \A x \in ps : \E i \in DOMAIN s : s[i] = x
        /\ \A i, j \in DOMAIN s : i < j <=> <<s[i], s[j]>> \in R
    <3>1. s = Sorted(ps, R) /\ IsFiniteSet(ps) /\ Orders(R, ps)
      BY <2>2 DEF ByUse
    <3> HIDE DEF R, s, ps
    <3> QED
      BY <3>1, SortedIs
  <2>4. \A i, j \in DOMAIN s : i < j => LastUse(b, s[i]) <= LastUse(b, s[j])
    <3> TAKE i, j \in DOMAIN s
    <3> HAVE i < j
    <3>1. Sooner(b, s[i], s[j]) /\ s[i] \in ps /\ s[j] \in ps
      <4>1. <<s[i], s[j]>> \in R /\ s \in Seq(ps)
        BY <2>3
      <4> HIDE DEF s
      <4> QED
        BY <4>1
    <3>2. LastUse(b, s[i]) \in Nat /\ LastUse(b, s[j]) \in Nat
      BY <2>2, <3>1
    <3> HIDE DEF s
    <3> QED
      BY <3>1, <3>2 DEF Sooner
  <2> DEFINE n == Len(s)
  <2>5. n \in Nat /\ DOMAIN s = 1 .. n /\ \A i \in 1 .. n : s[i] \in ps
    <3>1. s \in Seq(ps)
      BY <2>3
    <3> HIDE DEF s
    <3> QED
      BY <3>1
  <2> HIDE DEF s, plan, R, n
  <2>6. PICK m \in 0 .. n : gone = TakenOf(s, m) /\ (st.freed < b.size - b.budget => m = n)
    BY <2>1 DEF PlanHolds, n
  <2>7. st.freed = Freed(plan) /\ Freed(plan) \in Nat
        /\ (plan # <<>> => Freed(Front(plan)) < b.size - b.budget) /\ plan \in Seq(Project)
    BY <2>1 DEF PlanHolds
  <2>8. \A i \in 1 .. m : i \in 1 .. n
    BY <2>5
  <2>9. gone \subseteq may
    BY <2>5, <2>6, <2>8 DEF TakenOf
  <2>10. ASSUME NEW p \in gone, NEW q \in may \ gone PROVE LastUse(b, p) <= LastUse(b, q)
    <3>1. PICK i \in 1 .. m : p = s[i]
      BY <2>6 DEF TakenOf
    <3>2. PICK j \in 1 .. n : q = s[j]
      <4>1. q \in ps
        BY DEF ps
      <4> QED
        BY <2>3, <2>5, <4>1
    <3>3. ~(j \in 1 .. m)
      BY <2>6, <3>2 DEF TakenOf
    <3>4. i < j
      BY <2>5, <3>3
    <3> QED
      BY <2>4, <2>5, <2>8, <3>1, <3>2, <3>4
  <2>11. b.size - Freed(plan) <= b.budget \/ gone = may
    <3>1. CASE st.freed < b.size - b.budget
      <4>1. m = n
        BY <2>6, <3>1
      <4>2. \A p \in may : p \in ps /\ p.bytes > 0
        BY DEF ps
      <4>3. \A p \in may : p \in gone
        BY <2>3, <2>5, <2>6, <4>1, <4>2 DEF TakenOf
      <4> QED
        BY <2>9, <4>3
    <3>2. CASE ~(st.freed < b.size - b.budget)
      BY <1>1, <2>7, <3>2
    <3> QED
      BY <3>1, <3>2
  <2>12. plan # <<>> => b.size - Freed(Front(plan)) > b.budget
    <3> HAVE plan # <<>>
    <3>1. Front(plan) = SubSeq(plan, 1, Len(plan) - 1) /\ Len(plan) - 1 \in 0 .. Len(plan)
      BY <2>7 DEF Front
    <3>2. Front(plan) \in Seq(Project)
      BY <2>7, <3>1
    <3>3. Freed(Front(plan)) \in Int
      BY <3>2, FreedCounts
    <3> QED
      BY <1>1, <2>7, <3>3
  <2>13. ~(b.budget = 0 \/ b.size <= b.budget)
    BY <1>1, <1>4
  <2> HIDE DEF gone, may
  <2>14. EvictionIsMinimal(b)
    BY <1>2, <2>9, <2>10, <2>11, <2>12, <2>13 DEF EvictionIsMinimal, plan, gone, may
  <2> QED
    BY <2>14
<1> QED
  BY <1>1, <1>3, <1>4

LEMMA CleansAsAsked ==
    ASSUME NEW b, IsCache(b), NEW args \in Flags
    PROVE  CleanAsAsked(b, args)
<1> DEFINE gone == b.projects \ Cleaned(b, args)
<1>1. \A p \in OverBudget(b) : b.budget > 0 /\ b.size > b.budget
  <2> DEFINE c == [b EXCEPT !.pinned = {}, !.queried = [n \in DOMAIN b.queried |-> 0]]
  <2>1. c.size = b.size /\ c.budget = b.budget /\ b.size \in Nat /\ b.budget \in Nat
    BY DEF IsCache, Caches
  <2> HIDE DEF c
  <2>2. b.budget = 0 \/ b.size <= b.budget => plan_eviction(c) = <<>>
    BY <2>1 DEF plan_eviction
  <2>3. Range(<<>>) = {}
    BY DEF Range
  <2>4. OverBudget(b) = Range(plan_eviction(c))
    BY DEF OverBudget, c
  <2> QED
    BY <2>1, <2>2, <2>3, <2>4
<1>2. ~args.yes \/ ~(Filters(args) \/ args.all) => gone = {}
  BY DEF Cleaned
<1>3. gone \subseteq Proposed(b, args)
  BY DEF Cleaned
<1>4. \A p \in Proposed(b, args) :
        \/ p.session /\ (args.orphans \/ args.all)
        \/ p.missing /\ (args.missing \/ args.all)
        \/ p \in Idle(b, b.max_age) /\ (args.idle \/ args.all)
        \/ args.budget /\ p \in OverBudget(b)
  BY DEF Proposed, Orphans, Missing
<1>5. gone # {} => args.yes /\ (args.all \/ Filters(args))
  BY <1>2
<1>6. \A p \in gone :
        \/ p.session /\ (args.orphans \/ args.all)
        \/ p.missing /\ (args.missing \/ args.all)
        \/ p \in Idle(b, b.max_age) /\ (args.idle \/ args.all)
        \/ args.budget /\ b.budget > 0 /\ b.size > b.budget
  BY <1>1, <1>3, <1>4
<1> HIDE DEF gone
<1> QED
  BY <1>5, <1>6 DEF CleanAsAsked, gone

(* Eviction, for any projects, sizes, budgets and uses: least recently used  *)
(* first, only as many as it takes, and clean removes only what its flags    *)
(* name.                                                                     *)
THEOREM EvictsLeastRecentForAll == AlgSpec => []EvictsLeastRecent
<1>1. call \in Calls \cup {NoCall} => EvictsLeastRecent
  <2> HAVE call \in Calls \cup {NoCall}
  <2>1. call.kind \in {"evict", "clean"} => call \in Evictions
    BY KindsAssumption DEF Calls, NoCall
  <2>2. call.kind = "evict" => EvictionIsMinimal(call.b)
    BY <2>1, EvictionsAssumption, EvictionMinimal
  <2>3. call.kind = "clean" => CleanAsAsked(call.b, call.args)
    BY <2>1, EvictionsAssumption, CleansAsAsked
  <2> QED
    BY <2>2, <2>3 DEF EvictsLeastRecent
<1> QED
  BY <1>1, CallsMade, PTL

-----------------------------------------------------------------------------
(* Configurations *)

LEMMA ReloadsSettle ==
    ASSUME NEW c
    PROVE  ReloadSettles(c)
<1> DEFINE cfg == load_config(c.file, NoEnv).cfg
           N == Names(c.found)
           D == Deny(cfg, c.found)
           once == reconcile(cfg, c.found, c.indexed)
           twice == reconcile(cfg, c.found, once)
<1>1. \A indexed, n :
        n \in reconcile(cfg, c.found, indexed) <=>
          /\ n \notin D
          /\ (n \in indexed /\ n \in N) \/ (n \notin indexed /\ \E d \in c.found : ~d.ignored /\ d.name = n)
  <2> TAKE indexed, n
  <2> HIDE DEF cfg, D
  <2>1. n \in projects_to_add(cfg, c.found, indexed) <=>
          n \notin indexed /\ n \notin D /\ \E d \in c.found : ~d.ignored /\ d.name = n
    BY DEF projects_to_add, D
  <2>2. n \in projects_to_remove(cfg, c.found, indexed) <=> n \in indexed /\ (n \notin N \/ n \in D)
    BY DEF projects_to_remove, D
  <2> QED
    BY <2>1, <2>2 DEF reconcile
<1> HIDE DEF cfg, D
<1>2. \A d \in c.found : d.name \in N
  BY DEF Names
<1>3. \A n : n \in once <=>
        n \notin D /\ ((n \in c.indexed /\ n \in N)
                       \/ (n \notin c.indexed /\ \E d \in c.found : ~d.ignored /\ d.name = n))
  BY <1>1
<1>4. \A n : n \in twice <=>
        n \notin D /\ ((n \in once /\ n \in N)
                       \/ (n \notin once /\ \E d \in c.found : ~d.ignored /\ d.name = n))
  BY <1>1
<1> HIDE DEF once, twice, N
<1>5. once \subseteq N /\ once \cap D = {}
  BY <1>2, <1>3
<1>6. \A d \in c.found : (~d.ignored /\ d.name \notin D) => d.name \in once
  BY <1>2, <1>3
<1>7. \A n : n \in twice <=> n \in once
  BY <1>3, <1>4, <1>5, <1>6
<1>8. twice \subseteq N /\ \A x \in twice \cup once : TRUE
  BY <1>5, <1>7
<1>9. twice = once
  BY <1>7
<1> QED
  BY <1>5, <1>6, <1>9 DEF ReloadSettles, cfg, D, N, once, twice

Fields == DOMAIN default_config

LEMMA FieldsAre ==
    Fields = {"auto_discover", "include", "exclude", "sentinels", "port", "embedder", "chunk_size",
              "chunk_overlap", "relevance_floor", "project_floors", "queue_size", "level"}
  BY DEF Fields, default_config

IsConfig(cfg) == cfg = [f \in Fields |-> cfg[f]]

(* A configuration with the overrides of an environment that has them right. *)
Overridden(cfg, env) == Over([v \in DOMAIN env \cap Overridable |-> Head(env[v])], cfg)

Settable(env) ==
    /\ DOMAIN env \subseteq Overridable \cup Internal
    /\ \A v \in DOMAIN env \cap Overridable : env[v] # <<>>

LEMMA OverriddenIs ==
    ASSUME NEW cfg, IsConfig(cfg), NEW env
    PROVE  /\ IsConfig(Overridden(cfg, env))
           /\ \A f \in Fields : Overridden(cfg, env)[f] =
                IF f \in DOMAIN env \cap Overridable THEN Head(env[f]) ELSE cfg[f]
<1>1. DOMAIN cfg = Fields
  BY DEF IsConfig
<1> QED
  BY <1>1 DEF Overridden, Over, IsConfig

LEMMA NoOverrides ==
    ASSUME NEW cfg, IsConfig(cfg)
    PROVE  Settable(NoEnv) /\ Overridden(cfg, NoEnv) = cfg
<1>1. DOMAIN NoEnv = {}
  BY DEF NoEnv
<1>2. \A r : DOMAIN r = {} => Over(r, cfg) = cfg
  BY DEF Over, IsConfig
<1> QED
  BY <1>1, <1>2 DEF Settable, Overridden

(* A configuration that was written is, when it is read, what it is with the *)
(* overrides.                                                                *)
LEMMA LoadIs ==
    ASSUME NEW cfg, IsConfig(cfg), NEW env, Settable(env)
    PROVE  load_config(write_config(cfg), env)
             = IF _validate(Overridden(cfg, env)) THEN Loaded(Overridden(cfg, env)) ELSE Failed
<1> DEFINE file == write_config(cfg)
           eff == Overridden(cfg, env)
<1>1. Over(cfg, default_config) = cfg
  BY DEF Over, IsConfig, Fields
<1>2. _config_from_dict(file) = Loaded(cfg) /\ file.exists
  BY <1>1 DEF write_config, _config_from_dict
<1>3. _apply_env_overrides(cfg, env) = Loaded(eff)
  BY DEF _apply_env_overrides, Settable, Overridden
<1>4. Loaded(cfg).ok /\ Loaded(cfg).cfg = cfg /\ Loaded(eff).ok /\ Loaded(eff).cfg = eff
  BY DEF Loaded
<1> HIDE DEF file, eff
<1>5. load_config(file, env) = IF _validate(eff) THEN Loaded(eff) ELSE Failed
  BY <1>2, <1>3, <1>4 DEF load_config
<1> QED
  BY <1>5 DEF file, eff

(* What a file says. *)
Written(file) == IF file.exists THEN Over(file.fields, default_config) ELSE default_config

(* What a file that loads gives. *)
LEMMA LoadedIs ==
    ASSUME NEW file, NEW env, load_config(file, env).ok
    PROVE  LET cfg == load_config(file, env).cfg
           IN /\ Settable(env) /\ IsConfig(Written(file))
              /\ IsConfig(cfg) /\ _validate(cfg) /\ cfg = Overridden(Written(file), env)
              /\ load_config(file, env) = Loaded(cfg)
<1> DEFINE base == IF file.exists THEN _config_from_dict(file) ELSE Loaded(default_config)
           raw == Written(file)
           cfg == IF base.ok THEN _apply_env_overrides(base.cfg, env) ELSE Failed
<1>0. ~Failed.ok /\ \A r : Loaded(r).ok /\ Loaded(r).cfg = r
  BY DEF Failed, Loaded
<1>1. load_config(file, env) = IF cfg.ok /\ _validate(cfg.cfg) THEN cfg ELSE Failed
  BY DEF load_config
<1>2. cfg.ok /\ _validate(cfg.cfg) /\ load_config(file, env) = cfg
  BY <1>0, <1>1
<1>3. base.ok
  BY <1>0, <1>2
<1>4. base = Loaded(raw)
  BY <1>0, <1>3 DEF _config_from_dict, Written
<1>5. IsConfig(raw)
  <2>1. \A r : IsConfig(Over(r, default_config))
    BY DEF IsConfig, Over, Fields
  <2>2. IsConfig(default_config)
    BY DEF IsConfig, Fields, default_config
  <2> QED
    BY <2>1, <2>2 DEF Written
<1> HIDE DEF base, raw
<1>6. cfg = _apply_env_overrides(raw, env)
  BY <1>0, <1>3, <1>4
<1> HIDE DEF cfg
<1>7. Settable(env) /\ cfg = Loaded(Overridden(raw, env))
  BY <1>0, <1>2, <1>6 DEF _apply_env_overrides, Settable, Overridden
<1>8. IsConfig(Overridden(raw, env))
  BY <1>5, OverriddenIs
<1> QED
  BY <1>0, <1>2, <1>5, <1>7, <1>8 DEF raw

(* The fields that rules look at and calibrate leaves alone. *)
Rest(x, y) ==
    /\ x.auto_discover = y.auto_discover /\ x.include = y.include /\ x.exclude = y.exclude
    /\ x.sentinels = y.sentinels /\ x.port = y.port /\ x.chunk_size = y.chunk_size
    /\ x.chunk_overlap = y.chunk_overlap /\ x.queue_size = y.queue_size /\ x.level = y.level

LEMMA SameRest ==
    ASSUME NEW x, NEW y, \A f \in Fields : f \notin {"relevance_floor", "project_floors"} => x[f] = y[f]
    PROVE  Rest(x, y)
  BY FieldsAre DEF Rest

LEMMA ValidStill ==
    ASSUME NEW x, NEW y, Rest(x, y), _validate(y), x.relevance_floor \in 0 .. 100,
           \A p \in DOMAIN x.project_floors : x.project_floors[p] \in 0 .. 100
    PROVE  _validate(x)
<1>1. /\ x.auto_discover \/ x.include # {}
      /\ ~(x.auto_discover /\ x.include # {} /\ x.exclude # {})
      /\ x.auto_discover => x.sentinels # {}
  BY Zenon DEF Rest, _validate
<1>2. x.port \in 1 .. MaxPort /\ x.chunk_size > 0 /\ x.chunk_overlap \in 0 .. x.chunk_size - 1
  BY Zenon DEF Rest, _validate
<1>3. x.queue_size > 0 /\ x.level \in {"DEBUG", "INFO", "WARN", "WARNING", "ERROR", "CRITICAL"}
  BY Zenon DEF Rest, _validate
<1> QED
  BY <1>1, <1>2, <1>3, Zenon DEF _validate

LEMMA FloorsValid ==
    ASSUME NEW x, _validate(x)
    PROVE  x.relevance_floor \in 0 .. 100 /\ \A p \in DOMAIN x.project_floors : x.project_floors[p] \in 0 .. 100
  BY Zenon DEF _validate

LEMMA CalibrationKeepsRest ==
    ASSUME NEW c, c.floor \in 0 .. 100,
           "project_floors" \in DOMAIN c.file.fields => "" \notin DOMAIN c.file.fields.project_floors
    PROVE  CalibrateKeepsRest(c)
<1> DEFINE prior == load_config(c.file, c.env)
           file == _persist_floor_to_config(c.file, c.env, c.project, c.floor)
           after == load_config(file, c.env)
           old == prior.cfg
<1> SUFFICES ASSUME prior.ok
             PROVE  /\ after.ok
                    /\ \A f \in {f \in DOMAIN default_config : f \notin {"relevance_floor", "project_floors"}} :
                         after.cfg[f] = old[f]
                    /\ \A p \in DOMAIN old.project_floors : p # c.project =>
                         after.cfg.project_floors[p] = old.project_floors[p]
                    /\ SearchFloor(file, c.env, c.project) = c.floor
                    /\ \A f \in {f \in DOMAIN default_config : f \notin {"relevance_floor", "project_floors"}}
                                \ DOMAIN c.env : file.fields[f] = Written(c.file)[f]
  BY DEF CalibrateKeepsRest, Written
<1> DEFINE raw == Written(c.file)
<1>1. /\ IsConfig(old) /\ _validate(old) /\ prior = Loaded(old) /\ old = Overridden(raw, c.env)
      /\ Settable(c.env) /\ IsConfig(raw)
  BY LoadedIs
<1> DEFINE Change(cfg) ==
             IF c.project = "" THEN [cfg EXCEPT !.relevance_floor = c.floor]
             ELSE [cfg EXCEPT !.project_floors =
                     [p \in DOMAIN cfg.project_floors \cup {c.project} |->
                        IF p = c.project THEN c.floor ELSE cfg.project_floors[p]]]
           base == IF c.file.exists THEN old ELSE raw
           new == Change(old)
<1>2. file = write_config(Change(base))
  <2>1. (IF c.file.exists THEN prior ELSE Loaded(default_config)) = Loaded(base)
    BY <1>1 DEF Written
  <2>2. Loaded(base).ok /\ Loaded(base).cfg = base
    BY DEF Loaded
  <2> HIDE DEF prior, base
  <2> QED
    BY <2>1, <2>2 DEF _persist_floor_to_config, prior
<1> HIDE DEF prior, after, file, raw
<1>21. /\ IsConfig(base)
       /\ \A f \in Fields : old[f] = IF f \in DOMAIN c.env \cap Overridable THEN Head(c.env[f]) ELSE base[f]
       /\ \A f \in Fields : f \notin DOMAIN c.env => base[f] = raw[f]
       /\ \A f \in Fields : old[f] = IF f \in DOMAIN c.env \cap Overridable THEN Head(c.env[f]) ELSE raw[f]
  <2> HIDE DEF old
  <2>1. IsConfig(raw) /\ IsConfig(old) /\ old = Overridden(raw, c.env)
    BY <1>1
  <2>2. \A f \in Fields : Overridden(raw, c.env)[f] =
          IF f \in DOMAIN c.env \cap Overridable THEN Head(c.env[f]) ELSE raw[f]
    BY ONLY <2>1, OverriddenIs
  <2>3. \A f \in Fields : old[f] = IF f \in DOMAIN c.env \cap Overridable THEN Head(c.env[f]) ELSE raw[f]
    BY ONLY <2>1, <2>2
  <2>4. base = old \/ base = raw
    OBVIOUS
  <2> HIDE DEF base
  <2> QED
    BY ONLY <2>1, <2>3, <2>4
<1> HIDE DEF base
<1>22. \A cfg : IsConfig(cfg) =>
         /\ IsConfig(Change(cfg))
         /\ \A f \in Fields : f \notin {"relevance_floor", "project_floors"} => Change(cfg)[f] = cfg[f]
         /\ \A cfg2 : IsConfig(cfg2) /\ cfg2.relevance_floor = cfg.relevance_floor
                        /\ cfg2.project_floors = cfg.project_floors =>
              /\ Change(cfg2).relevance_floor = Change(cfg).relevance_floor
              /\ Change(cfg2).project_floors = Change(cfg).project_floors
  BY FieldsAre DEF IsConfig
<1>23. {"relevance_floor", "project_floors"} \cap Overridable = {} /\ {"relevance_floor", "project_floors"} \subseteq Fields
  BY FieldsAre DEF Overridable
<1>24. Overridden(Change(base), c.env) = new
  <2> HIDE DEF old
  <2>1. old.relevance_floor = base.relevance_floor /\ old.project_floors = base.project_floors
    BY <1>21, <1>23
  <2>2. IsConfig(new) /\ IsConfig(Change(base))
    BY <1>1, <1>21, <1>22
  <2>3. /\ \A f \in Fields : f \notin {"relevance_floor", "project_floors"} =>
             Change(base)[f] = base[f] /\ new[f] = old[f]
        /\ Change(base).relevance_floor = new.relevance_floor
        /\ Change(base).project_floors = new.project_floors
    <3> HIDE DEF Change
    <3>1. IsConfig(base) /\ IsConfig(old)
      BY <1>1, <1>21
    <3>2. \A f \in Fields : f \notin {"relevance_floor", "project_floors"} => Change(base)[f] = base[f]
      BY ONLY <1>22, <3>1
    <3>3. \A f \in Fields : f \notin {"relevance_floor", "project_floors"} => Change(old)[f] = old[f]
      BY ONLY <1>22, <3>1
    <3>4. /\ Change(base).relevance_floor = Change(old).relevance_floor
          /\ Change(base).project_floors = Change(old).project_floors
      BY ONLY <1>22, <2>1, <3>1
    <3> QED
      BY ONLY <3>2, <3>3, <3>4
  <2> DEFINE eff == Overridden(Change(base), c.env)
             chg == Change(base)
  <2>4. IsConfig(eff) /\ \A f \in Fields : eff[f] =
          IF f \in DOMAIN c.env \cap Overridable THEN Head(c.env[f]) ELSE chg[f]
    BY <2>2, OverriddenIs
  <2> HIDE DEF eff, chg, new
  <2>5. \A f \in Fields : eff[f] = new[f]
    <3> TAKE f \in Fields
    <3>1. CASE f \in {"relevance_floor", "project_floors"}
      BY <1>23, <2>3, <2>4, <3>1 DEF chg
    <3>2. CASE f \notin {"relevance_floor", "project_floors"}
      BY <1>21, <2>3, <2>4, <3>2 DEF chg
    <3> QED
      BY <3>1, <3>2
  <2>6. eff = new
    BY <2>2, <2>4, <2>5 DEF IsConfig
  <2> QED
    BY <2>6 DEF eff
<1>25. \A f \in Fields : f \notin {"relevance_floor", "project_floors"} /\ f \notin DOMAIN c.env =>
         file.fields[f] = raw[f]
  <2>1. file.fields = Change(base)
    BY <1>2 DEF write_config
  <2> HIDE DEF Change
  <2>2. \A f \in Fields : f \notin {"relevance_floor", "project_floors"} => Change(base)[f] = base[f]
    BY ONLY <1>21, <1>22
  <2>3. \A f \in Fields : f \notin DOMAIN c.env => base[f] = raw[f]
    BY <1>21
  <2> QED
    BY ONLY <2>1, <2>2, <2>3
<1>26. after = IF _validate(new) THEN Loaded(new) ELSE Failed
  <2>1. IsConfig(Change(base))
    BY <1>21, <1>22
  <2> HIDE DEF Change, new
  <2> QED
    BY <1>1, <1>2, <1>24, <2>1, LoadIs DEF after
<1>3. "" \notin DOMAIN old.project_floors
  <2>1. "project_floors" \in DOMAIN default_config /\ DOMAIN default_config.project_floors = {}
    <3>1. default_config.project_floors = [p \in {} |-> 0]
      BY DEF default_config
    <3> QED
      BY <3>1, FieldsAre DEF Fields
  <2>2. \A r : Over(r, default_config).project_floors =
          IF "project_floors" \in DOMAIN r THEN r.project_floors ELSE default_config.project_floors
    BY <2>1 DEF Over
  <2>3. "" \notin DOMAIN raw.project_floors
    BY <2>1, <2>2 DEF raw, Written
  <2>4. old.project_floors = raw.project_floors
    <3> HIDE DEF old
    <3>1. \A f \in Fields : old[f] = IF f \in DOMAIN c.env \cap Overridable THEN Head(c.env[f]) ELSE raw[f]
      BY <1>21
    <3> QED
      BY ONLY <1>23, <3>1
  <2> QED
    BY <2>3, <2>4
<1> HIDE DEF old
<1>4. IsConfig(new) /\ _validate(new)
  <2>1. CASE c.project = ""
    <3>1. new = [old EXCEPT !.relevance_floor = c.floor]
      BY <2>1
    <3>2. IsConfig(new)
      BY <1>1, <3>1 DEF IsConfig
    <3> HIDE DEF new
    <3>3. DOMAIN old = Fields /\ "relevance_floor" \in Fields
      BY <1>1, FieldsAre DEF IsConfig
    <3>4. new.relevance_floor = c.floor /\ \A f \in Fields : f # "relevance_floor" => new[f] = old[f]
      BY <3>1, <3>3
    <3>5. Rest(new, old) /\ new.project_floors = old.project_floors /\ _validate(old)
      BY <1>1, <3>4, SameRest, FieldsAre
    <3>6. _validate(new)
      BY <3>4, <3>5, ValidStill, FloorsValid
    <3> QED
      BY <3>2, <3>6
  <2>2. CASE c.project # ""
    <3> DEFINE fl == [p \in DOMAIN old.project_floors \cup {c.project} |->
                        IF p = c.project THEN c.floor ELSE old.project_floors[p]]
    <3>1. new = [old EXCEPT !.project_floors = fl]
      BY <2>2
    <3>2. \A p \in DOMAIN fl : fl[p] \in 0 .. 100
      <4>1. \A p \in DOMAIN old.project_floors : old.project_floors[p] \in 0 .. 100
        BY <1>1, FloorsValid
      <4> QED
        BY <4>1
    <3> HIDE DEF fl, new
    <3>3. IsConfig(new)
      BY <1>1, <3>1 DEF IsConfig
    <3>4. DOMAIN old = Fields /\ "project_floors" \in Fields /\ "relevance_floor" \in Fields
      BY <1>1, FieldsAre DEF IsConfig
    <3>5. new.project_floors = fl /\ \A f \in Fields : f # "project_floors" => new[f] = old[f]
      BY <3>1, <3>4
    <3>6. new.relevance_floor = old.relevance_floor
      BY <3>4, <3>5
    <3>7. Rest(new, old) /\ _validate(old)
      BY <1>1, <3>5, SameRest
    <3>8. _validate(new)
      BY <3>2, <3>5, <3>6, <3>7, ValidStill, FloorsValid
    <3> QED
      BY <3>3, <3>8
  <2> QED
    BY <2>1, <2>2
<1>5. after = Loaded(new) /\ Loaded(new).ok /\ Loaded(new).cfg = new
  <2> HIDE DEF new
  <2> QED
    BY <1>4, <1>26 DEF Loaded
<1>6. \A f \in Fields : f \notin {"relevance_floor", "project_floors"} => new[f] = old[f]
  BY <1>1, FieldsAre DEF IsConfig
<1>7. \A p \in DOMAIN old.project_floors : p # c.project => new.project_floors[p] = old.project_floors[p]
  BY <1>1, FieldsAre DEF IsConfig
<1>8. IF c.project \in DOMAIN new.project_floors THEN new.project_floors[c.project] = c.floor
      ELSE new.relevance_floor = c.floor
  BY <1>1, <1>3, FieldsAre DEF IsConfig
<1> HIDE DEF new
<1>9. SearchFloor(file, c.env, c.project) = c.floor
  <2>1. file.exists
    BY <1>2 DEF write_config
  <2> QED
    BY <1>5, <1>8, <2>1 DEF SearchFloor, after
<1> QED
  BY <1>5, <1>6, <1>7, <1>9, <1>25 DEF Fields, raw

AnswerTo(discovered, picked, a) == Answer(discovered, picked, a)

Answers == INSTANCE FoldLemmas WITH Step <- AnswerTo

(* What is picked is on the list, whatever is answered. *)
LEMMA PickedAreListed ==
    ASSUME NEW found, NEW T, NEW picks \in Seq(T), \A i \in DOMAIN picks : picks[i].names \subseteq Names(found)
    PROVE  _interactive_pick_projects(found, picks) \subseteq Names(found)
<1> DEFINE base == {d.name : d \in {e \in found : ~e.ignored}}
           n == Len(picks)
<1>1. _interactive_pick_projects(found, picks) = Answers!Fold(found, base, picks)
  BY Zenon DEF _interactive_pick_projects, AnswerTo, FoldLeft, MapThenFoldSet, Max, Answers!Fold,
    Answers!Greatest
<1>2. base \subseteq Names(found)
  BY DEF Names
<1>3. n \in Nat /\ DOMAIN picks = 1 .. n
  OBVIOUS
<1> HIDE DEF base
<1>4. PICK f : Answers!IsRun(f, found, base, picks) /\ Answers!Fold(found, base, picks) = f[n]
  BY Answers!FoldRun, NumbersInductive DEF Answers!Inductive
<1> HIDE DEF n
<1> DEFINE done == {k \in 0 .. n : f[k] \subseteq Names(found)}
<1>5. 0 \in done
  BY <1>2, <1>3, <1>4 DEF Answers!IsRun
<1>6. ASSUME NEW k \in 0 .. n - 1, k \in done PROVE k + 1 \in done
  <2>1. k + 1 \in 1 .. n /\ k + 1 - 1 = k /\ k + 1 \in 0 .. n
    BY <1>3
  <2>2. f[k + 1] = Answer(found, f[k], picks[k + 1])
    BY <1>4, <2>1 DEF Answers!IsRun, AnswerTo, n
  <2>3. picks[k + 1].names \subseteq Names(found) /\ f[k] \subseteq Names(found)
    BY <1>3, <1>6, <2>1
  <2>4. \A S, a : S \subseteq Names(found) /\ a.names \subseteq Names(found)
                  => Answer(found, S, a) \subseteq Names(found)
    BY DEF Answer
  <2> QED
    BY <2>1, <2>2, <2>3, <2>4
<1> HIDE DEF done
<1>7. \A k \in 0 .. n : k \in done
  BY <1>3, <1>5, <1>6, UpTo
<1>8. f[n] \subseteq Names(found)
  BY <1>3, <1>7 DEF done
<1> QED
  BY <1>1, <1>4, <1>8

LEMMA InitPicked ==
    ASSUME NEW c, NEW T, c.picks \in Seq(T),
           c.found # {} => \A i \in DOMAIN c.picks : c.picks[i].names \subseteq Names(c.found)
    PROVE  InitAsPicked(c)
<1> DEFINE picked == _interactive_pick_projects(c.found, c.picks)
           ignored == {d.name : d \in {e \in c.found : e.ignored}}
           file == _cmd_init(c.args, c.found, c.picks, c.file)
           cfg == load_config(file, NoEnv).cfg
           include == IF c.args.interactive /\ c.found # {} /\ c.args.auto_discover
                      THEN Names(c.found) \ picked ELSE c.args.include
           wanted == [default_config EXCEPT !.auto_discover = c.args.auto_discover, !.include = include]
           refused == (c.file.exists /\ ~c.args.force) \/ (~c.args.auto_discover /\ c.args.include = {})
           quit == c.args.interactive /\ c.found # {} /\ \E i \in DOMAIN c.picks : c.picks[i].kind = "quit"
<1>1. file = IF refused \/ quit \/ ~_validate(wanted) THEN c.file ELSE write_config(wanted)
  <2>1. include = IF (c.args.interactive /\ c.found # {}) /\ c.args.auto_discover
                  THEN Names(c.found) \ picked ELSE c.args.include
    OBVIOUS
  <2> HIDE DEF include, picked
  <2> QED
    BY <2>1 DEF _cmd_init, picked
<1>2. IsConfig(wanted)
  <2>1. default_config = [f \in Fields |-> default_config[f]]
    BY DEF Fields, default_config
  <2> HIDE DEF include
  <2> QED
    BY <2>1 DEF IsConfig
<1>3. wanted.include = include /\ wanted.auto_discover = c.args.auto_discover /\ wanted.exclude = {}
  BY DEF default_config
<1> HIDE DEF wanted
<1>4. (c.file.exists /\ ~c.args.force) => file = c.file
  BY <1>1
<1> HIDE DEF file
<1>5. ASSUME ~c.file.exists, file.exists, c.args.interactive, c.args.auto_discover, c.found # {},
             picked \cap ignored = {}
      PROVE  projects_to_add(cfg, c.found, {}) = picked
  <2>1. file = write_config(wanted) /\ _validate(wanted)
    BY <1>1, <1>5
  <2>2. cfg = wanted
    BY <1>2, <2>1, LoadIs, NoOverrides DEF Loaded
  <2>3. include = Names(c.found) \ picked
    BY <1>5
  <2>4. picked \subseteq Names(c.found)
    BY <1>5, PickedAreListed
  <2> HIDE DEF picked, cfg, include
  <2>5. Deny(cfg, c.found) = Names(c.found) \ picked
    BY <1>3, <1>5, <2>2, <2>3 DEF Deny
  <2>6. projects_to_add(cfg, c.found, {})
        = {d.name : d \in {e \in c.found : ~e.ignored /\ e.name \notin Names(c.found) \ picked}}
    BY <2>5 DEF projects_to_add
  <2>7. \A d \in c.found : d.name \in Names(c.found)
    BY DEF Names
  <2>8. \A x \in Names(c.found) : \E d \in c.found : x = d.name
    BY DEF Names
  <2>9. \A d \in c.found : d.ignored => d.name \in ignored
    OBVIOUS
  <2> HIDE DEF ignored
  <2>10. \A x \in picked : \E d \in c.found : ~d.ignored /\ x = d.name
    BY <1>5, <2>4, <2>8, <2>9
  <2> QED
    BY <2>6, <2>7, <2>10
<1> QED
  BY <1>4, <1>5 DEF InitAsPicked, file, cfg, picked, ignored

-----------------------------------------------------------------------------
(* Packs *)

RunOn(disk, packs, o) == Run(packs, disk, o)
RegisterAuto(x, packs, d) == IF d.under THEN register(packs, d, "", "auto") ELSE packs

Users == INSTANCE FoldLemmas WITH Step <- RunOn
Scans == INSTANCE FoldLemmas WITH Step <- RegisterAuto

Key(d) == ResolvedName(d, "")

Found(d) == d.under /\ Accepted(d, "")

UsedIn(packs, n) == IF n \in DOMAIN packs THEN packs[n].used ELSE 0

(* The entry a scan gives a directory, and which of the first k gives a name *)
(* its entry: the last valid one.                                            *)
Scanned(packs, d, n) ==
    [path |-> d.path, chunks |-> d.chunks, dedup |-> n \in AutoDedup, used |-> UsedIn(packs, n)]

Takes(disk, i, n) == Found(disk[i]) /\ Key(disk[i]) = n

LastFor(disk, i, n, k) ==
    i \in 1 .. k /\ Takes(disk, i, n) /\ \A j \in 1 .. k : i < j => ~Takes(disk, j, n)

ScanHolds(packs, disk, acc, k) ==
    /\ DOMAIN acc = DOMAIN packs \cup {Key(disk[i]) : i \in {j \in 1 .. k : Found(disk[j])}}
    /\ \A n \in DOMAIN acc :
         \/ n \in DOMAIN packs /\ acc[n] = packs[n] /\ \A i \in 1 .. k : ~Takes(disk, i, n)
         \/ \E i \in 1 .. k : LastFor(disk, i, n, k) /\ acc[n] = Scanned(packs, disk[i], n)

LEMMA KeyIsName ==
    ASSUME NEW d \in Directories, NEW n \in STRING
    PROVE  ResolvedName(d, n) \in STRING \ {""} /\ (n # "" => ResolvedName(d, n) = n)
  BY DEF ResolvedName, Directories

LEMMA ScanGoesOn ==
    ASSUME NEW packs, NEW disk \in Seq(Directories), NEW h \in Nat, NEW k \in 1 .. Len(disk), k = h + 1,
           NEW acc, ScanHolds(packs, disk, acc, h)
    PROVE  ScanHolds(packs, disk, RegisterAuto(0, acc, disk[k]), k)
<1> DEFINE d == disk[k]
           new == RegisterAuto(0, acc, d)
<1>0. k \in Nat /\ k = h + 1 /\ k \in 1 .. k /\ Len(disk) \in Nat
  OBVIOUS
<1>1. (\A i \in 1 .. k : i \in 1 .. h \/ i = k) /\ (\A i \in 1 .. h : i \in 1 .. k /\ i < k /\ i # k)
      /\ \A i \in 1 .. h : ~(k < i)
  BY <1>0
<1>2. \A n, i : LastFor(disk, i, n, h) /\ ~Takes(disk, k, n) => LastFor(disk, i, n, k)
  BY <1>1 DEF LastFor
<1>3. CASE ~Found(d)
  <2>1. new = acc
    BY <1>3 DEF RegisterAuto, register, Found
  <2>2. \A n : ~Takes(disk, k, n)
    BY <1>3 DEF Takes
  <2>3. {j \in 1 .. k : Found(disk[j])} = {j \in 1 .. h : Found(disk[j])}
    BY <1>1, <1>3
  <2>4. ASSUME NEW n \in DOMAIN acc
        PROVE  \/ n \in DOMAIN packs /\ acc[n] = packs[n] /\ \A i \in 1 .. k : ~Takes(disk, i, n)
               \/ \E i \in 1 .. k : LastFor(disk, i, n, k) /\ acc[n] = Scanned(packs, disk[i], n)
    BY <1>1, <1>2, <2>2 DEF ScanHolds
  <2> HIDE DEF new, d
  <2>5. DOMAIN acc = DOMAIN packs \cup {Key(disk[i]) : i \in {j \in 1 .. k : Found(disk[j])}}
    BY <2>3 DEF ScanHolds
  <2>6. ScanHolds(packs, disk, acc, k)
    BY <2>4, <2>5 DEF ScanHolds
  <2> QED
    BY <2>1, <2>6 DEF new, d
<1>4. CASE Found(d)
  <2> DEFINE K == Key(d)
             entry == [path |-> d.path, chunks |-> d.chunks, dedup |-> K \in AutoDedup,
                       used |-> IF K \in DOMAIN acc THEN acc[K].used ELSE 0]
  <2>1. new = [n \in DOMAIN acc \cup {K} |-> IF n = K THEN entry ELSE acc[n]]
    BY <1>4 DEF RegisterAuto, register, Key, Found
  <2>2. entry = Scanned(packs, d, K)
    <3>1. (IF K \in DOMAIN acc THEN acc[K].used ELSE 0) = UsedIn(packs, K)
      <4>1. CASE K \in DOMAIN acc
        <5>1. \/ K \in DOMAIN packs /\ acc[K] = packs[K]
              \/ \E i \in 1 .. h : acc[K] = Scanned(packs, disk[i], K)
          BY <4>1 DEF ScanHolds
        <5>2. \A e : Scanned(packs, e, K).used = UsedIn(packs, K)
          BY DEF Scanned
        <5> HIDE DEF K
        <5> QED
          BY <4>1, <5>1, <5>2 DEF UsedIn
      <4>2. CASE K \notin DOMAIN acc
        BY <4>2 DEF ScanHolds, UsedIn
      <4> QED
        BY <4>1, <4>2
    <3> HIDE DEF K
    <3> QED
      BY <3>1 DEF Scanned
  <2>3. Takes(disk, k, K) /\ \A n : n # K => ~Takes(disk, k, n)
    BY <1>4 DEF Takes
  <2>4. LastFor(disk, k, K, k)
    BY <1>0, <1>1, <2>3 DEF LastFor
  <2>5. {Key(disk[i]) : i \in {j \in 1 .. k : Found(disk[j])}}
        = {Key(disk[i]) : i \in {j \in 1 .. h : Found(disk[j])}} \cup {K}
    BY <1>0, <1>1, <1>4
  <2> HIDE DEF K, entry, new
  <2>6. DOMAIN new = DOMAIN packs \cup {Key(disk[i]) : i \in {j \in 1 .. k : Found(disk[j])}}
    BY <2>1, <2>5 DEF ScanHolds
  <2>7. ASSUME NEW n \in DOMAIN new
        PROVE  \/ n \in DOMAIN packs /\ new[n] = packs[n] /\ \A i \in 1 .. k : ~Takes(disk, i, n)
               \/ \E i \in 1 .. k : LastFor(disk, i, n, k) /\ new[n] = Scanned(packs, disk[i], n)
    <3>1. CASE n = K
      BY <1>0, <2>1, <2>2, <2>4, <3>1
    <3>2. CASE n # K
      <4>1. n \in DOMAIN acc /\ new[n] = acc[n] /\ ~Takes(disk, k, n)
        BY <2>1, <2>3, <2>7, <3>2
      <4> QED
        BY <1>1, <1>2, <4>1 DEF ScanHolds
    <3> QED
      BY <3>1, <3>2
  <2>8. ScanHolds(packs, disk, new, k)
    BY <2>6, <2>7 DEF ScanHolds
  <2> QED
    BY <2>8 DEF new
<1> QED
  BY <1>3, <1>4

(* A scan registers each name from the last directory that has it. *)
LEMMA ScanIs ==
    ASSUME NEW packs, NEW disk \in Seq(Directories)
    PROVE  \E acc : ScanHolds(packs, disk, acc, Len(disk)) /\ scan(packs, disk, TRUE, TRUE) = Prune(acc, disk)
<1> DEFINE n == Len(disk)
<1>1. n \in Nat
  OBVIOUS
<1>2. scan(packs, disk, TRUE, TRUE) = Prune(Scans!Fold(0, packs, disk), disk)
  <2>1. FoldLeft(LAMBDA acc, d : IF d.under THEN register(acc, d, "", "auto") ELSE acc, packs, disk) = Scans!Fold(0, packs, disk)
    BY Zenon DEF RegisterAuto, FoldLeft, MapThenFoldSet, Max, Scans!Fold, Scans!Greatest
  <2>2. scan(packs, disk, TRUE, TRUE)
        = Prune(FoldLeft(LAMBDA acc, d : IF d.under THEN register(acc, d, "", "auto") ELSE acc, packs, disk), disk)
    BY Zenon DEF scan
  <2> QED
    BY <2>1, <2>2
<1>3. PICK f : Scans!IsRun(f, 0, packs, disk) /\ Scans!Fold(0, packs, disk) = f[n]
  BY Scans!FoldRun, NumbersInductive DEF Scans!Inductive
<1> HIDE DEF n
<1> DEFINE done == {k \in 0 .. n : ScanHolds(packs, disk, f[k], k)}
<1>4. 0 \in done
  <2>1. f[0] = packs /\ 0 \in 0 .. n /\ 1 .. 0 = {}
    BY <1>1, <1>3 DEF Scans!IsRun
  <2>2. ScanHolds(packs, disk, packs, 0)
    BY <2>1 DEF ScanHolds
  <2> QED
    BY <2>1, <2>2
<1>5. ASSUME NEW k \in 0 .. n - 1, k \in done PROVE k + 1 \in done
  <2>1. k + 1 \in 1 .. Len(disk) /\ k + 1 - 1 = k /\ k + 1 \in 0 .. n /\ k \in Nat
    BY <1>1 DEF n
  <2>2. f[k + 1] = RegisterAuto(0, f[k], disk[k + 1])
    BY <1>3, <2>1 DEF Scans!IsRun
  <2>3. ScanHolds(packs, disk, f[k], k)
    BY <1>5
  <2>4. ScanHolds(packs, disk, RegisterAuto(0, f[k], disk[k + 1]), k + 1)
    BY <2>1, <2>3, ScanGoesOn
  <2> QED
    BY <2>1, <2>2, <2>4
<1> HIDE DEF done
<1>6. \A k \in 0 .. n : k \in done
  BY <1>1, <1>4, <1>5, UpTo
<1>7. ScanHolds(packs, disk, f[n], n)
  BY <1>1, <1>6 DEF done
<1> QED
  BY <1>2, <1>3, <1>7 DEF n

(* No command registers a pack without a name. *)
LEMMA PacksAreNamed ==
    ASSUME NEW disk \in Seq(Directories), NEW ops \in Seq(Commands)
    PROVE  "" \notin DOMAIN FoldLeft(LAMBDA packs, o : Run(packs, disk, o), NoPacks, ops)
<1> DEFINE n == Len(ops)
<1>1. n \in Nat /\ \A i \in 1 .. n : ops[i] \in Commands
  OBVIOUS
<1>2. FoldLeft(LAMBDA packs, o : Run(packs, disk, o), NoPacks, ops) = Users!Fold(disk, NoPacks, ops)
  BY Zenon DEF RunOn, FoldLeft, MapThenFoldSet, Max, Users!Fold, Users!Greatest
<1>3. PICK f : Users!IsRun(f, disk, NoPacks, ops) /\ Users!Fold(disk, NoPacks, ops) = f[n]
  BY Users!FoldRun, NumbersInductive DEF Users!Inductive
<1> HIDE DEF n
<1> DEFINE done == {k \in 0 .. n : "" \notin DOMAIN f[k]}
<1>4. 0 \in done
  <2>1. f[0] = NoPacks /\ 0 \in 0 .. n
    BY <1>1, <1>3 DEF Users!IsRun
  <2>2. DOMAIN NoPacks = {}
    BY DEF NoPacks
  <2> QED
    BY <2>1, <2>2
<1>5. \A packs, d, name, dedup :
        "" \notin DOMAIN packs /\ ResolvedName(d, name) # "" => "" \notin DOMAIN register(packs, d, name, dedup)
  BY DEF register
<1>6. ASSUME NEW packs, "" \notin DOMAIN packs, NEW o \in Commands
      PROVE  "" \notin DOMAIN Run(packs, disk, o)
  <2>0. o.name \in STRING /\ o.op \in {"register", "unregister", "mark_used", "refresh"}
    BY DEF Commands
  <2>1. CASE o.op = "register"
    <3>1. o.dir \in Directories
      BY <2>1 DEF Commands
    <3>2. ResolvedName(o.dir, o.name) # ""
      BY <2>0, <3>1, KeyIsName
    <3> QED
      BY <1>5, <1>6, <2>1, <3>2 DEF Run
  <2>2. CASE o.op = "unregister"
    BY <1>6, <2>2 DEF Run, unregister
  <2>3. CASE o.op = "mark_used"
    BY <1>6, <2>3 DEF Run, mark_used
  <2>4. CASE o.op = "refresh"
    <3> DEFINE at == Among(disk, {d \in Range(disk) : o.name \in DOMAIN packs /\ d.path = packs[o.name].path})
    <3>1. Run(packs, disk, o) = refresh(packs, disk, o.name)
      BY <2>4 DEF Run
    <3>2. at \in Seq(Directories)
      BY AmongFinds
    <3>3. CASE at = <<>>
      BY <1>6, <3>1, <3>3 DEF refresh
    <3>4. CASE at # <<>>
      <4>1. at[1] \in Directories
        BY <3>2, <3>4
      <4>2. ResolvedName(at[1], o.name) # ""
        BY <2>0, <4>1, KeyIsName
      <4>3. refresh(packs, disk, o.name)
            = register(packs, at[1], o.name, IF packs[o.name].dedup THEN "yes" ELSE "no")
        BY <3>4 DEF refresh
      <4> HIDE DEF at
      <4> QED
        BY <1>5, <1>6, <3>1, <4>2, <4>3
    <3> QED
      BY <3>3, <3>4
  <2> QED
    BY <2>0, <2>1, <2>2, <2>3, <2>4
<1>7. ASSUME NEW k \in 0 .. n - 1, k \in done PROVE k + 1 \in done
  <2>1. k + 1 \in 1 .. n /\ k + 1 - 1 = k /\ k + 1 \in 0 .. n
    BY <1>1
  <2>2. f[k + 1] = Run(f[k], disk, ops[k + 1])
    BY <1>3, <2>1 DEF Users!IsRun, RunOn, n
  <2>3. ops[k + 1] \in Commands /\ "" \notin DOMAIN f[k]
    BY <1>1, <1>7, <2>1
  <2> QED
    BY <1>6, <2>1, <2>2, <2>3
<1> HIDE DEF done
<1>8. \A k \in 0 .. n : k \in done
  BY <1>1, <1>4, <1>7, UpTo
<1>9. "" \notin DOMAIN f[n]
  <2>1. n \in 0 .. n
    BY <1>1
  <2>2. n \in done
    BY <1>8, <2>1
  <2> QED
    BY <2>2 DEF done
<1> QED
  BY <1>2, <1>3, <1>9

(* What a pruned scan leaves: each entry is as the last valid directory of   *)
(* its name has it, or, when there is none, as it was.                       *)
SettledAs(prior, disk, packs) ==
    /\ \A n \in DOMAIN prior :
         (\A i \in 1 .. Len(disk) : ~Takes(disk, i, n)) /\ (\E d \in Range(disk) : d.path = prior[n].path)
           => n \in DOMAIN packs /\ packs[n] = prior[n]
    /\ \A n \in DOMAIN packs : \E d \in Range(disk) : d.path = packs[n].path
    /\ \A d \in Range(disk) : Found(d) => Key(d) \in DOMAIN packs
    /\ \A n \in DOMAIN packs : packs[n].used = IF n \in DOMAIN prior THEN prior[n].used ELSE 0
    /\ \A n \in DOMAIN packs : n \in DOMAIN prior \/ \E d \in Range(disk) : n = Key(d)
    /\ \A n \in DOMAIN packs, i \in 1 .. Len(disk) :
         LastFor(disk, i, n, Len(disk)) => packs[n] = Scanned(prior, disk[i], n)
    /\ \A n \in DOMAIN packs, i \in 1 .. Len(disk) : Takes(disk, i, n) =>
         \E j \in 1 .. Len(disk) : LastFor(disk, j, n, Len(disk))

LEMMA Settled ==
    ASSUME NEW prior, NEW disk \in Seq(Directories), NEW acc, ScanHolds(prior, disk, acc, Len(disk)),
           NEW packs, packs = Prune(acc, disk)
    PROVE  SettledAs(prior, disk, packs)
<1> DEFINE k == Len(disk)
<1>1. k \in Nat /\ DOMAIN disk = 1 .. k /\ Range(disk) = {disk[i] : i \in 1 .. k}
  BY DEF Range
<1>2. /\ DOMAIN packs = {n \in DOMAIN acc : \E i \in 1 .. k : acc[n].path = disk[i].path}
      /\ \A n \in DOMAIN packs : packs[n] = acc[n]
  BY <1>1 DEF Prune
<1>3. /\ DOMAIN acc = DOMAIN prior \cup {Key(disk[i]) : i \in {j \in 1 .. k : Found(disk[j])}}
      /\ \A n \in DOMAIN acc :
           \/ n \in DOMAIN prior /\ acc[n] = prior[n] /\ \A i \in 1 .. k : ~Takes(disk, i, n)
           \/ \E i \in 1 .. k : LastFor(disk, i, n, k) /\ acc[n] = Scanned(prior, disk[i], n)
  BY DEF ScanHolds
<1>4. \A d, n : Scanned(prior, d, n).path = d.path /\ Scanned(prior, d, n).used = UsedIn(prior, n)
  BY DEF Scanned
<1>5. \A n, i, j : LastFor(disk, i, n, k) /\ LastFor(disk, j, n, k) => i = j
  <2>1. \A i, j \in 1 .. k : i < j \/ j < i \/ i = j
    BY <1>1
  <2> QED
    BY <2>1 DEF LastFor
<1> HIDE DEF k
<1>6. \A n \in DOMAIN packs : \E d \in Range(disk) : d.path = packs[n].path
  BY <1>1, <1>2
<1>7. ASSUME NEW d \in Range(disk), Found(d) PROVE Key(d) \in DOMAIN packs
  <2>1. PICK i \in 1 .. k : disk[i] = d
    BY <1>1
  <2>2. Takes(disk, i, Key(d)) /\ Key(d) \in DOMAIN acc
    BY <1>3, <1>7, <2>1 DEF Takes
  <2>3. PICK j \in 1 .. k : LastFor(disk, j, Key(d), k) /\ acc[Key(d)] = Scanned(prior, disk[j], Key(d))
    BY <1>3, <2>2
  <2>4. acc[Key(d)].path = disk[j].path
    BY <1>4, <2>3
  <2> QED
    BY <1>2, <2>2, <2>4
<1>8. ASSUME NEW n \in DOMAIN packs
      PROVE  packs[n].used = IF n \in DOMAIN prior THEN prior[n].used ELSE 0
  BY <1>2, <1>3, <1>4 DEF UsedIn
<1>9. ASSUME NEW n \in DOMAIN packs
      PROVE  n \in DOMAIN prior \/ \E d \in Range(disk) : n = Key(d)
  BY <1>1, <1>2, <1>3
<1>10. ASSUME NEW n \in DOMAIN packs, NEW i \in 1 .. k, LastFor(disk, i, n, k)
       PROVE  packs[n] = Scanned(prior, disk[i], n)
  <2>1. n \in DOMAIN acc /\ packs[n] = acc[n] /\ Takes(disk, i, n)
    BY <1>2, <1>10 DEF LastFor
  <2>2. PICK j \in 1 .. k : LastFor(disk, j, n, k) /\ acc[n] = Scanned(prior, disk[j], n)
    BY <1>3, <2>1
  <2> QED
    BY <1>5, <1>10, <2>1, <2>2
<1>11. ASSUME NEW n \in DOMAIN packs, NEW i \in 1 .. k, Takes(disk, i, n)
       PROVE  \E j \in 1 .. k : LastFor(disk, j, n, k)
  BY <1>2, <1>3, <1>11
<1>12. ASSUME NEW n \in DOMAIN prior, \A i \in 1 .. k : ~Takes(disk, i, n),
              NEW d \in Range(disk), d.path = prior[n].path
       PROVE  n \in DOMAIN packs /\ packs[n] = prior[n]
  <2>1. n \in DOMAIN acc /\ acc[n] = prior[n]
    BY <1>3, <1>12 DEF LastFor
  <2> QED
    BY <1>1, <1>2, <1>12, <2>1
<1> QED
  BY <1>6, <1>7, <1>8, <1>9, <1>10, <1>11, <1>12 DEF k, SettledAs

LEMMA ScanSettled ==
    ASSUME NEW c, c.disk \in Seq(Directories), c.ops \in Seq(Commands)
    PROVE  ScanSettles(c)
<1>a. CASE ~c.root
  BY <1>a DEF ScanSettles, scan
<1>b. ASSUME c.root PROVE ScanSettles(c)
  <2> DEFINE disk == c.disk
             prior == FoldLeft(LAMBDA packs, o : Run(packs, c.disk, o), NoPacks, c.ops)
             packs == scan(prior, disk, c.root, TRUE)
             found == {d \in Range(disk) : d.under /\ Accepted(d, "")}
             named(n) == {d \in found : ResolvedName(d, "") = n}
  <2>0. disk \in Seq(Directories) /\ Len(disk) \in Nat /\ DOMAIN disk = 1 .. Len(disk)
        /\ Range(disk) = {disk[i] : i \in 1 .. Len(disk)} /\ Range(disk) \subseteq Directories
    BY DEF Range
  <2>1. "" \notin DOMAIN prior
    BY PacksAreNamed
  <2> HIDE DEF prior
  <2>1a. packs = scan(prior, disk, TRUE, TRUE)
    BY <1>b, Zenon DEF scan
  <2>2. PICK acc : ScanHolds(prior, disk, acc, Len(disk)) /\ packs = Prune(acc, disk)
    BY <2>0, <2>1a, ScanIs
  <2>3. PICK again : ScanHolds(packs, disk, again, Len(disk)) /\ scan(packs, disk, TRUE, TRUE) = Prune(again, disk)
    BY <2>0, ScanIs
  <2> HIDE DEF packs, disk
  <2>3a. SettledAs(prior, disk, packs)
    BY <2>0, <2>2, Settled
  <2>4. /\ \A n \in DOMAIN packs : \E d \in Range(disk) : d.path = packs[n].path
        /\ \A d \in Range(disk) : Found(d) => Key(d) \in DOMAIN packs
        /\ \A n \in DOMAIN packs : packs[n].used = IF n \in DOMAIN prior THEN prior[n].used ELSE 0
        /\ \A n \in DOMAIN packs : n \in DOMAIN prior \/ \E d \in Range(disk) : n = Key(d)
        /\ \A n \in DOMAIN packs, i \in 1 .. Len(disk) :
             LastFor(disk, i, n, Len(disk)) => packs[n] = Scanned(prior, disk[i], n)
        /\ \A n \in DOMAIN packs, i \in 1 .. Len(disk) : Takes(disk, i, n) =>
             \E j \in 1 .. Len(disk) : LastFor(disk, j, n, Len(disk))
        /\ \A n \in DOMAIN prior :
             (\A i \in 1 .. Len(disk) : ~Takes(disk, i, n)) /\ (\E d \in Range(disk) : d.path = prior[n].path)
               => n \in DOMAIN packs /\ packs[n] = prior[n]
    BY <2>3a DEF SettledAs
  <2>5. ASSUME NEW d \in found
        PROVE  LET n == ResolvedName(d, "")
               IN /\ n \in DOMAIN packs
                  /\ named(n) = {d} => packs[n].path = d.path /\ packs[n].chunks = d.chunks
    <3> DEFINE n == Key(d)
    <3>1. n = ResolvedName(d, "")
      BY DEF Key
    <3>2. PICK i \in 1 .. Len(disk) : disk[i] = d /\ Takes(disk, i, n)
      BY <2>0 DEF Takes, Found
    <3>3. n \in DOMAIN packs
      BY <2>4 DEF Found
    <3>4. PICK j \in 1 .. Len(disk) : LastFor(disk, j, n, Len(disk))
      BY <2>4, <3>2, <3>3
    <3>5. packs[n] = Scanned(prior, disk[j], n) /\ Found(disk[j]) /\ Key(disk[j]) = n
      BY <2>4, <3>3, <3>4 DEF LastFor, Takes
    <3>6. disk[j] \in named(n)
      BY <2>0, <3>5 DEF Key, Found
    <3>7. packs[n].path = disk[j].path /\ packs[n].chunks = disk[j].chunks
      <4> HIDE DEF n
      <4>1. Scanned(prior, disk[j], n).path = disk[j].path /\ Scanned(prior, disk[j], n).chunks = disk[j].chunks
        BY DEF Scanned
      <4> QED
        BY ONLY <3>5, <4>1
    <3> HIDE DEF n
    <3>8. named(n) = {d} => disk[j] = d
      BY <3>6
    <3> QED
      BY <3>1, <3>3, <3>7, <3>8
  <2>6. scan(packs, disk, TRUE, TRUE) = packs
    <3>1. DOMAIN again = DOMAIN packs
      <4>1. DOMAIN again
            = DOMAIN packs \cup {Key(disk[i]) : i \in {j \in 1 .. Len(disk) : Found(disk[j])}}
        BY <2>3 DEF ScanHolds
      <4>2. \A j \in 1 .. Len(disk) : Found(disk[j]) => Key(disk[j]) \in DOMAIN packs
        BY <2>0, <2>4
      <4> QED
        BY <4>1, <4>2
    <3>2. ASSUME NEW n \in DOMAIN packs PROVE again[n] = packs[n]
      <4>1. CASE again[n] = packs[n]
        BY <4>1
      <4>2. CASE \E i \in 1 .. Len(disk) : LastFor(disk, i, n, Len(disk)) /\ again[n] = Scanned(packs, disk[i], n)
        <5>1. PICK i \in 1 .. Len(disk) : LastFor(disk, i, n, Len(disk)) /\ again[n] = Scanned(packs, disk[i], n)
          BY <4>2
        <5>2. packs[n] = Scanned(prior, disk[i], n)
          BY <2>4, <5>1
        <5>3. packs[n].used = UsedIn(prior, n)
          BY <5>2 DEF Scanned
        <5>4. UsedIn(packs, n) = UsedIn(prior, n)
          BY <5>3, <3>2 DEF UsedIn
        <5> QED
          BY <5>1, <5>2, <5>4 DEF Scanned
      <4> QED
        BY <2>3, <3>1, <3>2, <4>1, <4>2 DEF ScanHolds
    <3>3. Prune(again, disk) = [n \in {m \in DOMAIN packs : \E i \in 1 .. Len(disk) : packs[m].path = disk[i].path} |-> packs[n]]
      <4>1. {m \in DOMAIN again : again[m].path \in {disk[i].path : i \in DOMAIN disk}}
            = {m \in DOMAIN packs : \E i \in 1 .. Len(disk) : packs[m].path = disk[i].path}
        BY <2>0, <3>1, <3>2
      <4> QED
        BY <3>1, <3>2, <4>1 DEF Prune
    <3>4. {m \in DOMAIN packs : \E i \in 1 .. Len(disk) : packs[m].path = disk[i].path} = DOMAIN packs
      <4>1. \A m \in DOMAIN packs : \E d \in Range(disk) : d.path = packs[m].path
        BY <2>4
      <4> QED
        BY <2>0, <4>1
    <3>5. packs = [n \in DOMAIN packs |-> packs[n]]
      BY <2>2 DEF Prune
    <3> QED
      BY <2>3, <3>3, <3>4, <3>5
  <2>7. \A n \in DOMAIN packs \cap DOMAIN prior : packs[n].used = prior[n].used
    BY <2>4
  <2>8. ASSUME NEW n \in DOMAIN packs PROVE refresh(packs, disk, n)[n].path = packs[n].path
    <3>1. n # ""
      <4>1. \A d \in Range(disk) : Key(d) # ""
        BY <2>0 DEF Key, ResolvedName, Directories
      <4> QED
        BY <2>1, <2>4, <4>1
    <3> DEFINE S == {d \in Range(disk) : n \in DOMAIN packs /\ d.path = packs[n].path}
               at == Among(disk, S)
    <3>2. Range(disk) \cap S # {}
      BY <2>4
    <3>3. at # <<>> /\ at[1] \in S
      BY <2>0, <3>2, AmongFinds
    <3>4. at[1].path = packs[n].path /\ ResolvedName(at[1], n) = n
      BY <3>1, <3>3 DEF ResolvedName
    <3>5. refresh(packs, disk, n) = register(packs, at[1], n, IF packs[n].dedup THEN "yes" ELSE "no")
      BY <3>3 DEF refresh
    <3> HIDE DEF at, S
    <3> QED
      BY <3>4, <3>5 DEF register
  <2>9. ASSUME NEW n \in DOMAIN prior, named(n) = {}, \E d \in Range(disk) : d.path = prior[n].path
        PROVE  n \in DOMAIN packs /\ packs[n] = prior[n]
    <3>1. \A i \in 1 .. Len(disk) : ~Takes(disk, i, n)
      BY <2>0, <2>9 DEF Takes, Found, Key
    <3> QED
      BY <2>4, <2>9, <3>1
  <2> QED
    BY <1>b, <2>4, <2>5, <2>6, <2>7, <2>8, <2>9 DEF ScanSettles, packs, prior, disk
<1> QED
  BY <1>a, <1>b

(* Whatever the configurations, the projects found, the picks, the packs on  *)
(* disk and the commands are, they settle on what is there and asked for.    *)
THEOREM SettlesOnDiskForAll == AlgSpec => []SettlesOnDisk
<1>1. call \in Calls \cup {NoCall} => SettlesOnDisk
  <2> HAVE call \in Calls \cup {NoCall}
  <2>1. /\ call.kind \in {"load", "reload", "init"} => call \in Configurations
        /\ call.kind = "packs" => call \in PackScans
    BY KindsAssumption DEF Calls, NoCall
  <2>2. call.kind = "reload" => ReloadSettles(call)
    BY ReloadsSettle
  <2>3. call.kind = "load" => CalibrateKeepsRest(call)
    BY <2>1, ConfigurationsAssumption, CalibrationKeepsRest
  <2>4. call.kind = "init" => InitAsPicked(call)
    BY <2>1, ConfigurationsAssumption, InitPicked
  <2>5. call.kind = "packs" => ScanSettles(call)
    BY <2>1, PackScansAssumption, ScanSettled
  <2> QED
    BY <2>2, <2>3, <2>4, <2>5 DEF SettlesOnDisk
<1> QED
  BY <1>1, CallsMade, PTL

-----------------------------------------------------------------------------
(* Searches: the fusion of rankings *)

TimesRank(x, product, n) == product * (RrfK + n)
AddScore(id, sum, e) == IF e.id = id THEN sum + _rrf_score(e.rank) ELSE sum
AddRanking(id, sum, ranking) == sum + ScoreIn(ranking, id)

Products == INSTANCE FoldLemmas WITH Step <- TimesRank
Scores == INSTANCE FoldLemmas WITH Step <- AddScore
Totals == INSTANCE FoldLemmas WITH Step <- AddRanking

(* Scale is a multiple of every denominator. *)
LEMMA ScaleDivides ==
    \A r \in 1 .. TopN : \E q \in Nat \ {0} : Scale = (RrfK + r) * q
<1> DEFINE s == [n \in 1 .. TopN |-> n]
           n == TopN
<1>0. RrfK \in Nat /\ n \in Nat
  BY PipelineAssumption
<1>1. s \in Seq(Nat) /\ Len(s) = n /\ \A k \in 1 .. n : s[k] = k
  BY <1>0
<1>2. Scale = Products!Fold(0, 1, s)
  BY Zenon DEF Scale, TimesRank, FoldLeft, MapThenFoldSet, Max, Products!Fold, Products!Greatest
<1> HIDE DEF s
<1>3. PICK f : Products!IsRun(f, 0, 1, s) /\ Products!Fold(0, 1, s) = f[n]
  BY <1>1, Products!FoldRun, NumbersInductive DEF Products!Inductive
<1> HIDE DEF n
<1> DEFINE done == {k \in 0 .. n : /\ f[k] \in Nat \ {0}
                                   /\ \A r \in 1 .. k : \E q \in Nat \ {0} : f[k] = (RrfK + r) * q}
<1>4. 0 \in done
  <2>1. f[0] = 1 /\ 0 \in 0 .. n /\ 1 .. 0 = {}
    BY <1>0, <1>3 DEF Products!IsRun
  <2> QED
    BY <2>1
<1>5. ASSUME NEW k \in 0 .. n - 1, k \in done PROVE k + 1 \in done
  <2>0. k + 1 \in 1 .. n /\ k + 1 - 1 = k /\ k + 1 \in 0 .. n /\ k \in Nat
    BY <1>0
  <2>1. f[k + 1] = f[k] * (RrfK + (k + 1))
    BY <1>1, <1>3, <2>0 DEF Products!IsRun, TimesRank
  <2> DEFINE m == RrfK + (k + 1)
  <2>2. m \in Nat \ {0} /\ f[k] \in Nat \ {0}
    BY <1>0, <1>5, <2>0
  <2>3. f[k + 1] = f[k] * m
    BY <2>1
  <2> HIDE DEF m
  <2>4. f[k + 1] \in Nat \ {0}
    BY <2>2, <2>3, Positive
  <2>5. ASSUME NEW r \in 1 .. k + 1 PROVE \E q \in Nat \ {0} : f[k + 1] = (RrfK + r) * q
    <3>1. CASE r = k + 1
      <4>1. f[k + 1] = m * f[k]
        BY <2>2, <2>3, Regroup
      <4> QED
        BY <2>2, <3>1, <4>1 DEF m
    <3>2. CASE r # k + 1
      <4>1. r \in 1 .. k /\ RrfK + r \in Nat
        BY <1>0, <2>0, <3>2
      <4>2. PICK q \in Nat \ {0} : f[k] = (RrfK + r) * q
        BY <1>5, <4>1
      <4>3. f[k + 1] = (RrfK + r) * (q * m)
        BY <2>2, <2>3, <4>1, <4>2, Regroup
      <4>4. q * m \in Nat \ {0}
        BY <2>2, Positive
      <4> QED
        BY <4>3, <4>4
    <3> QED
      BY <3>1, <3>2
  <2> QED
    BY <2>0, <2>4, <2>5
<1> HIDE DEF done
<1>6. \A k \in 0 .. n : k \in done
  BY <1>0, <1>4, <1>5, UpTo
<1>7. n \in done
  BY <1>0, <1>6
<1> QED
  BY <1>2, <1>3, <1>7 DEF done, n

(* A better rank scores more. *)
LEMMA BetterRank ==
    ASSUME NEW r \in 1 .. TopN
    PROVE  /\ _rrf_score(r) \in Nat \ {0}
           /\ \A p \in 1 .. TopN : p < r => _rrf_score(p) > _rrf_score(r)
<1>0. RrfK \in Nat /\ TopN \in Nat
  BY PipelineAssumption
<1>1. ASSUME NEW p \in 1 .. TopN
      PROVE  _rrf_score(p) \in Nat \ {0} /\ Scale = (RrfK + p) * _rrf_score(p)
  <2>1. PICK q \in Nat \ {0} : Scale = (RrfK + p) * q
    BY ScaleDivides
  <2>2. RrfK + p \in Nat \ {0}
    BY <1>0
  <2>3. Scale \div (RrfK + p) = q
    BY <2>1, <2>2, Quotient
  <2> QED
    BY <2>1, <2>3 DEF _rrf_score
<1>2. ASSUME NEW p \in 1 .. TopN, p < r PROVE _rrf_score(p) > _rrf_score(r)
  <2> DEFINE a == _rrf_score(p)
             b == _rrf_score(r)
  <2>1. a \in Nat \ {0} /\ b \in Nat \ {0} /\ (RrfK + p) * a = (RrfK + r) * b
    BY <1>1
  <2> HIDE DEF a, b
  <2>2. ASSUME a <= b PROVE FALSE
    <3> DEFINE u == RrfK + p
               v == RrfK + r
    <3>1. u \in Nat /\ v \in Nat /\ u + 1 <= v
      BY <1>0, <1>2
    <3>2. u * a = v * b
      BY <2>1
    <3> HIDE DEF u, v
    <3> DEFINE x == u * a
               y == u * b
               z == v * b
    <3>3. x <= y /\ (u + 1) * b <= z /\ x \in Nat /\ y \in Nat /\ z \in Nat
      BY <2>1, <2>2, <3>1, TimesMono
    <3>4. (u + 1) * b = y + b
      BY <2>1, <3>1
    <3>5. x = z
      BY <3>2
    <3> HIDE DEF x, y, z
    <3> QED
      BY <2>1, <3>3, <3>4, <3>5
  <2> QED
    BY <2>1, <2>2 DEF a, b
<1> QED
  BY <1>1, <1>2

(* The position of an entry that is listed once. *)
LEMMA AtIs ==
    ASSUME NEW s, NEW i, i \in Range(s)
    PROVE  At(s, i) \in DOMAIN s /\ s[At(s, i)] = i
  BY DEF At, Range

(* What a ranking gives a chunk is the score of its position, or nothing. *)
LEMMA ScoreOf ==
    ASSUME NEW s \in Rankings, NEW i
    PROVE  ScoreIn(s, i) = IF i \in Range(s) THEN _rrf_score(At(s, i)) ELSE 0
<1> DEFINE e == Enumerated(s)
           n == Len(s)
           score(k) == IF i \in {s[r] : r \in 1 .. k} THEN _rrf_score(At(s, i)) ELSE 0
<1>0. /\ n \in Nat /\ n <= TopN /\ DOMAIN s = 1 .. n /\ Range(s) = {s[r] : r \in 1 .. n}
      /\ \A k, m \in 1 .. n : s[k] = s[m] => k = m
  BY DEF Rankings, Range
<1>1. /\ e \in Seq([rank : 1 .. n, id : Ids]) /\ Len(e) = n
      /\ \A k \in 1 .. n : e[k].rank = k /\ e[k].id = s[k]
  <2>1. s \in Seq(Ids)
    BY DEF Rankings
  <2>2. e = [r \in 1 .. n |-> [rank |-> r, id |-> s[r]]]
    BY <1>0 DEF Enumerated
  <2>3. \A r \in 1 .. n : [rank |-> r, id |-> s[r]] \in [rank : 1 .. n, id : Ids]
    BY <1>0, <2>1
  <2> HIDE DEF e, n
  <2> QED
    BY <1>0, <2>2, <2>3
<1>2. ScoreIn(s, i) = Scores!Fold(i, 0, e)
  BY Zenon DEF ScoreIn, AddScore, FoldLeft, MapThenFoldSet, Max, Scores!Fold, Scores!Greatest
<1> HIDE DEF e
<1>3. PICK f : Scores!IsRun(f, i, 0, e) /\ Scores!Fold(i, 0, e) = f[n]
  BY <1>1, Scores!FoldRun, NumbersInductive DEF Scores!Inductive
<1> DEFINE done == {k \in 0 .. n : f[k] = score(k)}
<1>4. 0 \in done
  <2>1. f[0] = 0 /\ 0 \in 0 .. n /\ 1 .. 0 = {}
    BY <1>0, <1>3 DEF Scores!IsRun
  <2> QED
    BY <2>1
<1> HIDE DEF n
<1>5. ASSUME NEW k \in 0 .. n - 1, k \in done PROVE k + 1 \in done
  <2>0. k + 1 \in 1 .. n /\ k + 1 - 1 = k /\ k + 1 \in 0 .. n /\ k \in Nat /\ n = Len(e)
    BY <1>0, <1>1
  <2>1. f[k + 1] = IF s[k + 1] = i THEN f[k] + _rrf_score(k + 1) ELSE f[k]
    <3>1. f[k + 1] = AddScore(i, f[k], e[k + 1])
      BY <1>3, <2>0 DEF Scores!IsRun
    <3>2. e[k + 1].id = s[k + 1] /\ e[k + 1].rank = k + 1
      BY <1>1, <2>0
    <3> QED
      BY <3>1, <3>2 DEF AddScore
  <2>2. {s[r] : r \in 1 .. k + 1} = {s[r] : r \in 1 .. k} \cup {s[k + 1]}
    <3>1. 1 .. k + 1 = (1 .. k) \cup {k + 1}
      BY <2>0
    <3> QED
      BY <3>1
  <2>3. CASE s[k + 1] = i
    <3>1. i \notin {s[r] : r \in 1 .. k}
      <4>1. \A r \in 1 .. k : r \in 1 .. n /\ r # k + 1
        BY <1>0, <2>0
      <4> QED
        BY <1>0, <2>0, <2>3, <4>1
    <3>2. At(s, i) = k + 1
      <4>1. i \in Range(s)
        BY <1>0, <2>0, <2>3
      <4> QED
        BY <1>0, <2>0, <2>3, <4>1, AtIs
    <3>3. _rrf_score(k + 1) \in Nat
      <4>1. k + 1 \in 1 .. TopN
        BY <1>0, <2>0, PipelineAssumption
      <4> QED
        BY <4>1, BetterRank
    <3> HIDE DEF n
    <3> QED
      BY <1>5, <2>0, <2>1, <2>2, <2>3, <3>1, <3>2, <3>3
  <2>4. CASE s[k + 1] # i
    BY <1>5, <2>0, <2>1, <2>2, <2>4
  <2> QED
    BY <2>3, <2>4
<1> HIDE DEF done
<1>6. \A k \in 0 .. n : k \in done
  BY <1>0, <1>4, <1>5, UpTo
<1>7. n \in 0 .. n
  BY <1>0
<1>8. f[n] = score(n)
  BY <1>6, <1>7 DEF done
<1> QED
  BY <1>0, <1>2, <1>3, <1>8

(* Where i is before j in every ranking of a list that has j, i scores no     *)
(* less in it, and more when one has.                                        *)
LEMMA TotalOf ==
    ASSUME NEW rs \in Seq(Rankings), NEW i, NEW j,
           \A s \in Range(rs) : j \in Range(s) => i \in Range(s) /\ At(s, i) < At(s, j)
    PROVE  /\ TotalScore(rs, i) \in Nat /\ TotalScore(rs, j) \in Nat
           /\ TotalScore(rs, j) <= TotalScore(rs, i)
           /\ (\E s \in Range(rs) : j \in Range(s)) => TotalScore(rs, j) < TotalScore(rs, i)
<1> DEFINE n == Len(rs)
<1>0. n \in Nat /\ Range(rs) = {rs[k] : k \in 1 .. n} /\ \A k \in 1 .. n : rs[k] \in Rankings
  BY DEF Range
<1>1. ASSUME NEW k \in 1 .. n
      PROVE  /\ ScoreIn(rs[k], i) \in Nat /\ ScoreIn(rs[k], j) \in Nat
             /\ ScoreIn(rs[k], j) <= ScoreIn(rs[k], i)
             /\ j \in Range(rs[k]) => ScoreIn(rs[k], j) < ScoreIn(rs[k], i)
  <2> DEFINE s == rs[k]
  <2>1. s \in Rankings /\ (j \in Range(s) => i \in Range(s) /\ At(s, i) < At(s, j))
    BY <1>0
  <2> HIDE DEF s
  <2>2. \A x : x \in Range(s) => At(s, x) \in 1 .. TopN
    <3>1. DOMAIN s = 1 .. Len(s) /\ Len(s) <= TopN /\ Len(s) \in Nat
      BY <2>1 DEF Rankings
    <3>2. \A r \in 1 .. Len(s) : r \in 1 .. TopN
      BY <3>1, PipelineAssumption
    <3> QED
      BY <3>1, <3>2, AtIs
  <2>3. \A x : ScoreIn(s, x) = IF x \in Range(s) THEN _rrf_score(At(s, x)) ELSE 0
    BY <2>1, ScoreOf
  <2>4. \A x : ScoreIn(s, x) \in Nat
    BY <2>2, <2>3, BetterRank
  <2>5. j \in Range(s) => ScoreIn(s, j) < ScoreIn(s, i)
    <3>1. ASSUME j \in Range(s) PROVE _rrf_score(At(s, i)) > _rrf_score(At(s, j))
      BY <2>1, <2>2, <3>1, BetterRank
    <3> QED
      BY <2>1, <2>3, <2>4, <3>1
  <2>6. j \notin Range(s) => ScoreIn(s, j) = 0
    BY <2>3
  <2>7. ScoreIn(s, i) \in Nat /\ ScoreIn(s, j) \in Nat
    BY <2>4
  <2> QED
    BY <2>5, <2>6, <2>7 DEF s
<1>2. \A x : TotalScore(rs, x) = Totals!Fold(x, 0, rs)
  BY Zenon DEF TotalScore, AddRanking, FoldLeft, MapThenFoldSet, Max, Totals!Fold, Totals!Greatest
<1>3. PICK f : Totals!IsRun(f, i, 0, rs) /\ Totals!Fold(i, 0, rs) = f[n]
  BY Totals!FoldRun, NumbersInductive DEF Totals!Inductive
<1>4. PICK g : Totals!IsRun(g, j, 0, rs) /\ Totals!Fold(j, 0, rs) = g[n]
  BY Totals!FoldRun, NumbersInductive DEF Totals!Inductive
<1> DEFINE has(k) == \E m \in 1 .. k : j \in Range(rs[m])
           done == {k \in 0 .. n : /\ f[k] \in Nat /\ g[k] \in Nat /\ g[k] <= f[k]
                                   /\ has(k) => g[k] < f[k]}
<1>5. 0 \in done
  <2>1. f[0] = 0 /\ g[0] = 0 /\ 0 \in 0 .. n /\ 1 .. 0 = {}
    BY <1>0, <1>3, <1>4 DEF Totals!IsRun
  <2> QED
    BY <2>1
<1>6. ASSUME NEW k \in 0 .. n - 1, k \in done PROVE k + 1 \in done
  <2> DEFINE a == ScoreIn(rs[k + 1], i)
             b == ScoreIn(rs[k + 1], j)
  <2>0. k + 1 \in 1 .. n /\ k + 1 - 1 = k /\ k + 1 \in 0 .. n /\ k \in Nat
    BY <1>0
  <2>1. f[k + 1] = f[k] + a /\ g[k + 1] = g[k] + b
    BY <1>3, <1>4, <2>0 DEF Totals!IsRun, AddRanking
  <2>2. a \in Nat /\ b \in Nat /\ b <= a /\ (j \in Range(rs[k + 1]) => b < a)
    BY <1>1, <2>0
  <2>3. has(k + 1) => has(k) \/ j \in Range(rs[k + 1])
    <3>1. \A m \in 1 .. k + 1 : m \in 1 .. k \/ m = k + 1
      BY <2>0
    <3> QED
      BY <3>1
  <2>4. f[k] \in Nat /\ g[k] \in Nat /\ g[k] <= f[k] /\ (has(k) => g[k] < f[k])
    BY <1>6
  <2> HIDE DEF a, b, has
  <2>5. f[k + 1] \in Nat /\ g[k + 1] \in Nat /\ g[k + 1] <= f[k + 1] /\ (has(k + 1) => g[k + 1] < f[k + 1])
    BY <2>1, <2>2, <2>3, <2>4
  <2> QED
    BY <2>0, <2>5
<1> HIDE DEF done
<1>7. \A k \in 0 .. n : k \in done
  BY <1>0, <1>5, <1>6, UpTo
<1>8. n \in 0 .. n
  BY <1>0
<1>9. n \in done
  BY <1>7, <1>8
<1> QED
  BY <1>0, <1>2, <1>3, <1>4, <1>9 DEF done

LEMMA TotalIsNat ==
    ASSUME NEW rs \in Seq(Rankings), NEW i
    PROVE  TotalScore(rs, i) \in Nat
<1>1. PICK j : \A s \in Range(rs) : j \notin Range(s)
  <2> DEFINE all == UNION {Range(s) : s \in Range(rs)}
             j == CHOOSE x : x \notin all
  <2>1. j \notin all
    BY NoSetContainsEverything
  <2> HIDE DEF j
  <2> QED
    BY <2>1
<1> QED
  BY <1>1, TotalOf

(* What comes of sorting numbers by a falling score. *)
LEMMA FallingIs ==
    ASSUME NEW S, S \subseteq Int, IsFiniteSet(S), NEW score, DOMAIN score = S, \A x \in S : score[x] \in Int
    PROVE  /\ ByFalling(score) \in Seq(S) /\ Range(ByFalling(score)) = S
           /\ Len(ByFalling(score)) = Cardinality(S)
           /\ \A i, j \in DOMAIN ByFalling(score) : ByFalling(score)[i] = ByFalling(score)[j] => i = j
           /\ \A i, j \in DOMAIN ByFalling(score) :
                score[ByFalling(score)[i]] > score[ByFalling(score)[j]] => i < j
<1> DEFINE R == {e \in Pairs(S) : \/ score[e[1]] > score[e[2]]
                                  \/ score[e[1]] = score[e[2]] /\ e[1] < e[2]}
           s == Sorted(S, R)
<1>1. \A x, y \in S : <<x, y>> \in R <=> score[x] > score[y] \/ (score[x] = score[y] /\ x < y)
  BY DEF Pairs
<1>2. ByFalling(score) = s
  BY DEF ByFalling
<1> HIDE DEF R
<1>3. Orders(R, S)
  <2>1. \A x, y \in S : <<x, y>> \in R => <<y, x>> \notin R
    BY <1>1
  <2>2. \A x, y \in S : x = y \/ <<x, y>> \in R \/ <<y, x>> \in R
    <3> TAKE x, y \in S
    <3>1. score[x] \in Int /\ score[y] \in Int /\ x \in Int /\ y \in Int
      OBVIOUS
    <3> QED
      BY <1>1, <3>1
  <2>3. \A x, y, z \in S : <<x, y>> \in R /\ <<y, z>> \in R => <<x, z>> \in R
    <3> TAKE x, y, z \in S
    <3>1. /\ score[x] \in Int /\ score[y] \in Int /\ score[z] \in Int
          /\ x \in Int /\ y \in Int /\ z \in Int
      OBVIOUS
    <3> QED
      BY <1>1, <3>1
  <2> QED
    BY <2>1, <2>2, <2>3 DEF Orders
<1>4. /\ s \in Seq(S) /\ Len(s) = Cardinality(S)
      /\ \A x \in S : \E i \in DOMAIN s : s[i] = x
      /\ \A i, j \in DOMAIN s : i < j <=> <<s[i], s[j]>> \in R
      /\ \A i, j \in DOMAIN s : s[i] = s[j] => i = j
  BY <1>3, SortedIs
<1> HIDE DEF s
<1>5. Range(s) = S
  BY <1>4 DEF Range
<1>6. ASSUME NEW i \in DOMAIN s, NEW j \in DOMAIN s, score[s[i]] > score[s[j]] PROVE i < j
  <2>1. s[i] \in S /\ s[j] \in S
    BY <1>4
  <2> QED
    BY <1>1, <1>4, <1>6, <2>1
<1> QED
  BY <1>2, <1>4, <1>5, <1>6

FusedList(c) == _rrf_fuse(c.lex, c.dense, c.weights)

LEMMA SearchIs ==
    ASSUME NEW c, IsSearch(c)
    PROVE  /\ c.lex \in Seq(Rankings) /\ c.dense \in Seq(Rankings)
           /\ Range(c.lex \o c.dense) = Range(c.lex) \cup Range(c.dense)
           /\ c.weights.bm25 \in Nat /\ c.weights.dense \in Nat
           /\ c.suppress \subseteq Ids /\ c.max_results \in Nat \ {0} /\ c.max_tokens \in Nat
           /\ c.tokens \in [Ids -> Nat] /\ c.boost \in [Ids -> Int] /\ c.exists \subseteq Ids
<1> DEFINE l == c.lex
           d == c.dense
<1>1. /\ l \in Seq(Seq(Ids)) /\ d \in Seq(Seq(Ids)) /\ \A s \in Range(l \o d) : s \in Rankings
      /\ c.weights.bm25 \in Nat /\ c.weights.dense \in Nat
      /\ c.suppress \subseteq Ids /\ c.max_results \in Nat \ {0} /\ c.max_tokens \in Nat
      /\ c.tokens \in [Ids -> Nat] /\ c.boost \in [Ids -> Int] /\ c.exists \subseteq Ids
  BY DEF IsSearch, SearchRecords
<1> HIDE DEF l, d
<1>2. Range(l \o d) = Range(l) \cup Range(d)
  BY <1>1, RangeOfBoth
<1>3. l \in Seq(Rankings) /\ d \in Seq(Rankings)
  <2>1. (\A s \in Range(l) : s \in Rankings) /\ (\A s \in Range(d) : s \in Rankings)
    BY <1>1, <1>2
  <2> QED
    BY <1>1, <2>1, SeqInto
<1> QED
  BY <1>1, <1>2, <1>3 DEF l, d

ScoreFused(c, i) ==
    c.weights.bm25 * TotalScore(c.lex, i) + c.weights.dense * TotalScore(c.dense, i)

LEMMA FusedIs ==
    ASSUME NEW c, IsSearch(c), IsFiniteSet(Ids), Ids \subseteq Nat
    PROVE  /\ FusedList(c) \in Seq(Ids)
           /\ \A i, j \in DOMAIN FusedList(c) : FusedList(c)[i] = FusedList(c)[j] => i = j
           /\ Range(FusedList(c)) = UNION {Range(s) : s \in Range(c.lex \o c.dense)}
           /\ \A i, j \in DOMAIN FusedList(c) :
                ScoreFused(c, FusedList(c)[i]) > ScoreFused(c, FusedList(c)[j]) => i < j
<1> DEFINE U == UNION {Range(s) : s \in Range(c.lex \o c.dense)}
           score == [i \in U |-> c.weights.bm25 * TotalScore(c.lex, i)
                                  + c.weights.dense * TotalScore(c.dense, i)]
<1>1. U \subseteq Ids
  <2>1. \A s \in Rankings : Range(s) \subseteq Ids
    BY DEF Rankings, Range
  <2> QED
    BY <2>1 DEF IsSearch
<1>2. IsFiniteSet(U) /\ U \subseteq Int
  <2> HIDE DEF U
  <2>1. U \in SUBSET Ids
    BY <1>1
  <2>2. IsFiniteSet(U)
    BY <2>1, FS_Subset
  <2>3. Nat \subseteq Int
    OBVIOUS
  <2> QED
    BY <2>1, <2>2, <2>3
<1>3. \A i \in U : ScoreFused(c, i) \in Int
  <2> TAKE i \in U
  <2>1. TotalScore(c.lex, i) \in Nat
    BY SearchIs, TotalIsNat
  <2>2. TotalScore(c.dense, i) \in Nat
    BY SearchIs, TotalIsNat
  <2>3. c.weights.bm25 \in Nat /\ c.weights.dense \in Nat
    BY SearchIs
  <2>4. c.weights.bm25 * TotalScore(c.lex, i) \in Nat /\ c.weights.dense * TotalScore(c.dense, i) \in Nat
    BY <2>1, <2>2, <2>3, TimesMono
  <2> QED
    BY <2>4 DEF ScoreFused
<1>4. FusedList(c) = ByFalling(score)
  BY DEF FusedList, _rrf_fuse
<1>5. \A i \in U : score[i] = ScoreFused(c, i)
  BY DEF ScoreFused
<1>6. DOMAIN score = U
  OBVIOUS
<1> HIDE DEF score, U
<1>7. /\ ByFalling(score) \in Seq(U) /\ Range(ByFalling(score)) = U
      /\ \A i, j \in DOMAIN ByFalling(score) : ByFalling(score)[i] = ByFalling(score)[j] => i = j
      /\ \A i, j \in DOMAIN ByFalling(score) :
           score[ByFalling(score)[i]] > score[ByFalling(score)[j]] => i < j
  <2>1. \A x \in U : score[x] \in Int
    BY <1>3, <1>5
  <2> QED
    BY <1>2, <1>6, <2>1, FallingIs
<1>8. \A i \in DOMAIN FusedList(c) : FusedList(c)[i] \in U
  BY <1>4, <1>7
<1>9. FusedList(c) \in Seq(Ids)
  BY <1>1, <1>4, <1>7, SeqInto
<1> QED
  BY <1>4, <1>5, <1>7, <1>8, <1>9 DEF U

LEMMA ConsensusRanks ==
    ASSUME call.kind = "search" => IsSearch(call), IsFiniteSet(Ids), Ids \subseteq Nat
    PROVE  ConsensusFirst
<1> SUFFICES ASSUME call.kind = "search", call.weights.bm25 > 0, call.weights.dense > 0,
                    NEW i \in Range(Ranked), NEW j \in Range(Ranked), i # j,
                    \A s \in Range(call.lex \o call.dense) :
                       j \in Range(s) => i \in Range(s) /\ At(s, i) < At(s, j)
             PROVE  At(Ranked, i) < At(Ranked, j)
  BY DEF ConsensusFirst
<1> DEFINE r == FusedList(call)
<1>0. IsSearch(call) /\ Ranked = r
  BY DEF FusedList, Ranked
<1>1. /\ Range(r) = UNION {Range(s) : s \in Range(call.lex \o call.dense)}
      /\ \A k, m \in DOMAIN r : ScoreFused(call, r[k]) > ScoreFused(call, r[m]) => k < m
  BY <1>0, FusedIs
<1> HIDE DEF r
<1>2. /\ call.lex \in Seq(Rankings) /\ call.dense \in Seq(Rankings)
      /\ Range(call.lex \o call.dense) = Range(call.lex) \cup Range(call.dense)
      /\ call.weights.bm25 \in Nat /\ call.weights.dense \in Nat
  BY <1>0, SearchIs
<1> DEFINE li == TotalScore(call.lex, i)
           lj == TotalScore(call.lex, j)
           di == TotalScore(call.dense, i)
           dj == TotalScore(call.dense, j)
           wl == call.weights.bm25
           wd == call.weights.dense
<1>3. /\ li \in Nat /\ lj \in Nat /\ lj <= li
      /\ (\E s \in Range(call.lex) : j \in Range(s)) => lj < li
  BY <1>2, TotalOf
<1>4. /\ di \in Nat /\ dj \in Nat /\ dj <= di
      /\ (\E s \in Range(call.dense) : j \in Range(s)) => dj < di
  BY <1>2, TotalOf
<1>5. lj < li \/ dj < di
  <2>1. j \in UNION {Range(s) : s \in Range(call.lex \o call.dense)}
    BY <1>0, <1>1
  <2> HIDE DEF li, lj, di, dj
  <2> QED
    BY <1>2, <1>3, <1>4, <2>1
<1>6. wl \in Nat /\ wd \in Nat /\ wl >= 1 /\ wd >= 1
  BY <1>2
<1> HIDE DEF li, lj, di, dj, wl, wd
<1>7. wl * li + wd * di > wl * lj + wd * dj
  <2> DEFINE a == wl * li
             b == wl * lj
             e == wd * di
             f == wd * dj
  <2>1. a \in Nat /\ b \in Nat /\ e \in Nat /\ f \in Nat /\ b <= a /\ f <= e
    BY <1>3, <1>4, <1>6, TimesMono
  <2>2. lj < li => b + wl <= a
    <3> HAVE lj < li
    <3>1. wl * (lj + 1) <= a
      BY <1>3, <1>6, TimesMono
    <3>2. wl * (lj + 1) = b + wl
      BY <1>3, <1>6
    <3> QED
      BY <3>1, <3>2
  <2>3. dj < di => f + wd <= e
    <3> HAVE dj < di
    <3>1. wd * (dj + 1) <= e
      BY <1>4, <1>6, TimesMono
    <3>2. wd * (dj + 1) = f + wd
      BY <1>4, <1>6
    <3> QED
      BY <3>1, <3>2
  <2> HIDE DEF a, b, e, f
  <2>4. a + e > b + f
    BY <1>5, <1>6, <2>1, <2>2, <2>3
  <2> QED
    BY <2>4 DEF a, b, e, f
<1>8. ScoreFused(call, i) > ScoreFused(call, j)
  BY <1>7 DEF ScoreFused, li, lj, di, dj, wl, wd
<1>9. /\ At(r, i) \in DOMAIN r /\ r[At(r, i)] = i /\ At(r, j) \in DOMAIN r /\ r[At(r, j)] = j
  BY <1>0, AtIs
<1> QED
  BY <1>0, <1>1, <1>8, <1>9

-----------------------------------------------------------------------------
(* Searches: the loop that takes the results *)

AddTokens(tokens, sum, i) == sum + tokens[i]
TakeStep(c, st, id) == TakeChunk(c, st, id)

Sizes == INSTANCE FoldLemmas WITH Step <- AddTokens
Taking == INSTANCE FoldLemmas WITH Step <- TakeStep

TokensOf(c, s) == Sizes!Fold(c.tokens, 0, s)

LEMMA TokensIs == \A s : Tokens(s) = TokensOf(call, s)
<1> TAKE s
<1> QED
  BY Zenon DEF Tokens, TokensOf, AddTokens, FoldLeft, MapThenFoldSet, Max, Sizes!Fold, Sizes!Greatest

LEMMA TokensAppend ==
    ASSUME NEW c, NEW s \in Seq(Ids), NEW x \in Ids
    PROVE  TokensOf(c, Append(s, x)) = TokensOf(c, s) + c.tokens[x]
  BY Sizes!FoldAppend, NumbersInductive DEF TokensOf, AddTokens, Sizes!Inductive

LEMMA TokensEmpty ==
    ASSUME NEW c
    PROVE  TokensOf(c, <<>>) = 0
  BY Sizes!FoldEmpty, NumbersInductive DEF TokensOf, Sizes!Inductive

(* Tokens add up: none are negative, and a longer prefix has no fewer. *)
LEMMA TokensGrow ==
    ASSUME NEW c, c.tokens \in [Ids -> Nat], NEW s \in Seq(Ids)
    PROVE  /\ TokensOf(c, s) \in Nat
           /\ \A k \in 0 .. Len(s) : /\ TokensOf(c, SubSeq(s, 1, k)) \in Nat
                                     /\ TokensOf(c, SubSeq(s, 1, k)) <= TokensOf(c, s)
<1> DEFINE n == Len(s)
           f(k) == TokensOf(c, SubSeq(s, 1, k))
<1>0. n \in Nat
  OBVIOUS
<1>1. f(0) = 0
  BY WholePrefix, TokensEmpty
<1>2. ASSUME NEW k \in 0 .. n - 1 PROVE f(k + 1) = f(k) + c.tokens[s[k + 1]] /\ c.tokens[s[k + 1]] \in Nat
  BY PrefixAppend, TokensAppend
<1>3. f(n) = TokensOf(c, s)
  BY WholePrefix
<1> HIDE DEF f, n
<1> DEFINE up == {k \in 0 .. n : f(k) \in Nat}
<1>4. \A k \in 0 .. n : k \in up
  <2>1. 0 \in up
    BY <1>0, <1>1
  <2>2. ASSUME NEW k \in 0 .. n - 1, k \in up PROVE k + 1 \in up
    <3>1. k + 1 \in 0 .. n
      BY <1>0
    <3>2. f(k + 1) \in Nat
      BY <1>2, <2>2
    <3> QED
      BY <3>1, <3>2
  <2> HIDE DEF up
  <2> QED
    BY <1>0, <2>1, <2>2, UpTo
<1> DEFINE down == {j \in 0 .. n : f(n - j) <= f(n)}
<1>5. \A j \in 0 .. n : j \in down
  <2>1. 0 \in down
    <3>1. n \in 0 .. n /\ 0 \in 0 .. n /\ n - 0 = n
      BY <1>0
    <3>2. f(n) \in Nat
      BY <1>4, <3>1
    <3> QED
      BY <3>1, <3>2
  <2>2. ASSUME NEW j \in 0 .. n - 1, j \in down PROVE j + 1 \in down
    <3> DEFINE k == n - (j + 1)
    <3>1. k \in 0 .. n - 1 /\ k + 1 = n - j /\ j + 1 \in 0 .. n /\ k \in 0 .. n /\ n - j \in 0 .. n /\ n \in 0 .. n
      BY <1>0
    <3>2. f(n - j) <= f(n)
      BY <2>2
    <3> HIDE DEF k
    <3>3. f(k) \in Nat /\ f(n - j) \in Nat /\ f(n) \in Nat
      BY <1>4, <3>1
    <3>4. f(k) <= f(n - j)
      <4> DEFINE more == c.tokens[s[k + 1]]
      <4>1. f(k + 1) = f(k) + more /\ more \in Nat
        BY <1>2, <3>1
      <4>2. f(k + 1) = f(n - j)
        BY <3>1
      <4> HIDE DEF more
      <4> QED
        BY <3>3, <4>1, <4>2
    <3>5. f(k) <= f(n)
      BY <3>2, <3>3, <3>4
    <3> QED
      BY <3>1, <3>5 DEF k
  <2> HIDE DEF down
  <2> QED
    BY <1>0, <2>1, <2>2, UpTo
<1>6. \A k \in 0 .. n : f(k) \in Nat /\ f(k) <= f(n)
  <2> TAKE k \in 0 .. n
  <2>1. n - k \in 0 .. n /\ n - (n - k) = k
    BY <1>0
  <2>2. n - k \in down
    BY <1>5, <2>1
  <2> QED
    BY <1>4, <2>1, <2>2
<1>7. n \in 0 .. n
  BY <1>0
<1> QED
  BY <1>3, <1>6, <1>7 DEF f, n

(* FirstOfRoots, for any search. *)
Elig(c, ok) ==
    Picked(ok, {k \in DOMAIN ok : ~c.dedup \/ \A m \in 1 .. k - 1 : c.root[ok[m]] # c.root[ok[k]]})

LEMMA EligAppend ==
    ASSUME NEW c, NEW T, NEW s \in Seq(T), NEW x \in T
    PROVE  Elig(c, Append(s, x)) =
             IF ~c.dedup \/ \A m \in DOMAIN s : c.root[s[m]] # c.root[x] THEN Append(Elig(c, s), x)
             ELSE Elig(c, s)
<1> DEFINE n == Len(s)
           t == Append(s, x)
           Ok(u, k) == ~c.dedup \/ \A m \in 1 .. k - 1 : c.root[u[m]] # c.root[u[k]]
           I == {k \in DOMAIN s : Ok(s, k)}
           J == {k \in DOMAIN t : Ok(t, k)}
           new == ~c.dedup \/ \A m \in DOMAIN s : c.root[s[m]] # c.root[x]
<1>0. /\ n \in Nat /\ DOMAIN s = 1 .. n /\ DOMAIN t = 1 .. n + 1 /\ t[n + 1] = x
      /\ \A k \in 1 .. n : t[k] = s[k]
  OBVIOUS
<1>1. \A k \in 1 .. n : Ok(t, k) <=> Ok(s, k)
  <2> TAKE k \in 1 .. n
  <2>1. \A m \in 1 .. k - 1 : t[m] = s[m]
    <3>1. \A m \in 1 .. k - 1 : m \in 1 .. n
      BY <1>0
    <3> QED
      BY <1>0, <3>1
  <2>2. t[k] = s[k]
    BY <1>0
  <2> HIDE DEF t
  <2> QED
    BY <2>1, <2>2
<1>2. Ok(t, n + 1) <=> new
  <2>1. 1 .. (n + 1) - 1 = DOMAIN s
    BY <1>0
  <2>2. \A m \in DOMAIN s : t[m] = s[m]
    BY <1>0
  <2> HIDE DEF t
  <2> QED
    BY <1>0, <2>1, <2>2
<1>3. 1 .. n + 1 = (1 .. n) \cup {n + 1}
  BY <1>0
<1> HIDE DEF Ok, n, t, new
<1>4. J = IF new THEN I \cup {n + 1} ELSE I
  BY <1>0, <1>1, <1>2, <1>3
<1>5. Elig(c, s) = Picked(s, I) /\ Elig(c, t) = Picked(t, J) /\ I \in SUBSET (DOMAIN s)
  BY DEF Elig, Ok
<1> HIDE DEF I, J
<1>6. Picked(t, I) = Picked(s, I) /\ Picked(t, I \cup {n + 1}) = Append(Picked(s, I), x)
  BY <1>5, PickedAppend DEF t, n
<1>7. Elig(c, t) = IF new THEN Append(Elig(c, s), x) ELSE Elig(c, s)
  BY <1>4, <1>5, <1>6
<1> QED
  BY <1>7 DEF t, new

LEMMA EligIs ==
    ASSUME NEW c, NEW T, NEW s \in Seq(T)
    PROVE  Elig(c, s) \in Seq(T)
<1> DEFINE I == {k \in DOMAIN s : ~c.dedup \/ \A m \in 1 .. k - 1 : c.root[s[m]] # c.root[s[k]]}
<1>1. I \in SUBSET (DOMAIN s) /\ Elig(c, s) = Picked(s, I)
  BY DEF Elig
<1> HIDE DEF I
<1> QED
  BY <1>1, PickedIs

Open(c, t) == Among(t, Ids \ c.suppress)
Offered(c, t) == Elig(c, Open(c, t))

(* The take loop after the entries of t. *)
Underway(c, t, st) ==
    /\ st.kept = Offered(c, t) /\ Len(st.kept) < c.max_results
    /\ st.seen = {c.root[Open(c, t)[m]] : m \in DOMAIN Open(c, t)}
    /\ st.budget = c.max_tokens - TokensOf(c, st.kept)

Ended(c, t, st) ==
    LET r == st.kept
        e == Offered(c, t)
    IN /\ Len(r) >= 1 /\ Len(r) <= Len(e) /\ r = SubSeq(e, 1, Len(r))
       /\ \/ Len(r) = c.max_results
          \/ Len(r) < Len(e) /\ TokensOf(c, SubSeq(e, 1, Len(r) + 1)) > c.max_tokens

TakeHolds(c, t, st) ==
    /\ DOMAIN st = {"kept", "budget", "seen", "stop"} /\ st.stop \in BOOLEAN
    /\ st.kept \in Seq(Ids) /\ Len(st.kept) <= c.max_results
    /\ Len(st.kept) <= 1 \/ TokensOf(c, st.kept) <= c.max_tokens
    /\ ~st.stop => Underway(c, t, st)
    /\ st.stop => Ended(c, t, st)

LEMMA OfferedAre ==
    ASSUME NEW c, NEW t \in Seq(Ids)
    PROVE  /\ Open(c, t) \in Seq(Ids) /\ Offered(c, t) \in Seq(Ids)
           /\ \A m \in DOMAIN Open(c, t) : Open(c, t)[m] \notin c.suppress
<1>1. Open(c, t) \in Seq(Ids \cap (Ids \ c.suppress))
  BY AmongIs DEF Open
<1>2. \A m \in DOMAIN Open(c, t) : Open(c, t)[m] \in Ids \ c.suppress
  BY <1>1
<1>3. Open(c, t) \in Seq(Ids)
  BY <1>1
<1> QED
  BY <1>2, <1>3, EligIs DEF Offered

LEMMA OfferedGrow ==
    ASSUME NEW c, NEW t \in Seq(Ids), NEW x \in Ids
    PROVE  LET a == Open(c, t)
               u == Append(t, x)
               fresh == ~c.dedup \/ c.root[x] \notin {c.root[a[m]] : m \in DOMAIN a}
           IN /\ Open(c, u) = IF x \in c.suppress THEN a ELSE Append(a, x)
              /\ Offered(c, u) = IF x \notin c.suppress /\ fresh THEN Append(Offered(c, t), x)
                                 ELSE Offered(c, t)
<1> DEFINE a == Open(c, t)
           u == Append(t, x)
           fresh == ~c.dedup \/ c.root[x] \notin {c.root[a[m]] : m \in DOMAIN a}
<1>1. Open(c, u) = IF x \in c.suppress THEN a ELSE Append(a, x)
  <2>1. Open(c, u) = IF x \in Ids \ c.suppress THEN Append(a, x) ELSE a
    BY AmongAppend DEF Open
  <2> QED
    BY <2>1
<1>2. a \in Seq(Ids)
  BY OfferedAre
<1>3. Elig(c, Append(a, x)) = IF fresh THEN Append(Elig(c, a), x) ELSE Elig(c, a)
  <2>1. fresh <=> ~c.dedup \/ \A m \in DOMAIN a : c.root[a[m]] # c.root[x]
    OBVIOUS
  <2> HIDE DEF a, fresh
  <2>2. Elig(c, Append(a, x)) =
          IF ~c.dedup \/ \A m \in DOMAIN a : c.root[a[m]] # c.root[x] THEN Append(Elig(c, a), x)
          ELSE Elig(c, a)
    BY <1>2, EligAppend
  <2> QED
    BY <2>1, <2>2
<1> HIDE DEF a, u, fresh
<1>4. Offered(c, u) = IF x \notin c.suppress /\ fresh THEN Append(Offered(c, t), x) ELSE Offered(c, t)
  BY <1>1, <1>3 DEF Offered, a
<1> QED
  BY <1>1, <1>4 DEF a, u, fresh

(* A prefix stays one when the sequence grows. *)
LEMMA PrefixStays ==
    ASSUME NEW T, NEW e \in Seq(T), NEW x \in T, NEW k \in 0 .. Len(e)
    PROVE  SubSeq(Append(e, x), 1, k) = SubSeq(e, 1, k)
<1>1. Append(e, x) \in Seq(T) /\ Len(Append(e, x)) = Len(e) + 1 /\ Len(e) \in Nat /\ k \in Nat
      /\ \A i \in 1 .. Len(e) : Append(e, x)[i] = e[i]
  OBVIOUS
<1>2. \A i \in 1 .. k : i \in 1 .. Len(e)
  BY <1>1
<1>3. SubSeq(Append(e, x), 1, k) = [i \in 1 .. k |-> Append(e, x)[i]]
  BY <1>1
<1>4. SubSeq(e, 1, k) = [i \in 1 .. k |-> e[i]]
  BY <1>1
<1> QED
  BY <1>1, <1>2, <1>3, <1>4

LEMMA RootsAppend ==
    ASSUME NEW c, NEW a \in Seq(Ids), NEW x \in Ids
    PROVE  {c.root[Append(a, x)[m]] : m \in DOMAIN Append(a, x)} =
             {c.root[a[m]] : m \in DOMAIN a} \cup {c.root[x]}
<1> DEFINE b == Append(a, x)
<1>1. /\ DOMAIN b = DOMAIN a \cup {Len(a) + 1} /\ b[Len(a) + 1] = x
      /\ \A m \in DOMAIN a : b[m] = a[m]
  <2>1. DOMAIN b = 1 .. Len(a) + 1 /\ DOMAIN a = 1 .. Len(a) /\ Len(a) \in Nat
    OBVIOUS
  <2>2. 1 .. Len(a) + 1 = (1 .. Len(a)) \cup {Len(a) + 1}
    BY <2>1
  <2>3. b[Len(a) + 1] = x /\ \A m \in 1 .. Len(a) : b[m] = a[m]
    OBVIOUS
  <2> HIDE DEF b
  <2> QED
    BY <2>1, <2>2, <2>3
<1> HIDE DEF b
<1>2. {c.root[b[m]] : m \in DOMAIN b} = {c.root[a[m]] : m \in DOMAIN a} \cup {c.root[x]}
  BY <1>1
<1> QED
  BY <1>2 DEF b

LEMMA TakeStart ==
    ASSUME NEW c, c.max_results \in Nat \ {0}, c.max_tokens \in Nat
    PROVE  TakeHolds(c, <<>>, [kept |-> <<>>, budget |-> c.max_tokens, seen |-> {}, stop |-> FALSE])
<1> DEFINE st == [kept |-> <<>>, budget |-> c.max_tokens, seen |-> {}, stop |-> FALSE]
<1>1. Open(c, <<>>) \in Seq(Ids) /\ Len(Open(c, <<>>)) <= 0
  <2>1. <<>> \in Seq(Ids) /\ Len(<<>>) = 0
    OBVIOUS
  <2>2. Len(Among(<<>>, Ids \ c.suppress)) <= Len(<<>>)
    BY <2>1, AmongIs
  <2> QED
    BY <2>1, <2>2, OfferedAre DEF Open
<1>2. Open(c, <<>>) = <<>>
  BY <1>1
<1>3. Elig(c, <<>>) = <<>>
  <2> DEFINE I == {k \in DOMAIN <<>> : ~c.dedup \/ \A m \in 1 .. k - 1 : c.root[<<>>[m]] # c.root[<<>>[k]]}
  <2>1. I = {} /\ Elig(c, <<>>) = Picked(<<>>, I)
    BY DEF Elig
  <2>2. Picked(<<>>, {}) \in Seq(Ids) /\ Len(Picked(<<>>, {})) = Cardinality({})
    <3>1. <<>> \in Seq(Ids) /\ {} \in SUBSET (DOMAIN <<>>)
      OBVIOUS
    <3> QED
      BY <3>1, PickedIs
  <2>3. Cardinality({}) = 0
    BY FS_EmptySet
  <2> HIDE DEF I
  <2> QED
    BY <2>1, <2>2, <2>3
<1>4. TokensOf(c, <<>>) = 0
  BY TokensEmpty
<1>5. /\ st.kept = <<>> /\ st.seen = {} /\ st.budget = c.max_tokens /\ st.stop = FALSE
      /\ <<>> \in Seq(Ids) /\ Len(<<>>) = 0 /\ DOMAIN <<>> = {}
      /\ DOMAIN st = {"kept", "budget", "seen", "stop"}
  OBVIOUS
<1> HIDE DEF st
<1>6. Underway(c, <<>>, st)
  BY <1>2, <1>3, <1>4, <1>5 DEF Underway, Offered
<1>0. c.max_results \in Nat /\ 0 <= c.max_results /\ 0 <= 1
  OBVIOUS
<1>7. Len(st.kept) <= 1 /\ Len(st.kept) <= c.max_results /\ st.kept \in Seq(Ids) /\ st.stop \in BOOLEAN /\ ~st.stop
  BY <1>0, <1>5
<1>8. TakeHolds(c, <<>>, st)
  BY <1>5, <1>6, <1>7 DEF TakeHolds
<1> QED
  BY <1>8 DEF st

LEMMA TakeGoesOn ==
    ASSUME NEW c, c.max_results \in Nat \ {0}, c.max_tokens \in Nat, c.tokens \in [Ids -> Nat],
           NEW t \in Seq(Ids), NEW x \in Ids, NEW st, TakeHolds(c, t, st)
    PROVE  TakeHolds(c, Append(t, x), TakeChunk(c, st, x))
<1> DEFINE u == Append(t, x)
           a == Open(c, t)
           e == Offered(c, t)
           fresh == ~c.dedup \/ c.root[x] \notin {c.root[a[m]] : m \in DOMAIN a}
           dup == c.dedup /\ c.root[x] \in st.seen
           over == c.tokens[x] > st.budget /\ st.kept # <<>>
           size(s) == TokensOf(c, s)
           new == [kept |-> Append(st.kept, x), budget |-> st.budget - c.tokens[x],
                   seen |-> st.seen \cup {c.root[x]}, stop |-> Len(st.kept) + 1 >= c.max_results]
           full == [st EXCEPT !.stop = TRUE]
           max == c.max_results
           room == c.max_tokens
<1>0. max \in Nat /\ max >= 1 /\ room \in Nat /\ c.tokens[x] \in Nat
  OBVIOUS
<1>1. /\ Open(c, u) = IF x \in c.suppress THEN a ELSE Append(a, x)
      /\ Offered(c, u) = IF x \notin c.suppress /\ fresh THEN Append(e, x) ELSE e
  BY OfferedGrow
<1>2. a \in Seq(Ids) /\ e \in Seq(Ids) /\ Len(e) \in Nat
  BY OfferedAre
<1>3. TakeChunk(c, st, x) = IF st.stop \/ x \in c.suppress \/ dup THEN st ELSE
                            IF over THEN full ELSE new
  BY DEF TakeChunk
<1>4. size(Append(e, x)) = size(e) + c.tokens[x] /\ size(e) \in Nat
  BY <1>2, TokensAppend, TokensGrow
<1>5. /\ Append(e, x) \in Seq(Ids) /\ Len(Append(e, x)) = Len(e) + 1
      /\ SubSeq(Append(e, x), 1, Len(e) + 1) = Append(e, x) /\ SubSeq(Append(e, x), 1, Len(e)) = e
  <2>1. Append(e, x) \in Seq(Ids) /\ Len(Append(e, x)) = Len(e) + 1 /\ Len(e) \in 0 .. Len(e)
    BY <1>2
  <2>2. SubSeq(Append(e, x), 1, Len(e)) = SubSeq(e, 1, Len(e))
    BY <1>2, <2>1, PrefixStays
  <2> QED
    BY <1>2, <2>1, <2>2, WholePrefix
<1>6. CASE st.stop
  <2>1. TakeChunk(c, st, x) = st
    BY <1>3, <1>6
  <2>2. Ended(c, t, st) /\ st.kept \in Seq(Ids)
    BY <1>6 DEF TakeHolds
  <2>3. ASSUME Offered(c, u) = Append(e, x) PROVE Ended(c, u, st)
    <3> DEFINE r == st.kept
    <3>1. Len(r) \in Nat /\ Len(r) >= 1 /\ Len(r) <= Len(e) /\ r = SubSeq(e, 1, Len(r))
      BY <2>2 DEF Ended
    <3>2. Len(r) = max \/ (Len(r) < Len(e) /\ size(SubSeq(e, 1, Len(r) + 1)) > room)
      BY <2>2 DEF Ended
    <3>3. SubSeq(Append(e, x), 1, Len(r)) = SubSeq(e, 1, Len(r))
      <4>1. Len(r) \in 0 .. Len(e)
        BY <1>2, <3>1
      <4> HIDE DEF e, r
      <4> QED
        BY <1>2, <4>1, PrefixStays
    <3>4. Len(r) < Len(e) => SubSeq(Append(e, x), 1, Len(r) + 1) = SubSeq(e, 1, Len(r) + 1)
      <4> HAVE Len(r) < Len(e)
      <4>1. Len(r) + 1 \in 0 .. Len(e)
        BY <1>2, <3>1
      <4> HIDE DEF e, r
      <4> QED
        BY <1>2, <4>1, PrefixStays
    <3>5. Len(r) <= Len(Append(e, x)) /\ (Len(r) < Len(e) => Len(r) < Len(Append(e, x)))
      BY <1>2, <1>5, <3>1
    <3> HIDE DEF e, r, size, max, room
    <3>6. \/ Len(r) = max
          \/ Len(r) < Len(Append(e, x)) /\ size(SubSeq(Append(e, x), 1, Len(r) + 1)) > room
      BY <3>2, <3>4, <3>5
    <3> QED
      BY <2>3, <3>1, <3>3, <3>5, <3>6 DEF Ended, r, size, max, room
  <2>4. ASSUME Offered(c, u) = e PROVE Ended(c, u, st)
    BY <2>2, <2>4 DEF Ended
  <2>5. Ended(c, u, st)
    BY <1>1, <2>3, <2>4
  <2> HIDE DEF u
  <2> QED
    BY <1>6, <2>1, <2>5 DEF TakeHolds, u
<1>7. CASE ~st.stop
  <2>1. Underway(c, t, st)
    BY <1>7 DEF TakeHolds
  <2>2. /\ st.kept = e /\ Len(e) < max /\ st.seen = {c.root[a[m]] : m \in DOMAIN a}
        /\ st.budget = room - size(e)
    BY <2>1 DEF Underway
  <2>3. fresh <=> ~dup
    BY <2>2
  <2>4. CASE x \in c.suppress
    <3>1. TakeChunk(c, st, x) = st /\ Open(c, u) = a /\ Offered(c, u) = e
      BY <1>1, <1>3, <2>4
    <3> HIDE DEF u
    <3>2. Underway(c, u, st)
      BY <2>1, <3>1 DEF Underway
    <3> QED
      BY <1>7, <3>1, <3>2 DEF TakeHolds, u
  <2>5. CASE x \notin c.suppress /\ dup
    <3>1. TakeChunk(c, st, x) = st /\ Open(c, u) = Append(a, x) /\ Offered(c, u) = e
      BY <1>1, <1>3, <2>3, <2>5
    <3>2. {c.root[Append(a, x)[m]] : m \in DOMAIN Append(a, x)} = {c.root[a[m]] : m \in DOMAIN a} \cup {c.root[x]}
      BY <1>2, RootsAppend
    <3>3. c.root[x] \in {c.root[a[m]] : m \in DOMAIN a}
      BY <2>2, <2>5
    <3> HIDE DEF u
    <3>4. st.seen = {c.root[Append(a, x)[m]] : m \in DOMAIN Append(a, x)}
      <4> DEFINE old == {c.root[a[m]] : m \in DOMAIN a}
      <4>1. st.seen = old /\ c.root[x] \in old
        BY <2>2, <3>3
      <4>2. old \cup {c.root[x]} = old
        BY <4>1
      <4> QED
        BY <3>2, <4>1, <4>2
    <3> HIDE DEF a, e
    <3>5. Underway(c, u, st)
      BY <2>1, <3>1, <3>4 DEF Underway, a, e
    <3> QED
      BY <1>7, <3>1, <3>5 DEF TakeHolds, u
  <2>6. CASE x \notin c.suppress /\ ~dup
    <3>1. Open(c, u) = Append(a, x) /\ Offered(c, u) = Append(e, x)
      BY <1>1, <2>3, <2>6
    <3>2. TakeChunk(c, st, x) = IF over THEN full ELSE new
      BY <1>3, <1>7, <2>6
    <3>3. CASE over
      <4>1. full.kept = e /\ full.stop = TRUE /\ DOMAIN full = {"kept", "budget", "seen", "stop"}
        BY <1>7, <2>2 DEF TakeHolds
      <4>2. size(Append(e, x)) > room /\ e # <<>>
        BY <1>0, <1>4, <2>2, <3>3
      <4>3. Len(e) >= 1 /\ Len(e) <= Len(Append(e, x)) /\ Len(e) < Len(Append(e, x)) /\ Len(e) <= max
        BY <1>0, <1>2, <1>5, <2>2, <4>2
      <4>4. Len(e) <= 1 \/ size(e) <= room
        BY <2>2 DEF TakeHolds
      <4> HIDE DEF u, full, e, size, room, max
      <4>5. Ended(c, u, full)
        BY <1>5, <3>1, <4>1, <4>2, <4>3 DEF Ended, size, room, max
      <4>6. TakeHolds(c, u, full)
        BY <1>2, <4>1, <4>3, <4>4, <4>5 DEF TakeHolds, size, room, max
      <4> QED
        BY <3>2, <3>3, <4>6 DEF u
    <3>4. CASE ~over
      <4>1. /\ new.kept = Append(e, x) /\ new.budget = room - size(Append(e, x))
            /\ new.seen = {c.root[a[m]] : m \in DOMAIN a} \cup {c.root[x]}
            /\ new.stop = (Len(e) + 1 >= max) /\ DOMAIN new = {"kept", "budget", "seen", "stop"}
        BY <1>0, <1>4, <2>2
      <4>2. {c.root[Append(a, x)[m]] : m \in DOMAIN Append(a, x)} = {c.root[a[m]] : m \in DOMAIN a} \cup {c.root[x]}
        BY <1>2, RootsAppend
      <4>3. Len(Append(e, x)) <= 1 \/ size(Append(e, x)) <= room
        <5>1. CASE e = <<>>
          BY <1>5, <5>1
        <5>2. CASE e # <<>>
          <6>1. ~(c.tokens[x] > room - size(e))
            BY <2>2, <3>4, <5>2
          <6> QED
            BY <1>0, <1>4, <6>1
        <5> QED
          BY <5>1, <5>2
      <4>4. Len(Append(e, x)) <= max /\ Len(Append(e, x)) >= 1 /\ (Len(e) + 1 >= max => Len(Append(e, x)) = max)
        <5> HIDE DEF e, max, u, a
        <5> QED
          BY <1>0, <1>2, <1>5, <2>2
      <4>5. ~(Len(e) + 1 >= max) => Len(Append(e, x)) < max
        BY <1>0, <1>2, <1>5
      <4>6. SubSeq(Append(e, x), 1, Len(Append(e, x))) = Append(e, x) /\ Len(Append(e, x)) <= Len(Append(e, x))
        BY <1>2, <1>5
      <4> HIDE DEF u, new, e, a, size, room, max
      <4>7. new.stop => Ended(c, u, new)
        BY <3>1, <4>1, <4>4, <4>6 DEF Ended, max
      <4>8. ~new.stop => Underway(c, u, new)
        BY <3>1, <4>1, <4>2, <4>5 DEF Underway, max, room, size
      <4>9. new.stop \in BOOLEAN
        BY <4>1
      <4>10. TakeHolds(c, u, new)
        BY <1>5, <4>1, <4>3, <4>4, <4>7, <4>8, <4>9 DEF TakeHolds, max, room, size
      <4> QED
        BY <3>2, <3>4, <4>10 DEF u
    <3> QED
      BY <3>3, <3>4
  <2> QED
    BY <2>4, <2>5, <2>6
<1> QED
  BY <1>6, <1>7 DEF TakeHolds

LEMMA RankedAre ==
    ASSUME NEW c, IsSearch(c), IsFiniteSet(Ids), Ids \subseteq Nat
    PROVE  Fused(c) \in Seq(Ids) /\ ranked_chunks(c) \in Seq(Ids)
<1> DEFINE f == FusedList(c)
           cap == IF Cap(c) > 1 THEN Cap(c) ELSE 1
           m == IF Len(f) < cap THEN Len(f) ELSE cap
           s == Among(Fused(c), c.exists)
<1>1. f \in Seq(Ids)
  BY FusedIs
<1>2. Cap(c) \in Nat
  <2>1. IsFiniteSet(c.suppress) /\ c.max_results \in Nat
    <3>1. c.suppress \in SUBSET Ids /\ c.max_results \in Nat \ {0}
      BY SearchIs
    <3> QED
      BY <3>1, FS_Subset
  <2>2. Cardinality(c.suppress) \in Nat
    BY <2>1, FS_CardinalityType
  <2> QED
    BY <2>1, <2>2, PipelineAssumption DEF Cap
<1>3. Fused(c) = SubSeq(f, 1, m)
  BY DEF Fused, CutAt, FusedList
<1>4. m \in 0 .. Len(f)
  BY <1>1, <1>2
<1>5. Fused(c) \in Seq(Ids)
  <2> HIDE DEF m, f
  <2> QED
    BY <1>1, <1>3, <1>4
<1>6. s \in Seq(Ids)
  <2>1. s \in Seq(Ids \cap c.exists)
    BY <1>5, AmongIs
  <2> QED
    BY <2>1
<1> HIDE DEF s
<1>7. Reranked(c, s) \in Seq(Ids)
  <2>1. CASE ~c.code_signal
    BY <1>6, <2>1 DEF Reranked
  <2>2. CASE c.code_signal
    <3> DEFINE score == [k \in DOMAIN s |-> c.boost[s[k]]]
               o == ByFalling(score)
    <3>1. DOMAIN s = 1 .. Len(s) /\ Len(s) \in Nat /\ \A k \in DOMAIN s : s[k] \in Ids
      BY <1>6
    <3>2. IsFiniteSet(DOMAIN s) /\ DOMAIN s \subseteq Int
      BY <3>1, FS_Interval
    <3>3. DOMAIN score = DOMAIN s /\ \A k \in DOMAIN s : score[k] \in Int
      <4>1. c.boost \in [Ids -> Int]
        BY SearchIs
      <4> QED
        BY <3>1, <4>1
    <3> HIDE DEF score
    <3>4. o \in Seq(DOMAIN s)
      BY <3>2, <3>3, FallingIs
    <3>5. Reranked(c, s) = [k \in DOMAIN o |-> s[o[k]]]
      BY <2>2 DEF Reranked, Permuted, score
    <3> HIDE DEF o
    <3>6. DOMAIN o = 1 .. Len(o) /\ Len(o) \in Nat /\ \A k \in DOMAIN o : o[k] \in DOMAIN s
      BY <3>4
    <3>7. \A k \in DOMAIN o : s[o[k]] \in Ids
      BY <3>1, <3>6
    <3>8. Reranked(c, s) \in [1 .. Len(o) -> Ids]
      BY <3>5, <3>6, <3>7
    <3> QED
      BY <3>6, <3>8
  <2> QED
    BY <2>1, <2>2
<1> QED
  BY <1>5, <1>7 DEF ranked_chunks, s

(* The loop of search, entry by entry. *)
LEMMA SearchEnds ==
    ASSUME NEW c, IsSearch(c), IsFiniteSet(Ids), Ids \subseteq Nat, ~no_relevant_results(c)
    PROVE  \E st : search(c) = st.kept /\ TakeHolds(c, ranked_chunks(c), st)
<1> DEFINE s == ranked_chunks(c)
           n == Len(s)
           base == [kept |-> <<>>, budget |-> c.max_tokens, seen |-> {}, stop |-> FALSE]
<1>0. s \in Seq(Ids) /\ n \in Nat
  BY RankedAre
<1>1. search(c) = Taking!Fold(c, base, s).kept
  BY Zenon DEF search, TakeStep, FoldLeft, MapThenFoldSet, Max, Taking!Fold, Taking!Greatest
<1> HIDE DEF s
<1>2. PICK f : Taking!IsRun(f, c, base, s) /\ Taking!Fold(c, base, s) = f[n]
  BY <1>0, Taking!FoldRun, NumbersInductive DEF Taking!Inductive
<1>3. c.max_results \in Nat \ {0} /\ c.max_tokens \in Nat /\ c.tokens \in [Ids -> Nat]
  BY SearchIs
<1> DEFINE t(k) == SubSeq(s, 1, k)
           done == {k \in 0 .. n : TakeHolds(c, t(k), f[k])}
<1>4. 0 \in done
  <2>1. f[0] = base /\ t(0) = <<>> /\ 0 \in 0 .. n
    BY <1>0, <1>2, WholePrefix DEF Taking!IsRun
  <2>2. TakeHolds(c, <<>>, base)
    BY <1>3, TakeStart
  <2> HIDE DEF t, n, base
  <2> QED
    BY <2>1, <2>2
<1>5. ASSUME NEW k \in 0 .. n - 1, k \in done PROVE k + 1 \in done
  <2>1. k + 1 \in 1 .. n /\ k + 1 - 1 = k /\ k + 1 \in 0 .. n
    BY <1>0
  <2>2. f[k + 1] = TakeChunk(c, f[k], s[k + 1])
    BY <1>2, <2>1 DEF Taking!IsRun, TakeStep
  <2>3. t(k) \in Seq(Ids) /\ s[k + 1] \in Ids /\ t(k + 1) = Append(t(k), s[k + 1])
    BY <1>0, PrefixAppend
  <2>4. TakeHolds(c, t(k), f[k])
    BY <1>5
  <2> HIDE DEF t, n, base
  <2>5. TakeHolds(c, t(k + 1), f[k + 1])
    BY <1>3, <2>2, <2>3, <2>4, TakeGoesOn
  <2> QED
    BY <2>1, <2>5
<1> HIDE DEF done
<1>6. \A k \in 0 .. n : k \in done
  BY <1>0, <1>4, <1>5, UpTo
<1>7. n \in done /\ t(n) = s
  BY <1>0, <1>6, WholePrefix
<1>8. TakeHolds(c, s, f[n])
  <2> HIDE DEF t, n, base
  <2> QED
    BY <1>7 DEF done
<1> QED
  BY <1>1, <1>2, <1>8 DEF s

(* What a search finds. *)
FoundAs(c, r, e) ==
    /\ r \in Seq(Ids) /\ e \in Seq(Ids)
    /\ Len(r) <= c.max_results /\ (Len(r) <= 1 \/ TokensOf(c, r) <= c.max_tokens)
    /\ Len(r) <= Len(e) /\ r = SubSeq(e, 1, Len(r)) /\ (e # <<>> => r # <<>>)
    /\ \/ Len(r) \in {Len(e), c.max_results}
       \/ TokensOf(c, SubSeq(e, 1, Len(r) + 1)) > c.max_tokens

LEMMA SearchFinds ==
    ASSUME NEW c, IsSearch(c), IsFiniteSet(Ids), Ids \subseteq Nat, ~no_relevant_results(c)
    PROVE  FoundAs(c, search(c), Offered(c, ranked_chunks(c)))
<1> DEFINE s == ranked_chunks(c)
           e == Offered(c, s)
<1>0. s \in Seq(Ids)
  BY RankedAre
<1>1. e \in Seq(Ids)
  <2> HIDE DEF s
  <2> QED
    BY <1>0, OfferedAre
<1>2. PICK st : search(c) = st.kept /\ TakeHolds(c, s, st)
  BY SearchEnds
<1> DEFINE r == st.kept
<1>3. /\ r \in Seq(Ids) /\ Len(r) <= c.max_results
      /\ Len(r) <= 1 \/ TokensOf(c, r) <= c.max_tokens
  BY <1>2 DEF TakeHolds
<1>4. CASE ~st.stop
  <2>1. r = e
    BY <1>2, <1>4 DEF TakeHolds, Underway
  <2>2. Len(e) <= Len(e) /\ e = SubSeq(e, 1, Len(e))
    <3> HIDE DEF e
    <3> QED
      BY <1>1, WholePrefix
  <2> HIDE DEF e, r, s
  <2>3. FoundAs(c, r, e)
    BY <1>1, <1>3, <2>1, <2>2 DEF FoundAs
  <2> QED
    BY <1>2, <2>3 DEF e, r, s
<1>5. CASE st.stop
  <2>1. Ended(c, s, st)
    BY <1>2, <1>5 DEF TakeHolds
  <2>2. /\ Len(r) >= 1 /\ Len(r) <= Len(e) /\ r = SubSeq(e, 1, Len(r))
        /\ \/ Len(r) = c.max_results
           \/ TokensOf(c, SubSeq(e, 1, Len(r) + 1)) > c.max_tokens
    BY <2>1 DEF Ended
  <2>3. r # <<>>
    BY <1>3, <2>2
  <2> HIDE DEF e, r, s
  <2>4. FoundAs(c, r, e)
    BY <1>1, <1>3, <2>2, <2>3 DEF FoundAs
  <2> QED
    BY <1>2, <2>4 DEF e, r, s
<1> QED
  BY <1>4, <1>5

(* Nothing suppressed is found, and nothing found exceeds the budget. *)
LEMMA SearchShows ==
    ASSUME NEW c, IsSearch(c), IsFiniteSet(Ids), Ids \subseteq Nat
    PROVE  /\ search(c) \in Seq(Ids) /\ Range(search(c)) \subseteq Ids
           /\ Range(search(c)) \cap c.suppress = {}
           /\ Len(search(c)) <= c.max_results
           /\ Len(search(c)) <= 1 \/ TokensOf(c, search(c)) <= c.max_tokens
<1>1. c.max_results \in Nat
  BY SearchIs
<1>2. CASE no_relevant_results(c)
  <2>1. search(c) = <<>>
    BY <1>2 DEF search
  <2>2. <<>> \in Seq(Ids) /\ Range(<<>>) = {} /\ Len(<<>>) = 0
    BY DEF Range
  <2> QED
    BY <1>1, <2>1, <2>2
<1>3. CASE ~no_relevant_results(c)
  <2> DEFINE s == ranked_chunks(c)
             a == Open(c, s)
             e == Offered(c, s)
             r == search(c)
  <2>1. FoundAs(c, r, e)
    BY <1>3, SearchFinds
  <2>2. s \in Seq(Ids)
    BY RankedAre
  <2> HIDE DEF s, r
  <2>3. a \in Seq(Ids) /\ \A m \in DOMAIN a : a[m] \notin c.suppress
    BY <2>2, OfferedAre
  <2>4. \A k \in DOMAIN e : e[k] \notin c.suppress
    <3> DEFINE I == {k \in DOMAIN a : ~c.dedup \/ \A m \in 1 .. k - 1 : c.root[a[m]] # c.root[a[k]]}
    <3>1. e = Picked(a, I) /\ I \in SUBSET (DOMAIN a)
      BY DEF Offered, Elig
    <3> HIDE DEF I, a, e
    <3>2. DOMAIN e = 1 .. Cardinality(I) /\ \A k \in 1 .. Cardinality(I) : Nth(I, k) \in I /\ e[k] = a[Nth(I, k)]
      BY <2>3, <3>1, PickedIs
    <3> QED
      BY <2>3, <3>1, <3>2
  <2>5. r \in Seq(Ids) /\ Len(r) <= Len(e) /\ e \in Seq(Ids) /\ r = SubSeq(e, 1, Len(r))
    BY <2>1 DEF FoundAs
  <2>6. \A k \in DOMAIN r : k \in DOMAIN e /\ r[k] = e[k]
    <3> HIDE DEF e
    <3>1. Len(r) \in 0 .. Len(e)
      BY <2>5
    <3>2. \A k \in 1 .. Len(r) : SubSeq(e, 1, Len(r))[k] = e[k]
      BY <2>5, <3>1
    <3> QED
      BY <2>5, <3>1, <3>2
  <2>7. Range(r) \subseteq Ids /\ Range(r) \cap c.suppress = {}
    <3> HIDE DEF e
    <3> QED
      BY <2>4, <2>5, <2>6 DEF Range
  <2> QED
    BY <2>1, <2>5, <2>7 DEF FoundAs, r
<1> QED
  BY <1>2, <1>3

(* What is found is the longest affordable run from the best chunk on. *)
LEMMA LongestTaken ==
    ASSUME call.kind = "search" => IsSearch(call), IsFiniteSet(Ids), Ids \subseteq Nat
    PROVE  TakesLongestPrefix
<1> SUFFICES ASSUME call.kind = "search", ~no_relevant_results(call)
             PROVE  LongestPrefix(search(call), Eligible)
  BY DEF TakesLongestPrefix
<1> DEFINE r == search(call)
           e == Offered(call, ranked_chunks(call))
<1>1. FoundAs(call, r, e)
  BY SearchFinds
<1>2. Eligible = e
  BY DEF Eligible, FirstOfRoots, Offered, Elig, Open
<1> HIDE DEF r, e
<1>3. /\ r \in Seq(Ids) /\ e \in Seq(Ids) /\ Len(r) <= call.max_results
      /\ Len(r) <= Len(e) /\ r = SubSeq(e, 1, Len(r)) /\ (e # <<>> => r # <<>>)
  BY <1>1 DEF FoundAs
<1>4. IsPrefix(r, e)
  BY <1>3, WholePrefix DEF IsPrefix
<1>5. Len(r) <= 1 \/ Tokens(r) <= call.max_tokens
  BY <1>1, TokensIs DEF FoundAs
<1>6. Len(r) \in {Len(e), call.max_results} \/ Tokens(SubSeq(e, 1, Len(r) + 1)) > call.max_tokens
  BY <1>1, TokensIs DEF FoundAs
<1>7. LongestPrefix(r, e)
  BY <1>3, <1>4, <1>5, <1>6 DEF LongestPrefix
<1> QED
  BY <1>2, <1>7 DEF r

-----------------------------------------------------------------------------
(* Searches: the tool handler, the groups of search_multi and the hints *)

TrimStep(c, st, id) == TrimNext(c, st, id)
GroupStep(x, acc, c) == SearchGroup(acc, c)
TurnStep(c, st, k) == Turn(c, "medium", st)

Trims == INSTANCE FoldLemmas WITH Step <- TrimStep
Groups == INSTANCE FoldLemmas WITH Step <- GroupStep
Turns == INSTANCE FoldLemmas WITH Step <- TurnStep

(* The handler's trimming cuts nothing of what a search returns. *)
LEMMA TrimKeeps ==
    ASSUME NEW c, IsSearch(c), IsFiniteSet(Ids), Ids \subseteq Nat
    PROVE  _handle_search_codebase(c) = search(c)
<1> DEFINE r == search(c)
           n == Len(r)
           base == [kept |-> <<>>, tokens |-> 0, stop |-> FALSE]
           size(k) == TokensOf(c, SubSeq(r, 1, k))
           at(k) == [kept |-> SubSeq(r, 1, k), tokens |-> size(k), stop |-> FALSE]
<1>0. /\ r \in Seq(Ids) /\ n \in Nat /\ n <= c.max_results /\ (n <= 1 \/ TokensOf(c, r) <= c.max_tokens)
      /\ c.max_results \in Nat /\ c.max_tokens \in Nat /\ c.tokens \in [Ids -> Nat]
  <2>1. search(c) \in Seq(Ids) /\ Len(search(c)) \in Nat
    BY SearchShows
  <2> QED
    BY <2>1, SearchShows, SearchIs
<1>1. _handle_search_codebase(c) = Trims!Fold(c, base, r).kept
  BY Zenon DEF _handle_search_codebase, kept_chunks, TrimStep, FoldLeft, MapThenFoldSet, Max,
    Trims!Fold, Trims!Greatest
<1> HIDE DEF r
<1>2. PICK f : Trims!IsRun(f, c, base, r) /\ Trims!Fold(c, base, r) = f[n]
  BY <1>0, Trims!FoldRun, NumbersInductive DEF Trims!Inductive
<1>3. \A k \in 0 .. n : size(k) \in Nat /\ size(k) <= TokensOf(c, r) /\ TokensOf(c, r) \in Nat
  BY <1>0, TokensGrow
<1> DEFINE done == {k \in 0 .. n : f[k] = at(k)}
<1>4. 0 \in done
  <2>1. f[0] = base /\ SubSeq(r, 1, 0) = <<>> /\ 0 \in 0 .. n /\ TokensOf(c, <<>>) = 0
    BY <1>0, <1>2, WholePrefix, TokensEmpty DEF Trims!IsRun
  <2> QED
    BY <2>1
<1> HIDE DEF n
<1>5. ASSUME NEW k \in 0 .. n - 1, k \in done PROVE k + 1 \in done
  <2>1. k + 1 \in 1 .. n /\ k + 1 - 1 = k /\ k + 1 \in 0 .. n /\ n = Len(r) /\ k \in 0 .. n /\ k \in Nat
    BY <1>0 DEF n
  <2> DEFINE x == r[k + 1]
             p == SubSeq(r, 1, k)
             st == f[k]
  <2>2. f[k + 1] = TrimNext(c, st, x)
    BY <1>2, <2>1 DEF Trims!IsRun, TrimStep
  <2>3. p \in Seq(Ids) /\ x \in Ids /\ Len(p) = k /\ SubSeq(r, 1, k + 1) = Append(p, x)
    BY <1>0, <2>1, PrefixAppend
  <2>4. st = at(k)
    BY <1>5
  <2>5. st.kept = p /\ st.tokens = size(k) /\ st.stop = FALSE
    BY <2>4
  <2>6. size(k + 1) = size(k) + c.tokens[x] /\ c.tokens[x] \in Nat
    BY <1>0, <2>3, TokensAppend
  <2>7. ~(Len(p) >= c.max_results)
    BY <1>0, <2>1, <2>3
  <2>8. ~(size(k) + c.tokens[x] > c.max_tokens /\ p # <<>>)
    <3>1. SUFFICES ASSUME p # <<>> PROVE size(k) + c.tokens[x] <= c.max_tokens
      BY <1>0, <1>3, <2>1, <2>6
    <3>2. k # 0
      BY <2>3, <3>1
    <3>3. ~(n <= 1)
      BY <1>0, <2>1, <3>2
    <3>4. TokensOf(c, r) <= c.max_tokens
      BY <1>0, <3>3 DEF n
    <3>5. size(k + 1) <= TokensOf(c, r)
      BY <1>3, <2>1
    <3>6. size(k + 1) \in Nat /\ TokensOf(c, r) \in Nat
      BY <1>3, <2>1
    <3> HIDE DEF size
    <3> QED
      BY <1>0, <2>6, <3>4, <3>5, <3>6
  <2> HIDE DEF p, x, size
  <2>9. f[k + 1] = [kept |-> Append(p, x), tokens |-> size(k) + c.tokens[x], stop |-> FALSE]
    <3>1. f[k + 1] = [st EXCEPT !.kept = Append(@, x), !.tokens = @ + c.tokens[x]]
      BY <2>2, <2>5, <2>7, <2>8 DEF TrimNext
    <3>2. st = [kept |-> p, tokens |-> size(k), stop |-> FALSE]
      BY <2>4 DEF p
    <3> HIDE DEF st
    <3> QED
      BY <3>1, <3>2
  <2>10. SubSeq(r, 1, k + 1) = Append(p, x)
    BY <2>3
  <2>11. f[k + 1] = at(k + 1)
    BY <2>6, <2>9, <2>10
  <2> QED
    BY <2>1, <2>11
<1> HIDE DEF done
<1>6. \A k \in 0 .. n : k \in done
  BY <1>0, <1>4, <1>5, UpTo DEF n
<1>7. n \in done /\ SubSeq(r, 1, n) = r
  BY <1>0, <1>6, WholePrefix DEF n
<1>8. f[n].kept = r
  <2>1. f[n] = at(n)
    BY <1>7 DEF done
  <2> QED
    BY <1>7, <2>1
<1> QED
  BY <1>1, <1>2, <1>8 DEF n, r

LEMMA SameSequence ==
    ASSUME NEW T, NEW a \in Seq(T), NEW b \in Seq(T), Len(a) = Len(b),
           \A k \in 1 .. Len(a) : a[k] = b[k]
    PROVE  a = b
  OBVIOUS

LEMMA ShortAppends ==
    ASSUME NEW x \in Seq(Ids), NEW y \in Seq(Ids), NEW z \in Seq(Ids)
    PROVE  Append(<<x>>, y) = <<x, y>> /\ Append(<<x, y>>, z) = <<x, y, z>>
<1> DEFINE a == Append(<<x>>, y)
           b == <<x, y>>
           d == Append(<<x, y>>, z)
           e == <<x, y, z>>
<1>1. a \in Seq(Seq(Ids)) /\ Len(a) = 2 /\ a[1] = x /\ a[2] = y
  OBVIOUS
<1>2. b \in Seq(Seq(Ids)) /\ Len(b) = 2 /\ b[1] = x /\ b[2] = y
  OBVIOUS
<1>3. d \in Seq(Seq(Ids)) /\ Len(d) = 3 /\ d[1] = x /\ d[2] = y /\ d[3] = z
  OBVIOUS
<1>4. e \in Seq(Seq(Ids)) /\ Len(e) = 3 /\ e[1] = x /\ e[2] = y /\ e[3] = z
  OBVIOUS
<1> HIDE DEF a, b, d, e
<1>5. a = b
  <2>1. \A k \in 1 .. 2 : a[k] = b[k]
    <3>1. \A k \in 1 .. 2 : k = 1 \/ k = 2
      OBVIOUS
    <3> QED
      BY <1>1, <1>2, <3>1
  <2> QED
    BY <1>1, <1>2, <2>1, SameSequence
<1>6. d = e
  <2>1. \A k \in 1 .. 3 : d[k] = e[k]
    <3>1. \A k \in 1 .. 3 : k = 1 \/ k = 2 \/ k = 3
      OBVIOUS
    <3> QED
      BY <1>3, <1>4, <3>1
  <2>2. Len(d) = Len(e) /\ \A k \in 1 .. Len(d) : d[k] = e[k]
    BY <1>3, <1>4, <2>1
  <2>3. d \in Seq(Seq(Ids)) /\ e \in Seq(Seq(Ids))
    BY <1>3, <1>4
  <2> QED
    BY <2>2, <2>3, SameSequence
<1> QED
  BY <1>5, <1>6 DEF a, b, d, e

LEMMA PairRange ==
    ASSUME NEW x, NEW y
    PROVE  Range(<<x, y>>) = {x, y}
  BY DEF Range

LEMMA OtherSearches ==
    ASSUME NEW c, IsSearch(c)
    PROVE  /\ \A S \in SUBSET Ids : /\ IsSearch([c EXCEPT !.suppress = S])
                                    /\ [c EXCEPT !.suppress = S].suppress = S
           /\ IsSearch([c EXCEPT !.lex = c.dense, !.dense = c.lex])
           /\ [c EXCEPT !.lex = c.dense, !.dense = c.lex].suppress = c.suppress
<1>1. c \in SearchRecords /\ \A s \in Range(c.lex) \cup Range(c.dense) : s \in Rankings
  BY SearchIs DEF IsSearch
<1>2. \A S \in SUBSET Ids : /\ [c EXCEPT !.suppress = S] \in SearchRecords
                            /\ [c EXCEPT !.suppress = S].suppress = S
                            /\ [c EXCEPT !.suppress = S].lex = c.lex
                            /\ [c EXCEPT !.suppress = S].dense = c.dense
  BY <1>1 DEF SearchRecords
<1> DEFINE d == [c EXCEPT !.lex = c.dense, !.dense = c.lex]
<1>3. d \in SearchRecords /\ d.lex = c.dense /\ d.dense = c.lex /\ d.suppress = c.suppress
  BY <1>1 DEF SearchRecords
<1>4. \A S \in SUBSET Ids : IsSearch([c EXCEPT !.suppress = S])
  BY <1>2 DEF IsSearch
<1> HIDE DEF d
<1>5. IsSearch(d)
  <2>1. c.lex \in Seq(Rankings) /\ c.dense \in Seq(Rankings)
    BY SearchIs
  <2>2. Range(c.dense \o c.lex) = Range(c.dense) \cup Range(c.lex)
    BY <2>1, RangeOfBoth
  <2> QED
    BY <1>1, <1>3, <2>2 DEF IsSearch
<1> QED
  BY <1>2, <1>3, <1>4, <1>5 DEF d

(* Of two sub-queries, the second is not shown what the first one was. *)
LEMMA GroupsDiffer ==
    ASSUME call.kind = "search" => IsSearch(call), IsFiniteSet(Ids), Ids \subseteq Nat
    PROVE  MultiShowsOnce
<1> SUFFICES ASSUME call.kind = "search"
             PROVE  ShownOnce(search_multi(<<call, [call EXCEPT !.lex = call.dense, !.dense = call.lex]>>))
  BY DEF MultiShowsOnce
<1> DEFINE other == [call EXCEPT !.lex = call.dense, !.dense = call.lex]
           cs == <<call, other>>
           base == [groups |-> <<>>, shown |-> {}]
           first == [call EXCEPT !.suppress = @ \cup {}]
           r == search(first)
           second == [other EXCEPT !.suppress = @ \cup Range(r)]
           q == search(second)
<1>1. IsSearch(call) /\ call.suppress \in SUBSET Ids
  BY SearchIs
<1>2. IsSearch(other) /\ other.suppress = call.suppress
  BY <1>1, OtherSearches
<1>3. IsSearch(first) /\ first.suppress = call.suppress
  <2>1. call.suppress \cup {} \in SUBSET Ids /\ call.suppress \cup {} = call.suppress
    BY <1>1
  <2> QED
    BY <1>1, <2>1, OtherSearches
<1> HIDE DEF first, other
<1>4. r \in Seq(Ids) /\ Range(r) \subseteq Ids /\ Range(r) \cap call.suppress = {}
  BY <1>3, SearchShows
<1> HIDE DEF r
<1>5. IsSearch(second) /\ second.suppress = call.suppress \cup Range(r)
  <2>1. other.suppress \cup Range(r) \in SUBSET Ids
    BY <1>1, <1>2, <1>4
  <2> QED
    BY <1>2, <2>1, OtherSearches
<1> HIDE DEF second
<1>6. q \in Seq(Ids) /\ Range(q) \cap (call.suppress \cup Range(r)) = {}
  BY <1>5, SearchShows
<1> HIDE DEF q
<1>7. search_multi(cs) = Groups!Fold(0, base, cs).groups
  BY Zenon DEF search_multi, GroupStep, FoldLeft, MapThenFoldSet, Max, Groups!Fold, Groups!Greatest
<1>8. cs \in Seq({call, other}) /\ Len(cs) = 2 /\ cs[1] = call /\ cs[2] = other
  OBVIOUS
<1> HIDE DEF cs
<1>9. PICK f : Groups!IsRun(f, 0, base, cs) /\ Groups!Fold(0, base, cs) = f[2]
  BY <1>8, Groups!FoldRun, NumbersInductive DEF Groups!Inductive
<1>10. f[0] = base /\ f[1] = SearchGroup(f[0], call) /\ f[2] = SearchGroup(f[1], other)
  <2>1. 1 \in 1 .. Len(cs) /\ 2 \in 1 .. Len(cs) /\ 1 - 1 = 0 /\ 2 - 1 = 1
    BY <1>8
  <2>2. /\ f[0] = base
        /\ \A k \in 1 .. Len(cs) : f[k] = SearchGroup(f[k - 1], cs[k])
    BY <1>9, Zenon DEF Groups!IsRun, GroupStep
  <2> QED
    BY <1>8, <2>1, <2>2
<1>11. f[1] = [groups |-> <<r>>, shown |-> Range(r)]
  <2>1. f[1] = WithGroup(base, r)
    BY <1>10 DEF SearchGroup, first, r
  <2>2. WithGroup(base, r) = [groups |-> Append(<<>>, r), shown |-> {} \cup Range(r)]
    BY DEF WithGroup
  <2>3. Append(<<>>, r) = <<r>> /\ {} \cup Range(r) = Range(r)
    OBVIOUS
  <2> QED
    BY <2>1, <2>2, <2>3
<1>12. f[2].groups = <<r, q>>
  <2>1. f[2] = WithGroup(f[1], q)
    <3>1. f[1].shown = Range(r)
      BY <1>11
    <3> QED
      BY <1>10, <3>1 DEF SearchGroup, second, q
  <2>2. f[2].groups = Append(<<r>>, q)
    BY <1>11, <2>1 DEF WithGroup
  <2> QED
    BY <1>4, <1>6, <2>2, ShortAppends
<1>13. ShownOnce(<<r, q>>)
  <2>1. Range(<<r, q>>) = {r, q}
    BY PairRange
  <2>2. <<r, q>>[1] = r /\ <<r, q>>[2] = q
    OBVIOUS
  <2> QED
    BY <1>4, <1>6, <2>1, <2>2 DEF ShownOnce
<1> QED
  BY <1>7, <1>9, <1>12, <1>13 DEF cs, other

(* Asked three times, with the hints followed: the same twice, then new. *)
LEMMA SameAgain ==
    ASSUME NEW c, IsSearch(c), IsFiniteSet(Ids), Ids \subseteq Nat
    PROVE  RepeatedThenNew(Dialogue(c, "medium", 3))
<1> DEFINE k3 == [k \in 1 .. 3 |-> k]
           base == [recent |-> <<>>, hint |-> NoHint, answers |-> <<>>]
           asked == [c EXCEPT !.suppress = {}]
           none == no_relevant_results(asked)
           r == search(asked)
           h == _build_suggested_followup(r, "medium", none, <<r>>)
           last == [c EXCEPT !.suppress = h.values]
           q == search(last)
<1>1. IsSearch(asked)
  BY OtherSearches
<1> HIDE DEF asked
<1>2. r \in Seq(Ids) /\ Range(r) \subseteq Ids /\ _handle_search_codebase(asked) = r
  BY <1>1, SearchShows, TrimKeeps
<1>3. none => Range(r) = {}
  BY DEF search, Range
<1>4. h.values \in SUBSET Ids /\ (Range(r) = {} \/ h.values = Range(r))
  <2>1. UNION {Range(x) : x \in Range(<<r>>)} = Range(r)
    BY DEF Range
  <2> HIDE DEF r, none
  <2>2. h = IF none THEN [action |-> "prior_context", values |-> {}]
            ELSE IF Range(r) \cap Range(r) # {} THEN [action |-> "suppress_ids", values |-> Range(r)]
            ELSE NoHint
    BY <2>1 DEF _build_suggested_followup
  <2> HIDE DEF h
  <2> QED
    BY <1>2, <1>3, <2>2 DEF NoHint
<1> HIDE DEF r, none, h
<1>5. IsSearch(last) /\ last.suppress = h.values
  BY <1>4, OtherSearches
<1> HIDE DEF last
<1>6. q \in Seq(Ids) /\ Range(q) \cap h.values = {} /\ _handle_search_codebase(last) = q
  BY <1>5, SearchShows, TrimKeeps
<1> HIDE DEF q
<1>7. Range(q) \cap Range(r) = {}
  BY <1>4, <1>6
<1>8. Dialogue(c, "medium", 3) = Turns!Fold(c, base, k3).answers
  BY Zenon DEF Dialogue, TurnStep, FoldLeft, MapThenFoldSet, Max, Turns!Fold, Turns!Greatest
<1>9. k3 \in Seq(Nat) /\ Len(k3) = 3
  OBVIOUS
<1> HIDE DEF k3
<1>10. PICK f : Turns!IsRun(f, c, base, k3) /\ Turns!Fold(c, base, k3) = f[3]
  BY <1>9, Turns!FoldRun, NumbersInductive DEF Turns!Inductive
<1>11. /\ f[0] = base /\ f[1] = Turn(c, "medium", f[0]) /\ f[2] = Turn(c, "medium", f[1])
       /\ f[3] = Turn(c, "medium", f[2])
  <2>1. /\ 1 \in 1 .. Len(k3) /\ 2 \in 1 .. Len(k3) /\ 3 \in 1 .. Len(k3)
        /\ 1 - 1 = 0 /\ 2 - 1 = 1 /\ 3 - 1 = 2
    BY <1>9
  <2>2. /\ f[0] = base
        /\ \A k \in 1 .. Len(k3) : f[k] = Turn(c, "medium", f[k - 1])
    BY <1>10, Zenon DEF Turns!IsRun, TurnStep
  <2> QED
    BY <2>1, <2>2
<1>12. /\ f[1].recent = <<r>> /\ f[1].answers = <<r>> /\ f[1].hint.values = {}
  <2>1. f[0].hint.values = {} /\ f[0].recent = <<>> /\ f[0].answers = <<>>
    BY <1>11 DEF NoHint
  <2>2. f[1] = Answered(f[0], r, "medium", none)
    BY <1>2, <1>11, <2>1 DEF Turn, asked, none
  <2>3. Recorded(<<>>, r) = <<r>>
    <3>1. Append(<<>>, r) = <<r>> /\ Len(<<r>>) = 1 /\ ~(1 > Remembered)
      BY RememberedAssumption
    <3> QED
      BY <3>1 DEF Recorded
  <2>4. _build_suggested_followup(r, "medium", none, <<>>).values = {}
    <3>1. UNION {Range(x) : x \in Range(<<>>)} = {}
      BY DEF Range
    <3> QED
      BY <3>1 DEF _build_suggested_followup, NoHint
  <2> QED
    BY <2>1, <2>2, <2>3, <2>4 DEF Answered
<1>13. f[2].answers = <<r, r>> /\ f[2].hint = h
  <2>1. f[2] = Answered(f[1], r, "medium", none)
    BY <1>2, <1>11, <1>12 DEF Turn, asked, none
  <2>2. Append(<<r>>, r) = <<r, r>>
    BY <1>2, ShortAppends
  <2> QED
    BY <1>12, <2>1, <2>2 DEF Answered, h
<1>14. f[3].answers = <<r, r, q>>
  <2>1. f[3].answers = Append(f[2].answers, q)
    BY <1>6, <1>11, <1>13 DEF Turn, Answered, last
  <2>2. Append(<<r, r>>, q) = <<r, r, q>>
    BY <1>2, <1>6, ShortAppends
  <2> QED
    BY <1>13, <2>1, <2>2
<1>15. RepeatedThenNew(<<r, r, q>>)
  BY <1>7 DEF RepeatedThenNew
<1> QED
  BY <1>8, <1>10, <1>14, <1>15

-----------------------------------------------------------------------------
(* Searches: suppressed ids cost no result *)

(* What Among keeps of a longer prefix: as much or more. *)
KeepsAs(c, s, S, k) ==
    LET a == Among(SubSeq(s, 1, k), S)
        b == Among(SubSeq(s, 1, k), Ids \ S)
    IN /\ a \in Seq(Ids) /\ Len(a) + Len(b) = k /\ b \in Seq(Ids)
       /\ TokensOf(c, a) <= TokensOf(c, SubSeq(s, 1, k))
       /\ \A m \in 0 .. k : LET p == Among(SubSeq(s, 1, m), S)
                            IN Len(p) <= Len(a) /\ SubSeq(a, 1, Len(p)) = p

LEMMA KeepsOn ==
    ASSUME NEW c, c.tokens \in [Ids -> Nat], NEW s \in Seq(Ids), NEW S, NEW k \in 0 .. Len(s) - 1,
           KeepsAs(c, s, S, k)
    PROVE  KeepsAs(c, s, S, k + 1)
<1> DEFINE A(m) == Among(SubSeq(s, 1, m), S)
           B(m) == Among(SubSeq(s, 1, m), Ids \ S)
           t(m) == SubSeq(s, 1, m)
           x == s[k + 1]
           size(q) == TokensOf(c, q)
<1>1. t(k) \in Seq(Ids) /\ x \in Ids /\ t(k + 1) = Append(t(k), x) /\ c.tokens[x] \in Nat /\ k \in Nat
  BY PrefixAppend
<1>2. /\ A(k) \in Seq(Ids) /\ B(k) \in Seq(Ids) /\ Len(A(k)) + Len(B(k)) = k
      /\ size(A(k)) <= size(t(k))
      /\ \A m \in 0 .. k : Len(A(m)) <= Len(A(k)) /\ SubSeq(A(k), 1, Len(A(m))) = A(m)
  BY DEF KeepsAs
<1>3. /\ A(k + 1) = IF x \in S THEN Append(A(k), x) ELSE A(k)
      /\ B(k + 1) = IF x \in S THEN B(k) ELSE Append(B(k), x)
  <2>1. x \in Ids \ S <=> x \notin S
    BY <1>1
  <2>0. A(k) = Among(t(k), S) /\ B(k) = Among(t(k), Ids \ S) /\ A(k + 1) = Among(t(k + 1), S)
        /\ B(k + 1) = Among(t(k + 1), Ids \ S)
    OBVIOUS
  <2> HIDE DEF A, B, t, x
  <2>2. \A R : Among(Append(t(k), x), R) = IF x \in R THEN Append(Among(t(k), R), x) ELSE Among(t(k), R)
    <3> DEFINE q == t(k)
    <3>1. q \in Seq(Ids) /\ x \in Ids
      BY <1>1
    <3> HIDE DEF q
    <3> QED
      BY <3>1, AmongAppend DEF q
  <2>3. /\ Among(Append(t(k), x), S) = IF x \in S THEN Append(A(k), x) ELSE A(k)
        /\ Among(Append(t(k), x), Ids \ S) = IF x \in Ids \ S THEN Append(B(k), x) ELSE B(k)
    BY <2>0, <2>2
  <2> QED
    BY <1>1, <2>0, <2>1, <2>3
<1>4. size(t(k + 1)) = size(t(k)) + c.tokens[x] /\ size(t(k)) \in Nat
  BY <1>1, TokensAppend, TokensGrow
<1> HIDE DEF t, A, B
<1>5. size(Append(A(k), x)) = size(A(k)) + c.tokens[x] /\ size(A(k)) \in Nat
  BY <1>1, <1>2, TokensAppend, TokensGrow
<1> HIDE DEF x, size
<1>6. /\ A(k + 1) \in Seq(Ids) /\ B(k + 1) \in Seq(Ids) /\ Len(A(k + 1)) + Len(B(k + 1)) = k + 1
      /\ size(A(k + 1)) <= size(t(k + 1)) /\ Len(A(k)) <= Len(A(k + 1))
  <2>1. Append(A(k), x) \in Seq(Ids) /\ Append(B(k), x) \in Seq(Ids)
        /\ Len(Append(A(k), x)) = Len(A(k)) + 1 /\ Len(Append(B(k), x)) = Len(B(k)) + 1
        /\ Len(A(k)) \in Nat /\ Len(B(k)) \in Nat
    BY <1>1, <1>2
  <2> DEFINE more == c.tokens[x]
             la == Len(A(k))
             lb == Len(B(k))
  <2>2. more \in Nat /\ la + lb = k /\ la \in Nat /\ lb \in Nat
    BY <1>1, <1>2, <2>1 DEF x
  <2>3. /\ size(t(k + 1)) = size(t(k)) + more /\ size(Append(A(k), x)) = size(A(k)) + more
        /\ size(t(k)) \in Nat /\ size(A(k)) \in Nat /\ size(A(k)) <= size(t(k))
    BY <1>2, <1>4, <1>5 DEF x
  <2> HIDE DEF more
  <2>4. CASE x \in S
    <3>1. A(k + 1) = Append(A(k), x) /\ B(k + 1) = B(k)
      BY <1>3, <2>4
    <3>2. Len(A(k + 1)) = la + 1 /\ Len(B(k + 1)) = lb
      BY <2>1, <3>1
    <3>3. size(A(k + 1)) <= size(t(k + 1))
      <4>1. size(A(k + 1)) = size(Append(A(k), x))
        BY <3>1
      <4> HIDE DEF la, lb
      <4> QED
        BY <2>2, <2>3, <4>1
    <3> HIDE DEF la, lb
    <3>4. Len(A(k + 1)) + Len(B(k + 1)) = k + 1 /\ la <= Len(A(k + 1))
      <4>1. k \in Nat
        BY <1>1
      <4> QED
        BY <2>2, <3>2, <4>1
    <3> QED
      BY <1>2, <2>1, <3>1, <3>3, <3>4 DEF la
  <2>5. CASE x \notin S
    <3>1. A(k + 1) = A(k) /\ B(k + 1) = Append(B(k), x)
      BY <1>3, <2>5
    <3>2. Len(A(k + 1)) = la /\ Len(B(k + 1)) = lb + 1
      BY <2>1, <3>1
    <3>3. size(A(k + 1)) <= size(t(k + 1))
      <4>1. size(A(k + 1)) = size(A(k))
        BY <3>1
      <4> HIDE DEF la, lb
      <4> QED
        BY <2>2, <2>3, <4>1
    <3> HIDE DEF la, lb
    <3>4. Len(A(k + 1)) + Len(B(k + 1)) = k + 1 /\ la <= Len(A(k + 1))
      <4>1. k \in Nat
        BY <1>1
      <4> QED
        BY <2>2, <3>2, <4>1
    <3> QED
      BY <1>2, <2>1, <3>1, <3>3, <3>4 DEF la
  <2> QED
    BY <2>4, <2>5
<1>7. ASSUME NEW m \in 0 .. k + 1 PROVE Len(A(m)) <= Len(A(k + 1)) /\ SubSeq(A(k + 1), 1, Len(A(m))) = A(m)
  <2>1. CASE m = k + 1
    <3>1. SubSeq(A(k + 1), 1, Len(A(k + 1))) = A(k + 1) /\ Len(A(k + 1)) \in Nat
      BY <1>6, WholePrefix
    <3> QED
      BY <2>1, <3>1
  <2>2. CASE m \in 0 .. k
    <3>1. Len(A(m)) <= Len(A(k)) /\ SubSeq(A(k), 1, Len(A(m))) = A(m)
      BY <1>2, <2>2
    <3>2. Len(A(m)) \in 0 .. Len(A(k))
      <4>1. A(m) \in Seq(Ids \cap S)
        <5>1. t(m) \in Seq(Ids)
          <6>1. m \in 0 .. Len(s)
            BY <2>2
          <6> QED
            BY <6>1 DEF t
        <5> QED
          BY <5>1, AmongIs DEF A, t
      <4>2. Len(A(m)) \in Nat /\ Len(A(k)) \in Nat
        BY <1>2, <4>1
      <4> QED
        BY <3>1, <4>2
    <3>3. SubSeq(Append(A(k), x), 1, Len(A(m))) = SubSeq(A(k), 1, Len(A(m)))
      BY <1>1, <1>2, <3>2, PrefixStays
    <3>4. Len(A(m)) <= Len(A(k + 1))
      BY <1>2, <1>6, <3>1, <3>2
    <3> QED
      BY <1>3, <3>1, <3>3, <3>4
  <2>3. m = k + 1 \/ m \in 0 .. k
    BY <1>1
  <2> QED
    BY <2>1, <2>2, <2>3
<1> QED
  BY <1>6, <1>7 DEF KeepsAs, A, B, t, size

LEMMA KeepsAll ==
    ASSUME NEW c, c.tokens \in [Ids -> Nat], NEW s \in Seq(Ids), NEW S
    PROVE  \A k \in 0 .. Len(s) : KeepsAs(c, s, S, k)
<1> DEFINE n == Len(s)
           done == {k \in 0 .. n : KeepsAs(c, s, S, k)}
<1>0. n \in Nat /\ 0 \in 0 .. n
  OBVIOUS
<1>1. KeepsAs(c, s, S, 0)
  <2>1. SubSeq(s, 1, 0) = <<>> /\ TokensOf(c, <<>>) = 0
    BY WholePrefix, TokensEmpty
  <2>2. Among(<<>>, S) = <<>> /\ Among(<<>>, Ids \ S) = <<>>
    BY EmptyAmong
  <2>3. <<>> \in Seq(Ids) /\ Len(<<>>) = 0 /\ \A m \in 0 .. 0 : m = 0
    OBVIOUS
  <2>4. SubSeq(<<>>, 1, 0) = <<>>
    BY <2>3, WholePrefix
  <2> QED
    <3> DEFINE e(m) == SubSeq(s, 1, m)
    <3>1. \A m \in 0 .. 0 : e(m) = <<>>
      BY <2>1
    <3>2. e(0) = <<>> /\ TokensOf(c, <<>>) <= TokensOf(c, <<>>) /\ 0 + 0 = 0 /\ 0 <= 0
      BY <2>1
    <3>3. \A m \in 0 .. 0 : Among(e(m), S) = <<>>
      BY <2>2, <3>1
    <3>4. Among(e(0), S) = <<>> /\ Among(e(0), Ids \ S) = <<>>
      BY <2>2, <3>2
    <3>5. KeepsAs(c, s, S, 0) <=>
            /\ Among(e(0), S) \in Seq(Ids) /\ Len(Among(e(0), S)) + Len(Among(e(0), Ids \ S)) = 0
            /\ Among(e(0), Ids \ S) \in Seq(Ids) /\ TokensOf(c, Among(e(0), S)) <= TokensOf(c, e(0))
            /\ \A m \in 0 .. 0 : /\ Len(Among(e(m), S)) <= Len(Among(e(0), S))
                                /\ SubSeq(Among(e(0), S), 1, Len(Among(e(m), S))) = Among(e(m), S)
      BY DEF KeepsAs
    <3> HIDE DEF e
    <3> QED
      BY <2>3, <2>4, <3>2, <3>3, <3>4, <3>5
<1>2. ASSUME NEW k \in 0 .. n - 1, k \in done PROVE k + 1 \in done
  <2>1. KeepsAs(c, s, S, k + 1)
    BY <1>2, KeepsOn
  <2>2. k + 1 \in 0 .. n
    BY <1>0
  <2> QED
    BY <2>1, <2>2
<1>3. 0 \in done
  BY <1>0, <1>1
<1> HIDE DEF done
<1>4. \A k \in 0 .. n : k \in done
  BY <1>0, <1>2, <1>3, UpTo
<1> QED
  BY <1>4 DEF done

(* A search that can afford everything finds the best of what it may show. *)
LEMMA NeverStarves ==
    ASSUME call.kind = "search" => IsSearch(call), IsFiniteSet(Ids), Ids \subseteq Nat
    PROVE  SuppressNeverStarves
<1> DEFINE c == [call EXCEPT !.max_tokens = Tokens(Ranked), !.dedup = FALSE, !.floor = 0,
                             !.exists = Ids, !.code_signal = FALSE]
           S == Ids \ c.suppress
           rest == Among(Ranked, S)
           max == c.max_results
           few == Cardinality(c.suppress)
           cap == max + few
<1> SUFFICES ASSUME call.kind = "search", cap <= TopN
             PROVE  search(c) = Take(rest, max)
  BY DEF SuppressNeverStarves
<1> DEFINE R == FusedList(call)
           n == Len(R)
           m == IF n < cap THEN n ELSE cap
           F == SubSeq(R, 1, m)
           a == Among(F, S)
           r == search(c)
<1>0. IsSearch(call) /\ Ranked = R
  BY DEF FusedList, Ranked
<1>1. R \in Seq(Ids) /\ n \in Nat /\ \A i, j \in DOMAIN R : R[i] = R[j] => i = j
  BY <1>0, FusedIs
<1>2. Tokens(Ranked) \in Nat /\ Tokens(Ranked) = TokensOf(call, R)
  <2>1. Tokens(Ranked) = TokensOf(call, R)
    BY <1>0, TokensIs
  <2>2. call.tokens \in [Ids -> Nat]
    BY <1>0, SearchIs
  <2>3. TokensOf(call, R) \in Nat
    <3> HIDE DEF R
    <3> QED
      BY <1>1, <2>2, TokensGrow
  <2> QED
    BY <2>1, <2>3
<1>3. /\ IsSearch(c) /\ c.max_tokens = TokensOf(call, R) /\ c.dedup = FALSE /\ c.floor = 0
      /\ c.exists = Ids /\ c.code_signal = FALSE /\ c.lex = call.lex /\ c.dense = call.dense
      /\ c.weights = call.weights /\ c.suppress = call.suppress /\ c.tokens = call.tokens
      /\ c.max_results = call.max_results
  <2> HIDE DEF R
  <2>1. call \in SearchRecords /\ \A s \in Range(call.lex \o call.dense) : s \in Rankings
    BY <1>0 DEF IsSearch
  <2>2. c \in SearchRecords
    BY <1>2, <2>1 DEF SearchRecords
  <2>3. /\ c.max_tokens = Tokens(Ranked) /\ c.dedup = FALSE /\ c.floor = 0
        /\ c.exists = Ids /\ c.code_signal = FALSE /\ c.lex = call.lex /\ c.dense = call.dense
        /\ c.weights = call.weights /\ c.suppress = call.suppress /\ c.tokens = call.tokens
        /\ c.max_results = call.max_results
    BY <2>1 DEF SearchRecords
  <2> QED
    BY <1>2, <2>1, <2>2, <2>3 DEF IsSearch
<1>4. FusedList(c) = R
  BY <1>3 DEF FusedList
<1> HIDE DEF c
<1>5. c.suppress \in SUBSET Ids /\ max \in Nat \ {0} /\ c.tokens \in [Ids -> Nat] /\ few \in Nat
      /\ IsFiniteSet(c.suppress)
  <2>1. c.suppress \in SUBSET Ids /\ max \in Nat \ {0} /\ c.tokens \in [Ids -> Nat]
    BY <1>3, SearchIs
  <2>2. IsFiniteSet(c.suppress)
    BY <2>1, FS_Subset
  <2> QED
    BY <2>1, <2>2, FS_CardinalityType
<1>6. \A t : TokensOf(c, t) = TokensOf(call, t)
  BY <1>3 DEF TokensOf
<1>7. ~no_relevant_results(c)
  BY <1>3 DEF no_relevant_results
<1>8. m \in 0 .. n /\ cap \in Nat /\ cap >= 1
  BY <1>1, <1>5
<1> HIDE DEF R
<1>9. F \in Seq(Ids) /\ Len(F) = m /\ \A i, j \in DOMAIN F : F[i] = F[j] => i = j
  <2>1. F \in Seq(Ids) /\ Len(F) = m /\ \A i \in 1 .. m : F[i] = R[i]
    <3> HIDE DEF m
    <3> QED
      BY <1>1, <1>8
  <2>2. \A i \in 1 .. m : i \in DOMAIN R
    BY <1>1, <1>8
  <2> HIDE DEF F, m
  <2> QED
    BY <1>1, <2>1, <2>2
<1>10. Fused(c) = F
  <2>1. Cap(c) = cap
    BY <1>5, PipelineAssumption DEF Cap
  <2>2. (IF cap > 1 THEN cap ELSE 1) = cap
    BY <1>8
  <2>3. Fused(c) = CutAt(R, cap)
    BY <1>4, <2>1, <2>2 DEF Fused, FusedList
  <2> QED
    BY <2>3 DEF CutAt
<1>11. ranked_chunks(c) = F
  <2> HIDE DEF F
  <2> QED
    BY <1>3, <1>9, <1>10, AmongAll DEF ranked_chunks, Reranked
<1>12. Offered(c, F) = a /\ a \in Seq(Ids)
  <2> HIDE DEF F
  <2>1. Open(c, F) = a
    BY DEF Open
  <2>2. a \in Seq(Ids)
    BY <1>9, <2>1, OfferedAre
  <2> HIDE DEF a
  <2>3. Elig(c, a) = Picked(a, DOMAIN a)
    BY <1>3 DEF Elig
  <2> QED
    BY <2>1, <2>2, <2>3, PickedAll DEF Offered
<1>13. FoundAs(c, r, a)
  BY <1>3, <1>7, <1>11, <1>12, SearchFinds
<1>14. /\ Len(a) <= Len(rest) /\ SubSeq(rest, 1, Len(a)) = a /\ rest \in Seq(Ids)
       /\ TokensOf(c, a) <= TokensOf(c, F)
       /\ Len(a) + Len(Among(F, Ids \ S)) = m
  <2>1. \A k \in 0 .. n : KeepsAs(c, R, S, k)
    BY <1>1, <1>5, KeepsAll
  <2>2. n \in 0 .. n /\ SubSeq(R, 1, n) = R
    BY <1>1, WholePrefix
  <2> HIDE DEF n, m, S
  <2>3. KeepsAs(c, R, S, n) /\ KeepsAs(c, R, S, m)
    BY <1>8, <2>1, <2>2
  <2>4. Among(SubSeq(R, 1, n), S) = rest
    BY <1>0, <2>2
  <2> HIDE DEF rest
  <2>5. /\ rest \in Seq(Ids)
        /\ Len(a) <= Len(rest) /\ SubSeq(rest, 1, Len(a)) = a
    BY <1>8, <2>3, <2>4 DEF KeepsAs
  <2>6. TokensOf(c, a) <= TokensOf(c, F) /\ Len(a) + Len(Among(F, Ids \ S)) = m
    BY <2>3 DEF KeepsAs
  <2> QED
    BY <2>5, <2>6
<1>15. TokensOf(c, F) <= c.max_tokens /\ c.max_tokens \in Nat /\ TokensOf(c, F) \in Nat
  <2>1. TokensOf(c, F) \in Nat /\ TokensOf(c, F) <= TokensOf(c, R)
    <3> HIDE DEF m
    <3> QED
      BY <1>1, <1>5, <1>8, TokensGrow
  <2>2. TokensOf(c, R) = c.max_tokens
    BY <1>3, <1>6
  <2> HIDE DEF F
  <2> QED
    BY <1>1, <1>5, <2>1, <2>2, TokensGrow
<1>16. Len(Among(F, Ids \ S)) <= few
  <2>1. Ids \ S = c.suppress
    BY <1>5
  <2> HIDE DEF S, F
  <2> QED
    BY <1>5, <1>9, <2>1, AmongFew
<1> HIDE DEF F, S, rest, a, r
<1>17. /\ Len(r) <= max /\ Len(r) <= Len(a) /\ r = SubSeq(a, 1, Len(r)) /\ r \in Seq(Ids)
       /\ Len(r) \in {Len(a), max} \/ TokensOf(c, SubSeq(a, 1, Len(r) + 1)) > c.max_tokens
  BY <1>13 DEF FoundAs
<1>18. Len(r) \in {Len(a), max}
  <2> SUFFICES ASSUME Len(r) # Len(a), TokensOf(c, SubSeq(a, 1, Len(r) + 1)) > c.max_tokens
               PROVE  FALSE
    BY <1>17
  <2> DEFINE k == Len(r) + 1
             part == TokensOf(c, SubSeq(a, 1, k))
  <2>1. k \in 0 .. Len(a)
    BY <1>12, <1>17
  <2> HIDE DEF k
  <2>2. part \in Nat /\ part <= TokensOf(c, a) /\ TokensOf(c, a) \in Nat
    BY <1>5, <1>12, <2>1, TokensGrow
  <2>3. part > c.max_tokens
    BY DEF k
  <2> HIDE DEF part
  <2> QED
    BY <1>14, <1>15, <2>2, <2>3
<1>19. /\ Len(r) \in Nat /\ Len(a) \in Nat /\ Len(rest) \in Nat /\ Len(Among(F, Ids \ S)) \in Nat
  <2>1. Among(F, Ids \ S) \in Seq(Ids \cap (Ids \ S))
    BY <1>9, AmongIs
  <2>2. r \in Seq(Ids) /\ a \in Seq(Ids) /\ rest \in Seq(Ids)
    BY <1>12, <1>14, <1>17
  <2>3. Len(Among(F, Ids \ S)) \in Nat
    BY <2>1
  <2> QED
    BY <2>2, <2>3
<1>20. CASE Len(r) = max
  <2>1. max \in 0 .. Len(a) /\ ~(Len(rest) < max)
    BY <1>5, <1>14, <1>17, <1>19, <1>20
  <2>2. SubSeq(SubSeq(rest, 1, Len(a)), 1, max) = SubSeq(rest, 1, max)
    BY <1>14, <1>19, <2>1, PrefixOfPrefix
  <2>3. r = SubSeq(rest, 1, max)
    BY <1>14, <1>17, <1>20, <2>2
  <2> QED
    BY <2>1, <2>3 DEF Take, r
<1>21. CASE Len(r) = Len(a) /\ Len(r) < max
  <2>1. r = a
    BY <1>12, <1>17, <1>21, WholePrefix
  <2>2. ~(m = cap)
    BY <1>5, <1>14, <1>16, <1>19, <1>21
  <2>3. m = n
    BY <2>2
  <2>4. F = R
    BY <1>1, <2>3, WholePrefix DEF F
  <2>5. a = rest
    BY <1>0, <2>4 DEF a, rest
  <2>6. Len(rest) < max /\ SubSeq(rest, 1, Len(rest)) = rest
    BY <1>14, <1>21, <2>1, <2>5, WholePrefix
  <2> QED
    BY <2>1, <2>5, <2>6 DEF Take, r
<1> QED
  BY <1>5, <1>17, <1>18, <1>19, <1>20, <1>21 DEF r

(* SearchTakesBest: fusion never inverts an order that all the rankings that  *)
(* know a chunk agree on; suppressing ids costs no result; what is returned   *)
(* is the longest affordable run from the best on; a chunk is shown once in a *)
(* multi-search; and a session that follows the hints sees new chunks.        *)
THEOREM SearchTakesBestForAll == AlgSpec => []SearchTakesBest
<1>1. call \in Calls \cup {NoCall} => SearchTakesBest
  <2> HAVE call \in Calls \cup {NoCall}
  <2>1. (call.kind = "search" => IsSearch(call)) /\ IsFiniteSet(Ids) /\ Ids \subseteq Nat
    <3>1. call.kind = "search" => call \in Searches
      BY KindsAssumption DEF Calls, NoCall
    <3> QED
      BY <3>1, SearchesAssumption
  <2>2. ConsensusFirst
    BY <2>1, ConsensusRanks
  <2>3. SuppressNeverStarves
    BY <2>1, NeverStarves
  <2>4. TakesLongestPrefix
    BY <2>1, LongestTaken
  <2>5. MultiShowsOnce
    BY <2>1, GroupsDiffer
  <2>6. HintsShowNew
    BY <2>1, SameAgain DEF HintsShowNew
  <2>7. call.kind = "search" => _handle_search_codebase(call) = search(call)
    BY <2>1, TrimKeeps
  <2> QED
    BY <2>2, <2>3, <2>4, <2>5, <2>6, <2>7 DEF SearchTakesBest
<1> QED
  BY <1>1, CallsMade, PTL

-----------------------------------------------------------------------------
(* Texts *)

IsCharDoc(d) ==
    d.n \in Nat /\ d.size \in Nat \ {0} /\ d.overlap \in Nat /\ d.slack \in Nat /\ d.ends \subseteq Nat

(* The sentence end found is the last one within reach, and before the end. *)
LEMMA SentenceEnd ==
    ASSUME NEW d, IsCharDoc(d), NEW end \in Nat
    PROVE  LET e == _walk_to_sentence_end(d, end)
               lo == Greatest(end - d.slack, 0)
           IN \/ e = end /\ \A p \in d.ends : ~(lo + 2 <= p /\ p <= end)
              \/ /\ e \in d.ends /\ lo + 2 <= e /\ e <= end
                 /\ \A p \in d.ends : (lo + 2 <= p /\ p <= end) => p <= e
<1> DEFINE lo == Greatest(end - d.slack, 0)
           matches == {p \in d.ends : lo + 2 <= p /\ p <= end}
           last == CHOOSE p \in matches : \A q \in matches : q <= p
<1>1. _walk_to_sentence_end(d, end) = IF matches = {} THEN end ELSE last
  BY DEF _walk_to_sentence_end
<1>2. lo \in Nat /\ d.ends \subseteq Nat
  BY DEF Greatest, IsCharDoc
<1> HIDE DEF lo
<1>3. matches \in SUBSET (1 .. end)
  BY <1>2
<1>4. matches # {} => last \in matches /\ \A q \in matches : q <= last
  <2> HAVE matches # {}
  <2>1. \E p \in matches : \A q \in matches : q <= p
    BY <1>3, LastOf
  <2> QED
    BY <2>1
<1> HIDE DEF last
<1> QED
  BY <1>1, <1>4 DEF lo

(* Where a chunk that starts at s ends. *)
LEMMA CharEndIs ==
    ASSUME NEW d, IsCharDoc(d), d.slack < d.size, NEW s \in 0 .. d.n - 1
    PROVE  /\ CharEnd(d, s) \in s + 1 .. d.n /\ CharEnd(d, s) - s <= d.size
           /\ CharEnd(d, s) # d.n => NextStart(d, s) \in s + 1 .. d.n - 1
                                     /\ NextStart(d, s) <= CharEnd(d, s)
<1> DEFINE end == Least(s + d.size, d.n)
           e == CharEnd(d, s)
<1>1. d.n \in Nat /\ s \in Nat /\ s < d.n /\ d.size \in Nat /\ d.size > 0 /\ d.slack \in Nat /\ d.overlap \in Nat
  BY DEF IsCharDoc
<1>2. end \in s + 1 .. d.n /\ end - s <= d.size /\ (end < d.n => end = s + d.size)
  BY <1>1 DEF Least
<1>3. e = IF end < d.n THEN _walk_to_sentence_end(d, end) ELSE end
  BY DEF CharEnd
<1>4. end < d.n => _walk_to_sentence_end(d, end) \in s + 1 .. end
  <2> HAVE end < d.n
  <2> DEFINE w == _walk_to_sentence_end(d, end)
             lo == Greatest(end - d.slack, 0)
  <2>1. w = end \/ (w \in d.ends /\ lo + 2 <= w /\ w <= end)
    BY <1>1, <1>2, SentenceEnd
  <2>2. lo \in Nat /\ lo > s
    BY <1>1, <1>2 DEF Greatest
  <2>3. w \in d.ends => w \in Nat
    BY DEF IsCharDoc
  <2> HIDE DEF w, lo, end
  <2>4. w \in s + 1 .. end
    BY <1>1, <1>2, <2>1, <2>2, <2>3
  <2> QED
    BY <2>4 DEF w
<1>5. e \in s + 1 .. d.n /\ e - s <= d.size
  <2> HIDE DEF end, e
  <2> QED
    BY <1>1, <1>2, <1>3, <1>4
<1>6. NextStart(d, s) = Greatest(e - d.overlap, s + 1)
  BY DEF NextStart
<1> HIDE DEF e
<1>7. e # d.n => NextStart(d, s) \in s + 1 .. d.n - 1 /\ NextStart(d, s) <= e
  BY <1>1, <1>5, <1>6 DEF Greatest
<1> QED
  BY <1>5, <1>7 DEF e

(* A chunk that starts later does not end earlier. *)
LEMMA CharEndGrows ==
    ASSUME NEW d, IsCharDoc(d), d.slack < d.size,
           NEW s \in 0 .. d.n - 1, NEW t \in s .. d.n - 1
    PROVE  CharEnd(d, s) <= CharEnd(d, t)
<1> DEFINE end(x) == Least(x + d.size, d.n)
           lo(x) == Greatest(end(x) - d.slack, 0)
           w(x) == _walk_to_sentence_end(d, end(x))
           es == CharEnd(d, s)
           et == CharEnd(d, t)
<1>1. d.n \in Nat /\ s \in Nat /\ t \in Nat /\ s <= t /\ t < d.n /\ d.size \in Nat /\ d.slack \in Nat
  BY DEF IsCharDoc
<1>2. end(s) \in Nat /\ end(t) \in Nat /\ end(s) <= end(t) /\ end(t) <= d.n
  BY <1>1 DEF Least
<1>3. lo(s) \in Nat /\ lo(t) \in Nat /\ lo(s) <= lo(t)
  BY <1>1, <1>2 DEF Greatest
<1>4. es = (IF end(s) < d.n THEN w(s) ELSE end(s)) /\ et = (IF end(t) < d.n THEN w(t) ELSE end(t))
  BY DEF CharEnd
<1>5. \A x \in {s, t} :
        \/ w(x) = end(x) /\ \A p \in d.ends : ~(lo(x) + 2 <= p /\ p <= end(x))
        \/ /\ w(x) \in d.ends /\ lo(x) + 2 <= w(x) /\ w(x) <= end(x)
           /\ \A p \in d.ends : (lo(x) + 2 <= p /\ p <= end(x)) => p <= w(x)
  BY <1>2, SentenceEnd
<1>6. et \in t + 1 .. d.n /\ es \in s + 1 .. d.n
  BY <1>1, CharEndIs
<1>7. d.ends \subseteq Nat
  BY DEF IsCharDoc
<1> DEFINE a == end(s)
           b == end(t)
           la == lo(s)
           lb == lo(t)
           wa == w(s)
           wb == w(t)
<1>8. /\ \/ wa = a /\ \A p \in d.ends : ~(la + 2 <= p /\ p <= a)
         \/ wa \in d.ends /\ la + 2 <= wa /\ wa <= a /\ \A p \in d.ends : (la + 2 <= p /\ p <= a) => p <= wa
      /\ \/ wb = b /\ \A p \in d.ends : ~(lb + 2 <= p /\ p <= b)
         \/ wb \in d.ends /\ lb + 2 <= wb /\ wb <= b /\ \A p \in d.ends : (lb + 2 <= p /\ p <= b) => p <= wb
  BY <1>5
<1>9. a \in Nat /\ b \in Nat /\ la \in Nat /\ lb \in Nat /\ a <= b /\ b <= d.n /\ la <= lb
  BY <1>2, <1>3
<1>10. es = (IF a < d.n THEN wa ELSE a) /\ et = (IF b < d.n THEN wb ELSE b)
  BY <1>4
<1> HIDE DEF a, b, la, lb, wa, wb, es, et
<1>11. ASSUME b >= d.n PROVE es <= et
  BY <1>1, <1>6, <1>9, <1>10, <1>11
<1>12. ASSUME b < d.n PROVE es <= et
  <2>1. es = wa /\ et = wb
    BY <1>1, <1>9, <1>10, <1>12
  <2>2. wa \in Nat /\ wb \in Nat
    BY <1>6, <2>1
  <2>3. wa <= wb
    <3>1. CASE wb = b
      BY <1>8, <1>9, <2>2, <3>1
    <3>2. CASE wb \in d.ends /\ lb + 2 <= wb /\ wb <= b /\ \A p \in d.ends : (lb + 2 <= p /\ p <= b) => p <= wb
      <4> SUFFICES ASSUME wb < wa PROVE FALSE
        BY <2>2
      <4>1. la + 2 <= wb
        BY <1>9, <2>2, <3>2
      <4>2. wa \in d.ends => FALSE
        <5> HAVE wa \in d.ends
        <5>1. wa <= a
          BY <1>8, <1>9
        <5>2. lb + 2 <= wa /\ wa <= b
          BY <1>9, <2>2, <3>2, <5>1
        <5> QED
          BY <2>2, <3>2, <5>2
      <4>3. wa = a /\ ~(la + 2 <= wb /\ wb <= a)
        BY <1>8, <3>2, <4>2
      <4> QED
        BY <1>9, <2>2, <4>1, <4>3
    <3> QED
      BY <1>8, <3>1, <3>2
  <2> QED
    BY <2>1, <2>3
<1>13. es <= et
  <2>1. b >= d.n \/ b < d.n
    BY <1>1, <1>9
  <2> QED
    BY <2>1, <1>11, <1>12
<1> QED
  BY <1>13 DEF es, et

(* The chunks of a text that is not empty, and where they start. *)
CharPiece(d) == [s \in 0 .. d.n - 1 |-> [from |-> s, to |-> CharEnd(d, s)]]
CharNext(d) == [s \in 0 .. d.n - 1 |-> NextStart(d, s)]
CharStops(d) == {s \in 0 .. d.n - 1 : CharEnd(d, s) = d.n}

LEMMA CharTrail ==
    ASSUME NEW d, IsCharDoc(d), d.slack < d.size
    PROVE  /\ d.n = 0 => _chunk_char_proxy(d) = <<>>
           /\ d.n # 0 => \E at : Trail(_chunk_char_proxy(d), at, 0, d.n, CharPiece(d), CharNext(d), CharStops(d))
<1> DEFINE n == d.n
           p == CharPiece(d)
           x == CharNext(d)
           ends == CharStops(d)
           IsFrom(g) == g = [s \in 0 .. d.n |->
                               IF s = d.n THEN <<>> ELSE
                               LET piece == [from |-> s, to |-> CharEnd(d, s)]
                               IN IF piece.to = d.n THEN <<piece>> ELSE <<piece>> \o g[NextStart(d, s)]]
           h == CHOOSE g : IsFrom(g)
<1>1. d.n \in Nat
  BY DEF IsCharDoc
<1>2. \A s \in 0 .. n - 1 : s \notin ends => x[s] \in s + 1 .. n - 1
  BY CharEndIs DEF CharStops, CharNext
<1>3. PICK f : Onward(f, n, p, x, ends)
  <2>1. \A s \in 0 .. n - 1 : s \notin ends => x[s] \in s + 1 .. n
    BY <1>1, <1>2
  <2> QED
    BY <1>1, <2>1, OnwardExists
<1>4. \A g : Onward(g, n, p, x, ends) <=> IsFrom(g)
  <2> TAKE g
  <2>1. \A s \in 0 .. n :
          (IF s = n THEN <<>> ELSE IF s \in ends THEN <<p[s]>> ELSE <<p[s]>> \o g[x[s]])
          = (IF s = d.n THEN <<>> ELSE
             LET piece == [from |-> s, to |-> CharEnd(d, s)]
             IN IF piece.to = d.n THEN <<piece>> ELSE <<piece>> \o g[NextStart(d, s)])
    <3> TAKE s \in 0 .. n
    <3>1. s # n => s \in 0 .. n - 1
      BY <1>1
    <3> QED
      BY <3>1 DEF CharPiece, CharNext, CharStops
  <2> QED
    BY <2>1 DEF Onward
<1>5. IsFrom(h)
  BY <1>3, <1>4
<1>6. _chunk_char_proxy(d) = h[0]
  BY Zenon DEF _chunk_char_proxy
<1> HIDE DEF h, IsFrom
<1>7. Onward(h, n, p, x, ends)
  BY <1>4, <1>5
<1>8. d.n = 0 => h[0] = <<>>
  BY <1>7 DEF Onward
<1>9. d.n # 0 => \E at : Trail(h[0], at, 0, n, p, x, ends)
  <2> HAVE d.n # 0
  <2>1. 0 \in 0 .. n - 1
    BY <1>1
  <2> QED
    BY <1>1, <1>2, <1>7, <2>1, OnwardTrail
<1> QED
  BY <1>6, <1>8, <1>9

AddDoc(c, out, d) == out \o Positioned(d, Len(out))

Docs == INSTANCE FoldLemmas WITH Step <- AddDoc

CharPieces(d) == {CharPiece(d)[s] : s \in 0 .. d.n - 1}

LEMMA CharChunksAre ==
    ASSUME NEW d, IsCharDoc(d), d.slack < d.size
    PROVE  _chunk_char_proxy(d) \in Seq(CharPieces(d))
<1>1. CASE d.n = 0
  <2>1. _chunk_char_proxy(d) = <<>>
    BY <1>1, CharTrail
  <2> QED
    BY <2>1
<1>2. CASE d.n # 0
  BY <1>2, CharTrail DEF Trail, CharPieces
<1> QED
  BY <1>1, <1>2

(* The positions of two texts in a row. *)
LEMMA ManyAreNumbered ==
    ASSUME NEW d, IsCharDoc(d), d.slack < d.size
    PROVE  LET many == chunk_many(<<d, d>>) IN \A k \in DOMAIN many : many[k].position = k - 1
<1> DEFINE cs == _chunk_char_proxy(d)
           n == Len(cs)
           S == [position : Int, from : Int, to : Int]
           many == chunk_many(<<d, d>>)
<1>1. cs \in Seq(CharPieces(d)) /\ n \in Nat /\ DOMAIN cs = 1 .. n
  BY CharChunksAre
<1>2. \A k \in 1 .. n : cs[k].from \in Int /\ cs[k].to \in Int
  <2> TAKE k \in 1 .. n
  <2> HIDE DEF cs
  <2>1. cs[k] \in CharPieces(d)
    BY <1>1
  <2>2. PICK s \in 0 .. d.n - 1 : cs[k] = [from |-> s, to |-> CharEnd(d, s)]
    BY <2>1 DEF CharPieces, CharPiece
  <2>3. CharEnd(d, s) \in s + 1 .. d.n /\ s \in Int /\ d.n \in Int
    BY CharEndIs DEF IsCharDoc
  <2> QED
    BY <2>2, <2>3
<1> HIDE DEF cs, n
<1>3. \A b \in Nat : /\ Positioned(d, b) \in Seq(S) /\ Len(Positioned(d, b)) = n
                     /\ \A k \in 1 .. n : Positioned(d, b)[k].position = b + k - 1
  <2> TAKE b \in Nat
  <2>1. Positioned(d, b) = [k \in 1 .. n |-> [position |-> b + k - 1, from |-> cs[k].from, to |-> cs[k].to]]
    BY <1>1 DEF Positioned, cs
  <2>2. \A k \in 1 .. n : [position |-> b + k - 1, from |-> cs[k].from, to |-> cs[k].to] \in S
    BY <1>2
  <2>3. Positioned(d, b) \in Seq(S)
    BY <1>1, <2>1, <2>2
  <2> QED
    BY <1>1, <2>1, <2>3
<1>4. many = Docs!Fold(0, <<>>, <<d, d>>)
  BY Zenon DEF chunk_many, AddDoc, FoldLeft, MapThenFoldSet, Max, Docs!Fold, Docs!Greatest
<1> DEFINE ds == <<d, d>>
<1>5. ds \in Seq({d}) /\ Len(ds) = 2 /\ ds[1] = d /\ ds[2] = d
  OBVIOUS
<1> HIDE DEF ds
<1>6. PICK f : Docs!IsRun(f, 0, <<>>, ds) /\ Docs!Fold(0, <<>>, ds) = f[2]
  BY <1>5, Docs!FoldRun, NumbersInductive DEF Docs!Inductive
<1>7. f[0] = <<>> /\ f[1] = f[0] \o Positioned(d, Len(f[0])) /\ f[2] = f[1] \o Positioned(d, Len(f[1]))
  <2>1. 1 \in 1 .. Len(ds) /\ 2 \in 1 .. Len(ds) /\ 1 - 1 = 0 /\ 2 - 1 = 1
    BY <1>5
  <2>2. f[0] = <<>> /\ \A k \in 1 .. Len(ds) : f[k] = f[k - 1] \o Positioned(ds[k], Len(f[k - 1]))
    BY <1>6, Zenon DEF Docs!IsRun, AddDoc
  <2> QED
    BY <1>5, <2>1, <2>2
<1> DEFINE one == Positioned(d, 0)
           two == Positioned(d, n)
<1>8. one \in Seq(S) /\ Len(one) = n /\ two \in Seq(S) /\ Len(two) = n /\ n \in Nat
      /\ (\A k \in 1 .. n : one[k].position = k - 1) /\ (\A k \in 1 .. n : two[k].position = n + k - 1)
  <2>1. 0 \in Nat /\ n \in Nat
    BY <1>1
  <2>2. \A k \in 1 .. n : 0 + k - 1 = k - 1
    BY <2>1
  <2> HIDE DEF S
  <2> QED
    BY <1>3, <2>1, <2>2
<1> HIDE DEF S
<1>9. many = one \o two
  <2>1. <<>> \o one = one /\ Len(<<>>) = 0
    BY <1>8
  <2>2. f[1] = one
    BY <1>7, <2>1
  <2> QED
    BY <1>4, <1>6, <1>7, <1>8, <2>2 DEF ds
<1> HIDE DEF one, two, many
<1>10. DOMAIN many = 1 .. n + n /\ \A k \in 1 .. n + n : many[k] = IF k <= n THEN one[k] ELSE two[k - n]
  <2>1. DOMAIN (one \o two) = 1 .. Len(one) + Len(two)
        /\ \A k \in 1 .. Len(one) + Len(two) : (one \o two)[k] = IF k <= Len(one) THEN one[k] ELSE two[k - Len(one)]
    BY <1>8, JoinedAt
  <2> QED
    BY <1>8, <1>9, <2>1
<1>11. ASSUME NEW k \in DOMAIN many PROVE many[k].position = k - 1
  <2>1. CASE k <= n
    <3>1. k \in 1 .. n /\ many[k] = one[k]
      BY <1>8, <1>10, <2>1
    <3> QED
      BY <1>8, <3>1
  <2>2. CASE ~(k <= n)
    <3>1. k - n \in 1 .. n /\ many[k] = two[k - n] /\ n + (k - n) - 1 = k - 1
      BY <1>8, <1>10, <2>2
    <3> QED
      BY <1>8, <3>1
  <2> QED
    BY <2>1, <2>2
<1> QED
  BY <1>11 DEF many

(* Chunker loses no character. *)
LEMMA CharsAreCovered ==
    ASSUME NEW d, IsCharDoc(d)
    PROVE  CharsCovered(d)
<1> SUFFICES ASSUME d.slack < d.size PROVE CharsCovered(d)
  BY DEF CharsCovered
<1> DEFINE cs == _chunk_char_proxy(d)
           many == chunk_many(<<d, d>>)
           spans == {c.from .. c.to - 1 : c \in Range(cs)}
<1>1. \A k \in DOMAIN many : many[k].position = k - 1
  BY ManyAreNumbered
<1>2. d.n \in Nat /\ d.size \in Nat
  BY DEF IsCharDoc
<1>3. CASE d.n = 0
  <2>1. cs = <<>>
    BY <1>3, CharTrail
  <2>2. Range(cs) = {} /\ DOMAIN cs = {} /\ Len(cs) = 0 /\ 2 .. Len(cs) = {}
    BY <2>1 DEF Range
  <2>3. 0 .. d.n - 1 = {} /\ UNION spans = {}
    BY <1>3, <2>2
  <2> QED
    BY <1>1, <2>2, <2>3 DEF CharsCovered
<1>4. CASE d.n # 0
  <2> DEFINE n == d.n
             to == [s \in 0 .. n - 1 |-> CharEnd(d, s)]
             p == CharPiece(d)
             x == CharNext(d)
             ends == CharStops(d)
  <2>1. PICK at : Trail(cs, at, 0, n, p, x, ends)
    BY <1>4, CharTrail
  <2>2. n \in Nat \ {0}
    BY <1>2, <1>4
  <2>3. \A s \in 0 .. n - 1 :
          /\ to[s] = CharEnd(d, s) /\ to[s] \in s + 1 .. n /\ to[s] - s <= d.size
          /\ p[s] = [from |-> s, to |-> to[s]] /\ (s \in ends <=> to[s] = n)
          /\ s \notin ends => x[s] \in s + 1 .. to[s] /\ x[s] \in s + 1 .. n - 1
    <3> TAKE s \in 0 .. n - 1
    <3>1. to[s] = CharEnd(d, s) /\ p[s] = [from |-> s, to |-> to[s]] /\ (s \in ends <=> to[s] = n) /\ x[s] = NextStart(d, s)
      BY DEF CharPiece, CharNext, CharStops
    <3>2. to[s] \in s + 1 .. n /\ to[s] - s <= d.size
      BY <3>1, CharEndIs
    <3>3. s \notin ends => x[s] \in s + 1 .. n - 1 /\ x[s] <= to[s]
      BY <3>1, CharEndIs
    <3> HIDE DEF to
    <3> QED
      BY <2>2, <3>1, <3>2, <3>3
  <2> HIDE DEF to, p, x, ends
  <2>4. \A y \in 0 .. n - 1 : \E k \in 1 .. Len(cs) : at[k] <= y /\ y < to[at[k]]
    <3>1. /\ \A s \in 0 .. n - 1 : to[s] \in s + 1 .. n
          /\ \A s \in 0 .. n - 1 : s \in ends <=> to[s] = n
          /\ \A s \in 0 .. n - 1 : s \notin ends => x[s] \in s + 1 .. to[s]
      BY <2>3
    <3> HIDE DEF n, cs
    <3> QED
      BY ONLY <2>1, <2>2, <3>1, TrailCovers
  <2>5. /\ Len(cs) \in Nat /\ DOMAIN cs = 1 .. Len(cs)
        /\ \A k \in 1 .. Len(cs) : at[k] \in 0 .. n - 1 /\ cs[k] = p[at[k]]
        /\ \A k \in 1 .. Len(cs) - 1 : at[k] \notin ends /\ at[k + 1] = x[at[k]]
    BY <2>1 DEF Trail
  <2> HIDE DEF cs
  <2>6. \A k \in DOMAIN cs : cs[k].from = at[k] /\ cs[k].to = to[at[k]] /\ at[k] \in 0 .. n - 1
                             /\ to[at[k]] \in at[k] + 1 .. n /\ to[at[k]] - at[k] <= d.size
    <3> TAKE k \in DOMAIN cs
    <3>1. at[k] \in 0 .. n - 1 /\ cs[k] = p[at[k]]
      BY <2>5
    <3>2. p[at[k]] = [from |-> at[k], to |-> to[at[k]]] /\ to[at[k]] \in at[k] + 1 .. n /\ to[at[k]] - at[k] <= d.size
      BY <2>3, <3>1
    <3> QED
      BY <3>1, <3>2
  <2>7. UNION spans = 0 .. n - 1
    <3>1. ASSUME NEW y \in 0 .. n - 1 PROVE y \in UNION spans
      <4>1. PICK k \in 1 .. Len(cs) : at[k] <= y /\ y < to[at[k]]
        BY <2>4
      <4>2. y \in cs[k].from .. cs[k].to - 1 /\ cs[k] \in Range(cs)
        BY <2>2, <2>5, <2>6, <4>1 DEF Range
      <4> QED
        BY <4>2
    <3>2. ASSUME NEW y \in UNION spans PROVE y \in 0 .. n - 1
      <4>1. PICK k \in DOMAIN cs : y \in cs[k].from .. cs[k].to - 1
        BY <3>2 DEF Range
      <4> QED
        BY <2>2, <2>6, <4>1
    <3> QED
      BY <3>1, <3>2
  <2>8. \A k \in DOMAIN cs : cs[k].from < cs[k].to /\ cs[k].to - cs[k].from <= d.size
    BY <2>2, <2>6
  <2>9. ASSUME NEW k \in 2 .. Len(cs) PROVE cs[k - 1].from < cs[k].from /\ cs[k - 1].to <= cs[k].to
    <3>1. k - 1 \in 1 .. Len(cs) - 1 /\ k - 1 \in DOMAIN cs /\ k \in DOMAIN cs /\ k - 1 + 1 = k
      BY <2>5
    <3>2. at[k] = x[at[k - 1]] /\ at[k - 1] \notin ends
      BY <2>5, <3>1
    <3>3. at[k] \in at[k - 1] + 1 .. n - 1 /\ at[k - 1] \in 0 .. n - 1
      BY <2>3, <2>6, <3>1, <3>2
    <3>4. at[k] \in at[k - 1] .. n - 1 /\ at[k - 1] < at[k] /\ at[k] \in 0 .. n - 1
      BY <2>2, <3>3
    <3>5. CharEnd(d, at[k - 1]) <= CharEnd(d, at[k])
      BY <3>3, <3>4, CharEndGrows
    <3> QED
      BY <2>3, <2>6, <3>1, <3>3, <3>4, <3>5
  <2> QED
    BY <1>1, <2>7, <2>8, <2>9 DEF CharsCovered, cs
<1> QED
  BY <1>3, <1>4

(* Chunks of lines: how much they hold, and whether they claim it. *)
LineChunk == [first : Int, last : Int, held : SUBSET Int]

HeldBy(cs) == UNION {c.held : c \in Range(cs)}

Sized(cs, size) ==
    cs \in Seq(LineChunk) /\ \A c \in Range(cs) : IsFiniteSet(c.held) /\ Cardinality(c.held) <= size

Honest(cs, n) == \A c \in Range(cs) : c.held \subseteq c.first .. c.last /\ c.last <= Greatest(1, n)

LEMMA HeldByBoth ==
    ASSUME NEW a \in Seq(LineChunk), NEW b \in Seq(LineChunk)
    PROVE  HeldBy(a \o b) = HeldBy(a) \cup HeldBy(b)
<1>1. Range(a \o b) = Range(a) \cup Range(b)
  BY RangeOfBoth
<1> QED
  BY <1>1 DEF HeldBy

LEMMA ChunksJoin ==
    ASSUME NEW size, NEW a, NEW b, Sized(a, size), Sized(b, size)
    PROVE  /\ a \in Seq(LineChunk) /\ b \in Seq(LineChunk) /\ Sized(a \o b, size)
           /\ \A n : Honest(a, n) /\ Honest(b, n) => Honest(a \o b, n)
<1>1. a \in Seq(LineChunk) /\ b \in Seq(LineChunk)
  BY DEF Sized
<1>2. Range(a \o b) = Range(a) \cup Range(b)
  BY <1>1, RangeOfBoth
<1>3. a \o b \in Seq(LineChunk)
  BY <1>1
<1>4. Sized(a \o b, size)
  BY <1>2, <1>3 DEF Sized
<1> QED
  BY <1>1, <1>2, <1>4 DEF Honest

LEMMA OneChunk ==
    ASSUME NEW size, NEW c \in LineChunk, IsFiniteSet(c.held), Cardinality(c.held) <= size
    PROVE  Sized(<<c>>, size) /\ Range(<<c>>) = {c} /\ HeldBy(<<c>>) = c.held
<1>1. <<c>> \in Seq(LineChunk)
  OBVIOUS
<1>2. Range(<<c>>) = {c}
  BY DEF Range
<1> QED
  BY <1>1, <1>2 DEF Sized, HeldBy

LEMMA NoChunk ==
    ASSUME NEW size
    PROVE  Sized(<<>>, size) /\ HeldBy(<<>>) = {} /\ \A n : Honest(<<>>, n)
<1>1. <<>> \in Seq(LineChunk)
  OBVIOUS
<1>2. Range(<<>>) = {}
  BY DEF Range
<1> QED
  BY <1>1, <1>2 DEF Sized, HeldBy, Honest

(* The windows of n lines. *)
WindowEnd(n, size) == [s \in 0 .. n - 1 |-> Least(s + size, n)]
WindowPiece(from, n, size, base) ==
    [s \in 0 .. n - 1 |-> Chunk(base + s, base + Least(s + size, n) - 1, from + s .. from + Least(s + size, n) - 1)]
WindowNext(n, size, overlap) == [s \in 0 .. n - 1 |-> s + Greatest(1, size - overlap)]
WindowStops(n, size) == {s \in 0 .. n - 1 : Least(s + size, n) = n}

LEMMA WindowEndIs ==
    ASSUME NEW n \in Nat, NEW size \in Nat \ {0}, NEW overlap \in Nat, NEW s \in 0 .. n - 1
    PROVE  /\ Least(s + size, n) \in s + 1 .. n /\ Least(s + size, n) <= s + size
           /\ Least(s + size, n) # n => s + Greatest(1, size - overlap) \in s + 1 .. n - 1
                                        /\ s + Greatest(1, size - overlap) <= Least(s + size, n)
BY DEF Least, Greatest

LEMMA WindowTrail ==
    ASSUME NEW from \in Int, NEW base \in Int, NEW n \in Nat, NEW size \in Nat \ {0}, NEW overlap \in Nat
    PROVE  LET cs == Window(from, n, size, overlap, base)
           IN /\ n = 0 => cs = <<>>
              /\ n # 0 => \E at : Trail(cs, at, 0, n, WindowPiece(from, n, size, base),
                                        WindowNext(n, size, overlap), WindowStops(n, size))
<1> DEFINE p == WindowPiece(from, n, size, base)
           x == WindowNext(n, size, overlap)
           ends == WindowStops(n, size)
           step == Greatest(1, size - overlap)
           IsFrom(g) == g = [s \in 0 .. n |->
                               IF s >= n THEN <<>> ELSE
                               LET end == Least(s + size, n)
                                   piece == Chunk(base + s, base + end - 1, from + s .. from + end - 1)
                               IN IF end = n THEN <<piece>> ELSE <<piece>> \o g[s + step]]
           h == CHOOSE g : IsFrom(g)
<1>2. \A s \in 0 .. n - 1 : s \notin ends => x[s] \in s + 1 .. n - 1
  BY WindowEndIs DEF WindowStops, WindowNext
<1>3. PICK f : Onward(f, n, p, x, ends)
  <2>1. \A s \in 0 .. n - 1 : s \notin ends => x[s] \in s + 1 .. n
    BY <1>2
  <2> QED
    BY <2>1, OnwardExists
<1>4. \A g : Onward(g, n, p, x, ends) <=> IsFrom(g)
  <2> TAKE g
  <2>1. \A s \in 0 .. n :
          (IF s = n THEN <<>> ELSE IF s \in ends THEN <<p[s]>> ELSE <<p[s]>> \o g[x[s]])
          = (IF s >= n THEN <<>> ELSE
             LET end == Least(s + size, n)
                 piece == Chunk(base + s, base + end - 1, from + s .. from + end - 1)
             IN IF end = n THEN <<piece>> ELSE <<piece>> \o g[s + step])
    <3> TAKE s \in 0 .. n
    <3>1. CASE s = n
      BY <3>1
    <3>2. CASE s # n
      <4>1. s \in 0 .. n - 1 /\ ~(s >= n)
        BY <3>2
      <4>2. /\ p[s] = Chunk(base + s, base + Least(s + size, n) - 1, from + s .. from + Least(s + size, n) - 1)
            /\ x[s] = s + step /\ (s \in ends <=> Least(s + size, n) = n)
        BY <4>1 DEF WindowPiece, WindowNext, WindowStops
      <4> HIDE DEF p, x, ends, step
      <4> QED
        BY <3>2, <4>1, <4>2
    <3> QED
      BY <3>1, <3>2
  <2> QED
    BY <2>1 DEF Onward
<1>5. IsFrom(h)
  BY <1>3, <1>4
<1>6. Window(from, n, size, overlap, base) = h[0]
  BY Zenon DEF Window
<1> HIDE DEF h, IsFrom
<1>7. Onward(h, n, p, x, ends)
  BY <1>4, <1>5
<1>8. n = 0 => h[0] = <<>>
  BY <1>7 DEF Onward
<1>9. n # 0 => \E at : Trail(h[0], at, 0, n, p, x, ends)
  <2> HAVE n # 0
  <2>1. 0 \in 0 .. n - 1
    OBVIOUS
  <2> QED
    BY <1>2, <1>7, <2>1, OnwardTrail
<1> QED
  BY <1>6, <1>8, <1>9

(* Windows hold all lines, none too many, and claim what they hold. *)
LEMMA WindowIs ==
    ASSUME NEW from \in Int, NEW base \in Int, NEW n \in Nat, NEW size \in Nat \ {0}, NEW overlap \in Nat
    PROVE  LET cs == Window(from, n, size, overlap, base)
           IN /\ Sized(cs, size) /\ HeldBy(cs) = from .. from + n - 1
              /\ \A m \in Nat : (base = from /\ from + n - 1 <= m) => Honest(cs, m)
<1> DEFINE cs == Window(from, n, size, overlap, base)
           P == WindowPiece(from, n, size, base)
           to == WindowEnd(n, size)
           x == WindowNext(n, size, overlap)
           ends == WindowStops(n, size)
<1>1. CASE n = 0
  <2>1. cs = <<>>
    BY <1>1, WindowTrail
  <2>2. from .. from + n - 1 = {}
    BY <1>1
  <2> QED
    BY <2>1, <2>2, NoChunk
<1>2. CASE n # 0
  <2>1. PICK at : Trail(cs, at, 0, n, P, x, ends)
    BY <1>2, WindowTrail
  <2>2. \A s \in 0 .. n - 1 :
          /\ to[s] = Least(s + size, n) /\ to[s] \in s + 1 .. n /\ to[s] <= s + size
          /\ P[s] = Chunk(base + s, base + to[s] - 1, from + s .. from + to[s] - 1)
          /\ (s \in ends <=> to[s] = n) /\ (s \notin ends => x[s] \in s + 1 .. to[s])
    <3> TAKE s \in 0 .. n - 1
    <3>1. /\ to[s] = Least(s + size, n) /\ x[s] = s + Greatest(1, size - overlap) /\ (s \in ends <=> to[s] = n)
          /\ P[s] = Chunk(base + s, base + to[s] - 1, from + s .. from + to[s] - 1)
      BY DEF WindowPiece, WindowNext, WindowStops, WindowEnd
    <3>2. to[s] \in s + 1 .. n /\ to[s] <= s + size
      BY <3>1, WindowEndIs
    <3>3. s \notin ends => x[s] \in s + 1 .. n - 1 /\ x[s] <= to[s]
      BY <3>1, WindowEndIs
    <3> HIDE DEF to, x, ends, P
    <3> QED
      BY <3>1, <3>2, <3>3
  <2> HIDE DEF to, P, x, ends
  <2>3. \A y \in 0 .. n - 1 : \E k \in 1 .. Len(cs) : at[k] <= y /\ y < to[at[k]]
    <3>1. /\ \A s \in 0 .. n - 1 : to[s] \in s + 1 .. n
          /\ \A s \in 0 .. n - 1 : s \in ends <=> to[s] = n
          /\ \A s \in 0 .. n - 1 : s \notin ends => x[s] \in s + 1 .. to[s]
      BY <2>2
    <3> HIDE DEF cs
    <3> QED
      BY ONLY n \in Nat, <1>2, <2>1, <3>1, TrailCovers
  <2>4. /\ Len(cs) \in Nat /\ DOMAIN cs = 1 .. Len(cs) /\ cs \in Seq({P[s] : s \in 0 .. n - 1})
        /\ \A k \in 1 .. Len(cs) : at[k] \in 0 .. n - 1 /\ cs[k] = P[at[k]]
    <3> HIDE DEF cs
    <3>1. /\ cs \in Seq({P[s] : s \in 0 .. n - 1}) /\ at \in [1 .. Len(cs) -> 0 .. n - 1]
          /\ \A k \in 1 .. Len(cs) : cs[k] = P[at[k]]
      BY ONLY <2>1, Zenon DEF Trail
    <3>2. Len(cs) \in Nat /\ DOMAIN cs = 1 .. Len(cs)
      <4>1. \A T : \A y \in Seq(T) : Len(y) \in Nat /\ DOMAIN y = 1 .. Len(y)
        OBVIOUS
      <4> QED
        BY ONLY <3>1, <4>1, Zenon
    <3>3. \A k \in 1 .. Len(cs) : at[k] \in 0 .. n - 1
      BY ONLY <3>1
    <3> QED
      BY ONLY <3>1, <3>2, <3>3
  <2> HIDE DEF cs
  <2>5. \A s \in 0 .. n - 1 :
          /\ P[s] \in LineChunk /\ P[s].held = from + s .. from + to[s] - 1
          /\ P[s].first = base + s /\ P[s].last = base + to[s] - 1
          /\ IsFiniteSet(P[s].held) /\ Cardinality(P[s].held) <= size
    <3> TAKE s \in 0 .. n - 1
    <3>1. P[s] = [first |-> base + s, last |-> base + to[s] - 1, held |-> from + s .. from + to[s] - 1]
      BY <2>2 DEF Chunk
    <3>2. to[s] \in s + 1 .. n /\ to[s] <= s + size /\ s \in Int /\ to[s] \in Int
      BY <2>2
    <3>3. IsFiniteSet(from + s .. from + to[s] - 1) /\ Cardinality(from + s .. from + to[s] - 1) = to[s] - s
      <4>1. from + s \in Int /\ from + to[s] - 1 \in Int /\ from + s <= (from + to[s] - 1) + 1
            /\ (from + to[s] - 1) - (from + s) + 1 = to[s] - s
        BY <3>2
      <4> QED
        BY <4>1, SpanCounts
    <3>4. P[s] \in LineChunk
      BY <3>1, <3>2 DEF LineChunk
    <3> QED
      BY <3>1, <3>2, <3>3, <3>4
  <2>6. Sized(cs, size)
    <3>1. cs \in Seq(LineChunk)
      <4>1. {P[s] : s \in 0 .. n - 1} \subseteq LineChunk
        BY <2>5
      <4> QED
        BY <2>4, <4>1
    <3>2. ASSUME NEW c \in Range(cs) PROVE IsFiniteSet(c.held) /\ Cardinality(c.held) <= size
      <4>1. PICK k \in 1 .. Len(cs) : c = cs[k]
        BY <2>4, <3>2 DEF Range
      <4> QED
        BY <2>4, <2>5, <4>1
    <3> QED
      BY <3>1, <3>2 DEF Sized
  <2>7. HeldBy(cs) = from .. from + n - 1
    <3>1. ASSUME NEW y \in from .. from + n - 1 PROVE y \in HeldBy(cs)
      <4>1. y - from \in 0 .. n - 1
        OBVIOUS
      <4>2. PICK k \in 1 .. Len(cs) : at[k] <= y - from /\ y - from < to[at[k]]
        BY <2>3, <4>1
      <4>3. at[k] \in 0 .. n - 1 /\ to[at[k]] \in Int /\ cs[k].held = from + at[k] .. from + to[at[k]] - 1
        <5>1. at[k] \in 0 .. n - 1 /\ cs[k] = P[at[k]]
          BY <2>4
        <5>2. to[at[k]] \in at[k] + 1 .. n
          BY <2>2, <5>1
        <5>3. P[at[k]].held = from + at[k] .. from + to[at[k]] - 1
          BY <2>5, <5>1
        <5> QED
          BY <5>1, <5>2, <5>3
      <4>4. y \in cs[k].held
        BY <4>2, <4>3
      <4>5. cs[k] \in Range(cs)
        BY <2>4 DEF Range
      <4> QED
        BY <4>4, <4>5 DEF HeldBy
    <3>2. ASSUME NEW y \in HeldBy(cs) PROVE y \in from .. from + n - 1
      <4>1. PICK c \in Range(cs) : y \in c.held
        BY <3>2 DEF HeldBy
      <4>2. PICK k \in 1 .. Len(cs) : c = cs[k]
        BY <2>4, <4>1 DEF Range
      <4>3. at[k] \in 0 .. n - 1 /\ to[at[k]] \in at[k] + 1 .. n /\ c.held = from + at[k] .. from + to[at[k]] - 1
        BY <2>2, <2>4, <2>5, <4>2
      <4> QED
        BY <4>1, <4>3
    <3> QED
      BY <3>1, <3>2
  <2>8. ASSUME NEW m \in Nat, base = from, from + n - 1 <= m PROVE Honest(cs, m)
    <3>1. ASSUME NEW c \in Range(cs) PROVE c.held \subseteq c.first .. c.last /\ c.last <= Greatest(1, m)
      <4>1. PICK k \in 1 .. Len(cs) : c = cs[k]
        BY <2>4, <3>1 DEF Range
      <4>2. /\ at[k] \in 0 .. n - 1 /\ to[at[k]] \in at[k] + 1 .. n /\ c.held = from + at[k] .. from + to[at[k]] - 1
            /\ c.first = base + at[k] /\ c.last = base + to[at[k]] - 1
        BY <2>2, <2>4, <2>5, <4>1
      <4>3. c.held = c.first .. c.last
        BY <2>8, <4>2
      <4>4. c.last <= m
        BY <2>8, <4>2
      <4>5. c.last \in Int
        BY <4>2
      <4> QED
        BY <4>3, <4>4, <4>5 DEF Greatest
    <3> QED
      BY <3>1 DEF Honest
  <2> QED
    BY <2>6, <2>7, <2>8 DEF cs
<1> QED
  BY <1>1, <1>2

IsLineDoc(d) ==
    /\ d.n \in Nat /\ d.size \in Nat \ {0} /\ d.overlap \in Nat /\ d.blank \subseteq 1 .. d.n
    /\ d.defs \in Seq([from : 1 .. d.n, to : 1 .. d.n])
    /\ \A k \in DOMAIN d.defs : d.defs[k].from <= d.defs[k].to

(* The paragraph of a line: it ends, and it begins. *)
LEMMA RunEnds ==
    ASSUME NEW n \in Nat, NEW text \in SUBSET (1 .. n), NEW s \in text
    PROVE  \E e \in text : s <= e /\ e + 1 \notin text /\ s .. e \subseteq text
<1> DEFINE T == {e \in Nat : s <= e /\ e + 1 \notin text}
<1>1. n \in T
  BY SMT
<1>2. PICK e \in T : \A y \in T : e <= y
  BY <1>1, LeastNat
<1>3. ASSUME NEW i \in s .. e PROVE i \in text
  <2>1. CASE i = s
    BY <2>1
  <2>2. CASE i # s
    <3>1. i - 1 \in Nat /\ s <= i - 1 /\ ~(e <= i - 1) /\ (i - 1) + 1 = i
      BY <1>2, <2>2
    <3> QED
      BY <1>2, <3>1
  <2> QED
    BY <2>1, <2>2
<1>4. e \in s .. e /\ s <= e /\ e + 1 \notin text
  BY <1>2
<1> QED
  BY <1>3, <1>4

LEMMA RunStarts ==
    ASSUME NEW n \in Nat, NEW text \in SUBSET (1 .. n), NEW i \in text
    PROVE  \E f \in text : f <= i /\ f - 1 \notin text /\ f .. i \subseteq text
<1> DEFINE T == {f \in Nat : f <= i /\ f .. i \subseteq text}
<1>1. i \in T
  BY SMT
<1>2. PICK f \in T : \A y \in T : f <= y
  BY <1>1, LeastNat
<1>3. f \in text /\ f >= 1
  BY <1>2
<1>4. f - 1 \notin text
  <2> SUFFICES ASSUME f - 1 \in text PROVE FALSE
    OBVIOUS
  <2>1. f - 1 \in Nat /\ f - 1 <= i /\ ~(f <= f - 1)
    BY <1>2, <1>3
  <2>2. ASSUME NEW j \in (f - 1) .. i PROVE j \in text
    <3>1. j = f - 1 \/ j \in f .. i
      BY <1>2
    <3> QED
      BY <1>2, <3>1
  <2> QED
    BY <1>2, <2>1, <2>2
<1> QED
  BY <1>2, <1>3, <1>4

(* The paragraphs are where the text is, in its order. *)
LEMMA ParagraphsAre ==
    ASSUME NEW d, IsLineDoc(d)
    PROVE  LET ps == Paragraphs(d)
           IN /\ ps \in Seq([from : 1 .. d.n, to : 1 .. d.n])
              /\ \A k \in DOMAIN ps : ps[k].from <= ps[k].to
              /\ \A i \in 1 .. d.n \ d.blank : \E k \in DOMAIN ps : i \in ps[k].from .. ps[k].to
              /\ \A k, m \in DOMAIN ps : k < m => ps[k].to < ps[m].from
<1> DEFINE text == 1 .. d.n \ d.blank
           first == {i \in text : i - 1 \notin text}
           last(s) == CHOOSE e \in text : s <= e /\ e + 1 \notin text /\ s .. e \subseteq text
           ps == Paragraphs(d)
           c == Cardinality(first)
<1>1. d.n \in Nat /\ text \in SUBSET (1 .. d.n) /\ first \in SUBSET (1 .. d.n)
  BY DEF IsLineDoc
<1>a. \A x \in text : x \in Nat /\ x \in 1 .. d.n
  BY <1>1
<1>b. \A x \in first : x \in text /\ x - 1 \notin text
  OBVIOUS
<1>2. ps = [k \in 1 .. c |-> [from |-> Nth(first, k), to |-> last(Nth(first, k))]]
  BY DEF Paragraphs
<1>3. \A s \in text : last(s) \in text /\ s <= last(s) /\ last(s) + 1 \notin text /\ s .. last(s) \subseteq text
  <2> TAKE s \in text
  <2>1. \E e \in text : s <= e /\ e + 1 \notin text /\ s .. e \subseteq text
    BY <1>1, RunEnds
  <2> QED
    BY <2>1
<1>5. /\ c \in Nat
      /\ \A k \in 1 .. c : Nth(first, k) \in first
      /\ \A i \in first : \E k \in 1 .. c : Nth(first, k) = i
      /\ \A k, m \in 1 .. c : k < m <=> Nth(first, k) < Nth(first, m)
  <2> HIDE DEF first
  <2> QED
    BY <1>1, NthIs
<1>c. \A x \in text : x - 1 \notin text => x \in first
  OBVIOUS
<1> HIDE DEF first, last, c, text, ps
<1>6. ASSUME NEW i \in text PROVE \E s \in first : s <= i /\ i <= last(s)
  <2>1. PICK s \in text : s <= i /\ s - 1 \notin text /\ s .. i \subseteq text
    BY <1>1, RunStarts
  <2>2. s \in first
    BY <1>c, <2>1
  <2> DEFINE l == last(s)
  <2>3. l \in text /\ s <= l /\ l + 1 \notin text
    BY <1>3
  <2> HIDE DEF l
  <2>4. i <= l
    <3> SUFFICES ASSUME l < i PROVE FALSE
      BY <1>a, <2>3
    <3>1. l + 1 \in s .. i
      BY <1>a, <2>3
    <3> QED
      BY <2>1, <2>3, <3>1
  <2> QED
    BY <2>1, <2>2, <2>4 DEF l
<1>7. ASSUME NEW s \in first, NEW t \in first, s < t PROVE last(s) < t
  <2> DEFINE l == last(s)
  <2>1. l \in text /\ s .. l \subseteq text /\ s \in text /\ t \in text /\ t - 1 \notin text
    BY <1>3, <1>b
  <2> HIDE DEF l
  <2>2. l \in Nat /\ s \in Nat /\ t \in Nat
    BY <1>a, <2>1
  <2>3. l < t
    <3> SUFFICES ASSUME t <= l PROVE FALSE
      BY <2>2
    <3>1. t - 1 \in s .. l
      BY <1>7, <2>2
    <3> QED
      BY <2>1, <3>1
  <2> QED
    BY <2>3 DEF l
<1>8. \A k \in 1 .. c : /\ ps[k].from = Nth(first, k) /\ ps[k].to = last(Nth(first, k))
                        /\ ps[k] = [from |-> ps[k].from, to |-> ps[k].to]
                        /\ ps[k].from \in 1 .. d.n /\ ps[k].to \in 1 .. d.n /\ ps[k].from <= ps[k].to
  <2> TAKE k \in 1 .. c
  <2>1. ps[k].from = Nth(first, k) /\ ps[k].to = last(Nth(first, k)) /\ ps[k] = [from |-> ps[k].from, to |-> ps[k].to]
    BY <1>2
  <2>2. Nth(first, k) \in first
    BY <1>5
  <2> QED
    BY <1>a, <1>b, <1>3, <2>1, <2>2
<1>9. DOMAIN ps = 1 .. c /\ ps = [k \in 1 .. c |-> ps[k]]
  BY <1>2
<1>10. ps \in Seq([from : 1 .. d.n, to : 1 .. d.n])
  <2> DEFINE P == [from : 1 .. d.n, to : 1 .. d.n]
  <2>1. \A k \in 1 .. c : ps[k] \in P
    <3> TAKE k \in 1 .. c
    <3> DEFINE a == ps[k].from
               b == ps[k].to
    <3>1. ps[k] = [from |-> a, to |-> b] /\ a \in 1 .. d.n /\ b \in 1 .. d.n
      BY <1>8
    <3> HIDE DEF a, b
    <3> QED
      BY <3>1
  <2> HIDE DEF P
  <2>2. ps \in Seq(P)
    BY <1>5, <1>9, <2>1
  <2> QED
    BY <2>2 DEF P
<1>11. ASSUME NEW i \in text PROVE \E k \in DOMAIN ps : i \in ps[k].from .. ps[k].to
  <2>1. PICK s \in first : s <= i /\ i <= last(s)
    BY <1>6
  <2>2. PICK k \in 1 .. c : Nth(first, k) = s
    BY <1>5
  <2>3. ps[k].from = s /\ ps[k].to = last(s) /\ i \in Nat /\ s \in Nat /\ last(s) \in Nat
    BY <1>a, <1>b, <1>3, <1>8, <2>2
  <2> QED
    BY <1>9, <2>1, <2>2, <2>3
<1>12. ASSUME NEW k \in DOMAIN ps, NEW m \in DOMAIN ps, k < m PROVE ps[k].to < ps[m].from
  <2>1. Nth(first, k) \in first /\ Nth(first, m) \in first /\ Nth(first, k) < Nth(first, m)
    BY <1>5, <1>9, <1>12
  <2> QED
    BY <1>7, <1>8, <1>9, <2>1
<1> QED
  BY <1>8, <1>9, <1>10, <1>11, <1>12 DEF ps, text

Gathers == INSTANCE FoldLemmas WITH Step <- AddParagraph

(* The chunks so far and the buffer, after the first h of the paragraphs ps. *)
ParaHolds(d, ps, st, h) ==
    /\ st = [chunks |-> st.chunks, buf |-> st.buf] /\ st.buf \in LineChunk
    /\ Sized(st.chunks, d.size) /\ IsFiniteSet(st.buf.held) /\ Cardinality(st.buf.held) <= d.size
    /\ \A k \in 1 .. h : ps[k].from .. ps[k].to \subseteq HeldBy(st.chunks) \cup st.buf.held
    /\ st.buf.held \subseteq st.buf.first .. st.buf.last /\ st.buf.last <= d.n
    /\ st.buf.held # {} => h > 0 /\ st.buf.last <= ps[h].to
    /\ LongParagraphs(d) = {} => Honest(st.chunks, d.n)

LEMMA NothingGathered ==
    ASSUME NEW d, IsLineDoc(d), NEW ps
    PROVE  ParaHolds(d, ps, [chunks |-> <<>>, buf |-> NoBuffer], 0)
<1>1. IsFiniteSet({}) /\ Cardinality({}) = 0
  BY FS_EmptySet
<1>2. NoBuffer \in LineChunk
  BY DEF NoBuffer, LineChunk
<1>3. \A k \in 1 .. 0 : FALSE
  OBVIOUS
<1>4. d.n \in Nat /\ d.size \in Nat
  BY DEF IsLineDoc
<1> DEFINE st == [chunks |-> <<>>, buf |-> NoBuffer]
<1>5. st.chunks = <<>> /\ st.buf = NoBuffer /\ NoBuffer.held = {} /\ NoBuffer.last = 0 /\ st = [chunks |-> st.chunks, buf |-> st.buf]
  BY DEF NoBuffer
<1>6. Sized(<<>>, d.size) /\ Honest(<<>>, d.n)
  BY NoChunk
<1> HIDE DEF st
<1>7. ParaHolds(d, ps, st, 0)
  BY <1>1, <1>2, <1>3, <1>4, <1>5, <1>6 DEF ParaHolds
<1> QED
  BY <1>7 DEF st

(* Flushing keeps what was gathered. *)
LEMMA FlushKeeps ==
    ASSUME NEW d, IsLineDoc(d), NEW ps, NEW st, NEW h, ParaHolds(d, ps, st, h)
    PROVE  /\ Flush(st) = [chunks |-> Flush(st).chunks, buf |-> Flush(st).buf]
           /\ Flush(st).buf \in LineChunk /\ Flush(st).buf.held = {} /\ Flush(st).buf.last <= d.n
           /\ Sized(Flush(st).chunks, d.size)
           /\ HeldBy(Flush(st).chunks) = HeldBy(st.chunks) \cup st.buf.held
           /\ LongParagraphs(d) = {} => Honest(Flush(st).chunks, d.n)
<1>1. d.n \in Nat /\ d.size \in Nat
  BY DEF IsLineDoc
<1>2. CASE st.buf.held = {}
  BY <1>2 DEF Flush, ParaHolds
<1>3. CASE st.buf.held # {}
  <2> DEFINE c == st.buf
  <2>1. Flush(st) = [chunks |-> Append(st.chunks, c), buf |-> NoBuffer]
    BY <1>3 DEF Flush
  <2>2. c \in LineChunk /\ st.chunks \in Seq(LineChunk) /\ IsFiniteSet(c.held) /\ Cardinality(c.held) <= d.size
    BY DEF ParaHolds, Sized
  <2>3. Range(Append(st.chunks, c)) = Range(st.chunks) \cup {c} /\ Append(st.chunks, c) \in Seq(LineChunk)
    BY <2>2, AppendRange
  <2>4. Sized(Append(st.chunks, c), d.size)
    BY <2>2, <2>3 DEF Sized, ParaHolds
  <2>5. HeldBy(Append(st.chunks, c)) = HeldBy(st.chunks) \cup c.held
    BY <2>3 DEF HeldBy
  <2>6. c.held \subseteq c.first .. c.last /\ c.last <= Greatest(1, d.n)
    <3>1. c.last \in Int /\ c.last <= d.n /\ c.held \subseteq c.first .. c.last
      BY <2>2 DEF ParaHolds, LineChunk
    <3> HIDE DEF c
    <3> QED
      BY <1>1, <3>1 DEF Greatest
  <2>7. LongParagraphs(d) = {} => Honest(Append(st.chunks, c), d.n)
    BY <2>3, <2>6 DEF Honest, ParaHolds
  <2>8. NoBuffer \in LineChunk /\ NoBuffer.held = {} /\ NoBuffer.last <= d.n
    BY <1>1 DEF NoBuffer, LineChunk
  <2> QED
    BY <2>1, <2>4, <2>5, <2>7, <2>8
<1> QED
  BY <1>2, <1>3

(* One paragraph more. *)
LEMMA ParaGoesOn ==
    ASSUME NEW d, IsLineDoc(d), NEW ps, ps = Paragraphs(d), d.type = "prose",
           NEW k \in 1 .. Len(ps), NEW h \in Nat, k = h + 1, NEW st, ParaHolds(d, ps, st, h)
    PROVE  ParaHolds(d, ps, AddParagraph(d, st, ps[k]), k)
<1> DEFINE p == ps[k]
           lines == p.to - p.from + 1
           room == IF Cardinality(st.buf.held) + lines > d.size THEN Flush(st) ELSE st
           b == room.buf
           new == AddParagraph(d, st, p)
<1>1. d.n \in Nat /\ d.size \in Nat \ {0} /\ d.overlap \in Nat
  BY DEF IsLineDoc
<1>2. /\ ps \in Seq([from : 1 .. d.n, to : 1 .. d.n]) /\ DOMAIN ps = 1 .. Len(ps) /\ Len(ps) \in Nat
      /\ p.from \in 1 .. d.n /\ p.to \in 1 .. d.n /\ p.from <= p.to
      /\ h > 0 => ps[h].to < p.from /\ ps[h].to \in 1 .. d.n
  <2>1. /\ ps \in Seq([from : 1 .. d.n, to : 1 .. d.n])
        /\ \A i \in DOMAIN ps : ps[i].from <= ps[i].to
        /\ \A i, m \in DOMAIN ps : i < m => ps[i].to < ps[m].from
    BY ParagraphsAre
  <2>2. DOMAIN ps = 1 .. Len(ps) /\ Len(ps) \in Nat
    BY <2>1
  <2>3. k \in DOMAIN ps /\ (h > 0 => h \in DOMAIN ps /\ h < k)
    BY <2>2
  <2>4. ASSUME NEW i \in DOMAIN ps PROVE ps[i].from \in 1 .. d.n /\ ps[i].to \in 1 .. d.n
    <3>1. ps[i] \in [from : 1 .. d.n, to : 1 .. d.n]
      BY <2>1, EntryIsIn
    <3> QED
      BY <3>1
  <2>5. h > 0 => ps[h].to < ps[k].from
    BY <2>1, <2>3
  <2> QED
    BY <2>1, <2>2, <2>3, <2>4, <2>5
<1>3. lines \in Nat \ {0} /\ p.from + lines - 1 = p.to /\ p.from \in Int
  <2> HIDE DEF p
  <2> QED
    BY <1>1, <1>2
<1>4. p \in Range(Paragraphs(d))
  BY <1>2 DEF Range
<1>5. \A j \in 1 .. k : j \in 1 .. h \/ j = k
  OBVIOUS
<1>6. CASE lines > d.size
  <2> DEFINE fl == Flush(st)
             w == _chunk_lines(p.from, lines, d.size, d.overlap)
  <2>1. new = [chunks |-> fl.chunks \o w, buf |-> fl.buf]
    <3>1. new = [Flush(st) EXCEPT !.chunks = @ \o w]
      BY <1>6 DEF AddParagraph
    <3>2. fl = [chunks |-> fl.chunks, buf |-> fl.buf]
      BY FlushKeeps
    <3> QED
      BY <3>1, <3>2
  <2>2. Sized(w, d.size) /\ HeldBy(w) = p.from .. p.to
    <3>1. w = Window(p.from, lines, d.size, d.overlap, 1)
      BY DEF _chunk_lines
    <3> HIDE DEF lines, p, w
    <3>2. Sized(w, d.size) /\ HeldBy(w) = p.from .. p.from + lines - 1
      <4>1. 1 \in Int /\ lines \in Nat
        BY <1>3
      <4>2. LET cs == Window(p.from, lines, d.size, d.overlap, 1)
            IN Sized(cs, d.size) /\ HeldBy(cs) = p.from .. p.from + lines - 1
        BY ONLY <1>1, <1>3, <4>1, WindowIs
      <4> QED
        BY <3>1, <4>2
    <3> QED
      BY <1>3, <3>2
  <2>3. /\ fl.buf \in LineChunk /\ fl.buf.held = {} /\ fl.buf.last <= d.n /\ Sized(fl.chunks, d.size)
        /\ HeldBy(fl.chunks) = HeldBy(st.chunks) \cup st.buf.held
    BY FlushKeeps
  <2>4. Sized(new.chunks, d.size) /\ HeldBy(new.chunks) = HeldBy(st.chunks) \cup st.buf.held \cup (p.from .. p.to)
    <3> HIDE DEF fl, w, p, new
    <3>1. new.chunks = fl.chunks \o w
      BY <2>1
    <3> QED
      <4>1. Sized(fl.chunks \o w, d.size) /\ HeldBy(fl.chunks \o w) = HeldBy(fl.chunks) \cup HeldBy(w)
        <5>1. \A x, y, s : Sized(x, s) /\ Sized(y, s) =>
                Sized(x \o y, s) /\ HeldBy(x \o y) = HeldBy(x) \cup HeldBy(y)
          BY ChunksJoin, HeldByBoth
        <5> QED
          BY <2>2, <2>3, <5>1
      <4> QED
        BY <2>2, <2>3, <3>1, <4>1
  <2>5. LongParagraphs(d) # {}
    BY <1>4, <1>6 DEF LongParagraphs
  <2>6. IsFiniteSet({}) /\ Cardinality({}) = 0
    BY FS_EmptySet
  <2>7. \A j \in 1 .. k : ps[j].from .. ps[j].to \subseteq HeldBy(new.chunks)
    BY <1>5, <2>4 DEF ParaHolds
  <2> HIDE DEF fl, w, lines, p
  <2>8. new = [chunks |-> new.chunks, buf |-> new.buf] /\ new.buf = fl.buf
    BY <2>1
  <2> HIDE DEF new
  <2>9. ParaHolds(d, ps, new, k)
    <3>1. new.buf.held = {} /\ new.buf.last <= d.n /\ new.buf \in LineChunk
      BY <2>3, <2>8
    <3>2. new.buf.held \subseteq new.buf.first .. new.buf.last /\ IsFiniteSet(new.buf.held)
          /\ Cardinality(new.buf.held) <= d.size
      BY <1>1, <2>6, <3>1
    <3>3. \A j \in 1 .. k : ps[j].from .. ps[j].to \subseteq HeldBy(new.chunks) \cup new.buf.held
      BY <2>7
    <3> QED
      BY ONLY <2>4, <2>5, <2>8, <3>1, <3>2, <3>3 DEF ParaHolds
  <2> QED
    BY <2>9 DEF new, p
<1>7. CASE ~(lines > d.size)
  <2> DEFINE held == b.held \cup (p.from .. p.to)
             at == IF b.held = {} THEN p.from ELSE b.first
  <2>1. /\ room = [chunks |-> room.chunks, buf |-> b] /\ b \in LineChunk
        /\ Sized(room.chunks, d.size) /\ IsFiniteSet(b.held) /\ Cardinality(b.held) + lines <= d.size
        /\ HeldBy(room.chunks) \cup b.held = HeldBy(st.chunks) \cup st.buf.held
        /\ b.held \subseteq b.first .. b.last /\ b.last <= d.n
        /\ b.held # {} => h > 0 /\ b.last <= ps[h].to
        /\ LongParagraphs(d) = {} => Honest(room.chunks, d.n)
    <3>1. CASE Cardinality(st.buf.held) + lines > d.size
      <4>1. room = Flush(st)
        BY <3>1
      <4>2. IsFiniteSet({}) /\ Cardinality({}) = 0
        BY FS_EmptySet
      <4>3. /\ Flush(st) = [chunks |-> Flush(st).chunks, buf |-> Flush(st).buf]
            /\ Flush(st).buf \in LineChunk /\ Flush(st).buf.held = {} /\ Flush(st).buf.last <= d.n
            /\ Sized(Flush(st).chunks, d.size)
            /\ HeldBy(Flush(st).chunks) = HeldBy(st.chunks) \cup st.buf.held
            /\ LongParagraphs(d) = {} => Honest(Flush(st).chunks, d.n)
        BY FlushKeeps
      <4> HIDE DEF lines, room, p
      <4> QED
        BY <1>1, <1>3, <1>7, <4>1, <4>2, <4>3
    <3>2. CASE ~(Cardinality(st.buf.held) + lines > d.size)
      <4>1. room = st
        BY <3>2
      <4>2. IsFiniteSet(st.buf.held)
        BY DEF ParaHolds
      <4>3. Cardinality(st.buf.held) \in Nat
        BY <4>2, FS_CardinalityType
      <4>4. Cardinality(st.buf.held) + lines <= d.size
        BY <1>1, <1>3, <3>2, <4>3
      <4> HIDE DEF lines, room, p
      <4> QED
        BY <4>1, <4>4 DEF ParaHolds
    <3> QED
      BY <3>1, <3>2
  <2>2. new = [chunks |-> room.chunks, buf |-> [first |-> at, last |-> p.to, held |-> held]]
    <3>1. new = [room EXCEPT !.buf = Chunk(at, p.to, held)]
      BY <1>7 DEF AddParagraph
    <3> HIDE DEF room, b, at, held, p
    <3> QED
      BY <2>1, <3>1 DEF Chunk
  <2>3. IsFiniteSet(p.from .. p.to) /\ Cardinality(p.from .. p.to) = lines
    <3>1. p.from \in Int /\ p.to \in Int /\ p.from <= p.to + 1
      BY <1>1, <1>2
    <3> HIDE DEF p
    <3> QED
      BY <3>1, SpanCounts
  <2>4. IsFiniteSet(held) /\ Cardinality(held) <= d.size
    <3>1. /\ IsFiniteSet(held)
          /\ Cardinality(held) = Cardinality(b.held) + Cardinality(p.from .. p.to)
                                 - Cardinality(b.held \cap (p.from .. p.to))
      <4> DEFINE span == p.from .. p.to
                 old == b.held
      <4>1. IsFiniteSet(old) /\ IsFiniteSet(span)
        BY <2>1, <2>3
      <4> HIDE DEF span, old
      <4>2. IsFiniteSet(old \cup span)
            /\ Cardinality(old \cup span) = Cardinality(old) + Cardinality(span) - Cardinality(old \cap span)
        BY <4>1, FS_Union
      <4> QED
        BY <4>2 DEF span, old
    <3>2. Cardinality(b.held \cap (p.from .. p.to)) \in Nat
      <4>1. IsFiniteSet(b.held \cap (p.from .. p.to))
        BY <2>1, FS_Intersection
      <4> QED
        BY <4>1, FS_CardinalityType
    <3>3. Cardinality(b.held) \in Nat
      BY <2>1, FS_CardinalityType
    <3> HIDE DEF held, lines, b, p
    <3> QED
      BY <1>1, <1>3, <2>1, <2>3, <3>1, <3>2, <3>3
  <2> HIDE DEF b, room, new, lines
  <2>5. at \in Int /\ held \subseteq at .. p.to /\ held \subseteq Int
    <3>1. b.first \in Int /\ b.last \in Int /\ p.from \in Int /\ p.to \in Int /\ p.from <= p.to
      BY <1>1, <1>2, <2>1 DEF LineChunk
    <3>2. CASE b.held = {}
      BY <3>1, <3>2
    <3>3. CASE b.held # {}
      <4>1. b.last < p.from
        <5>1. ps[h].to \in Int /\ ps[h].to < p.from /\ b.last <= ps[h].to
          BY <1>1, <1>2, <2>1, <3>3
        <5> HIDE DEF p
        <5> QED
          BY <3>1, <5>1
      <4>2. b.first <= b.last
        <5>1. PICK y \in b.held : TRUE
          BY <3>3
        <5>2. y \in b.first .. b.last
          BY <2>1, <5>1
        <5> QED
          BY <3>1, <5>2
      <4> HIDE DEF p
      <4>3. \A y \in held : y \in b.first .. p.to
        <5> TAKE y \in held
        <5>1. y \in b.first .. b.last \/ y \in p.from .. p.to
          BY <2>1
        <5> QED
          BY <3>1, <4>1, <4>2, <5>1
      <4> QED
        BY <3>1, <3>3, <4>3
    <3> QED
      BY <3>2, <3>3
  <2> DEFINE nb == [first |-> at, last |-> p.to, held |-> held]
  <2>6. nb \in LineChunk /\ nb.held = held /\ nb.first = at /\ nb.last = p.to /\ p.to <= d.n
    <3>1. p.to \in Int /\ p.to <= d.n
      BY <1>1, <1>2
    <3> QED
      BY <2>5, <3>1 DEF LineChunk
  <2>7. \A j \in 1 .. k : ps[j].from .. ps[j].to \subseteq HeldBy(room.chunks) \cup held
    BY <1>5, <2>1 DEF ParaHolds
  <2>8. k > 0 /\ ps[k].to = p.to
    OBVIOUS
  <2>9. new = [chunks |-> new.chunks, buf |-> new.buf] /\ new.chunks = room.chunks /\ new.buf = nb
    BY <2>2
  <2> HIDE DEF nb, held, at
  <2>10. held # {} => nb.last <= ps[k].to
    BY <1>1, <1>2, <2>6
  <2> HIDE DEF p
  <2>11. ParaHolds(d, ps, new, k)
    BY <2>1, <2>4, <2>5, <2>6, <2>7, <2>8, <2>9, <2>10 DEF ParaHolds
  <2> QED
    BY <2>11 DEF new, p
<1> QED
  BY <1>6, <1>7

(* Prose: every paragraph is in a chunk. *)
LEMMA ProseIsCovered ==
    ASSUME NEW d, IsLineDoc(d), d.type = "prose"
    PROVE  LET cs == _chunk_paragraphs(d)
           IN /\ Sized(cs, d.size) /\ 1 .. d.n \ d.blank \subseteq HeldBy(cs)
              /\ LongParagraphs(d) = {} => Honest(cs, d.n)
<1> DEFINE ps == Paragraphs(d)
           base == [chunks |-> <<>>, buf |-> NoBuffer]
<1>1. ps \in Seq([from : 1 .. d.n, to : 1 .. d.n])
      /\ \A i \in 1 .. d.n \ d.blank : \E k \in DOMAIN ps : i \in ps[k].from .. ps[k].to
  BY ParagraphsAre
<1>2. _chunk_paragraphs(d) = Flush(Gathers!Fold(d, base, ps)).chunks
  BY Zenon DEF _chunk_paragraphs, FoldLeft, MapThenFoldSet, Max, Gathers!Fold, Gathers!Greatest
<1> HIDE DEF ps
<1>3. PICK f : Gathers!IsRun(f, d, base, ps) /\ Gathers!Fold(d, base, ps) = f[Len(ps)]
  BY <1>1, Gathers!FoldRun, NumbersInductive DEF Gathers!Inductive
<1>4. Len(ps) \in Nat /\ DOMAIN ps = 1 .. Len(ps)
  BY <1>1
<1>5. f[0] = base /\ \A k \in 1 .. Len(ps) : f[k] = AddParagraph(d, f[k - 1], ps[k])
  BY <1>3, Zenon DEF Gathers!IsRun
<1> DEFINE done == {k \in 0 .. Len(ps) : ParaHolds(d, ps, f[k], k)}
<1>6. 0 \in done
  <2>1. 0 \in 0 .. Len(ps)
    BY <1>4
  <2>2. ParaHolds(d, ps, f[0], 0)
    BY <1>5, NothingGathered
  <2> QED
    BY <2>1, <2>2
<1>7. ASSUME NEW k \in 0 .. Len(ps) - 1, k \in done PROVE k + 1 \in done
  <2>1. k + 1 \in 1 .. Len(ps) /\ k + 1 - 1 = k /\ k + 1 \in 0 .. Len(ps) /\ k \in Nat
    BY <1>4
  <2>2. f[k + 1] = AddParagraph(d, f[k], ps[k + 1])
    BY <1>5, <2>1
  <2>3. ParaHolds(d, ps, f[k], k)
    BY <1>7
  <2>4. ParaHolds(d, ps, f[k + 1], k + 1)
    BY <2>1, <2>2, <2>3, ParaGoesOn DEF ps
  <2> QED
    BY <2>1, <2>4
<1>8. Len(ps) \in done
  <2> HIDE DEF done
  <2>1. \A k \in 0 .. Len(ps) : k \in done
    BY <1>4, <1>6, <1>7, UpTo
  <2> QED
    BY <1>4, <2>1
<1> DEFINE st == f[Len(ps)]
<1>9. ParaHolds(d, ps, st, Len(ps))
  BY <1>8
<1> HIDE DEF st
<1>10. /\ Sized(Flush(st).chunks, d.size)
       /\ HeldBy(Flush(st).chunks) = HeldBy(st.chunks) \cup st.buf.held
       /\ LongParagraphs(d) = {} => Honest(Flush(st).chunks, d.n)
  BY <1>9, FlushKeeps
<1>11. 1 .. d.n \ d.blank \subseteq HeldBy(Flush(st).chunks)
  BY <1>1, <1>4, <1>9, <1>10 DEF ParaHolds
<1> QED
  BY <1>2, <1>3, <1>10, <1>11 DEF st

(* Lines cut into windows under their own numbers. *)
LEMMA OwnWindow ==
    ASSUME NEW d, IsLineDoc(d), NEW a \in 1 .. d.n, NEW b \in 1 .. d.n, a <= b
    PROVE  LET w == _window(a, b - a + 1, d.size)
           IN Sized(w, d.size) /\ HeldBy(w) = a .. b /\ Honest(w, d.n)
<1>1. d.n \in Nat /\ d.size \in Nat \ {0}
  BY DEF IsLineDoc
<1> DEFINE lines == b - a + 1
           o == d.size \div 10
           w == _window(a, lines, d.size)
<1>2. a \in Int /\ b \in Int /\ lines \in Nat /\ a + lines - 1 = b /\ b <= d.n
  BY <1>1
<1>3. o \in Nat
  <2>1. \A s \in Nat : s \div 10 \in Nat
    BY SMT
  <2> QED
    BY <1>1, <2>1
<1>4. w = Window(a, lines, d.size, o, a)
  BY DEF _window
<1> HIDE DEF lines, o, w
<1>5. LET cs == Window(a, lines, d.size, o, a)
      IN /\ Sized(cs, d.size) /\ HeldBy(cs) = a .. a + lines - 1
         /\ \A m \in Nat : (a = a /\ a + lines - 1 <= m) => Honest(cs, m)
  BY ONLY <1>1, <1>2, <1>3, WindowIs
<1>6. Sized(w, d.size) /\ HeldBy(w) = a .. b /\ Honest(w, d.n)
  BY <1>1, <1>2, <1>4, <1>5
<1> QED
  BY <1>6 DEF w, lines

(* The lines between two definitions. *)
LEMMA StretchIs ==
    ASSUME NEW d, IsLineDoc(d), NEW a \in 1 .. d.n + 1, NEW b \in 0 .. d.n
    PROVE  LET s == Stretch(d, a, b)
           IN Sized(s, d.size) /\ (a .. b) \ d.blank \subseteq HeldBy(s) /\ Honest(s, d.n)
<1>1. d.n \in Nat
  BY DEF IsLineDoc
<1>2. CASE a > b
  <2>1. Stretch(d, a, b) = <<>> /\ a .. b = {}
    BY <1>1, <1>2 DEF Stretch
  <2> QED
    BY <2>1, NoChunk
<1>3. CASE a .. b \subseteq d.blank
  <2>1. Stretch(d, a, b) = <<>> /\ (a .. b) \ d.blank = {}
    BY <1>3 DEF Stretch
  <2> QED
    BY <2>1, NoChunk
<1>4. CASE a <= b /\ ~(a .. b \subseteq d.blank)
  <2>1. ~(a > b) /\ a \in 1 .. d.n /\ b \in 1 .. d.n
    BY <1>1, <1>4
  <2>2. Stretch(d, a, b) = _window(a, b - a + 1, d.size)
    BY <1>4, <2>1 DEF Stretch
  <2>3. LET w == _window(a, b - a + 1, d.size)
        IN Sized(w, d.size) /\ HeldBy(w) = a .. b /\ Honest(w, d.n)
    BY <1>4, <2>1, OwnWindow
  <2> QED
    BY <2>2, <2>3
<1>5. a > b \/ a <= b
  BY <1>1
<1> QED
  BY <1>2, <1>3, <1>4, <1>5

(* A definition's own chunks. *)
Body(d, def) ==
    IF def.to - def.from + 1 <= d.size THEN <<Chunk(def.from, def.to, def.from .. def.to)>>
    ELSE _window(def.from, def.to - def.from + 1, d.size)

LEMMA BodyIs ==
    ASSUME NEW d, IsLineDoc(d), NEW def, def.from \in 1 .. d.n, def.to \in 1 .. d.n, def.from <= def.to
    PROVE  Sized(Body(d, def), d.size) /\ HeldBy(Body(d, def)) = def.from .. def.to /\ Honest(Body(d, def), d.n)
<1> DEFINE a == def.from
           b == def.to
<1>1. d.n \in Nat /\ d.size \in Nat \ {0} /\ a \in Int /\ b \in Int /\ a <= b + 1 /\ b <= d.n
  BY DEF IsLineDoc
<1>2. CASE b - a + 1 <= d.size
  <2> DEFINE c == [first |-> a, last |-> b, held |-> a .. b]
  <2>1. Body(d, def) = <<c>>
    BY <1>2 DEF Body, Chunk
  <2>2. IsFiniteSet(a .. b) /\ Cardinality(a .. b) = b - a + 1
    BY <1>1, SpanCounts
  <2>3. c \in LineChunk /\ IsFiniteSet(c.held) /\ Cardinality(c.held) <= d.size
    BY <1>1, <1>2, <2>2 DEF LineChunk
  <2>4. c.held = a .. b /\ c.held \subseteq c.first .. c.last /\ c.last <= Greatest(1, d.n)
    BY <1>1 DEF Greatest
  <2> HIDE DEF c
  <2>5. Sized(<<c>>, d.size) /\ Range(<<c>>) = {c} /\ HeldBy(<<c>>) = c.held
    BY <2>3, OneChunk
  <2>6. Honest(<<c>>, d.n)
    BY <2>4, <2>5 DEF Honest
  <2> QED
    BY <2>1, <2>4, <2>5, <2>6
<1>3. CASE ~(b - a + 1 <= d.size)
  <2>1. Body(d, def) = _window(a, b - a + 1, d.size)
    BY <1>3 DEF Body
  <2>2. LET w == _window(a, b - a + 1, d.size)
        IN Sized(w, d.size) /\ HeldBy(w) = a .. b /\ Honest(w, d.n)
    BY OwnWindow
  <2> QED
    BY <2>1, <2>2
<1> QED
  BY <1>2, <1>3

(* The loop over the definitions. *)
AddDef(d, acc, def) ==
    [chunks |-> acc.chunks \o Stretch(d, acc.cursor, def.from - 1) \o Body(d, def), cursor |-> def.to + 1]

Defs == INSTANCE FoldLemmas WITH Step <- AddDef

DefsHold(d, acc) ==
    /\ acc.cursor \in 1 .. d.n + 1
    /\ Sized(acc.chunks, d.size) /\ Honest(acc.chunks, d.n)
    /\ (1 .. acc.cursor - 1) \ d.blank \subseteq HeldBy(acc.chunks)

LEMMA MoreChunks ==
    ASSUME NEW d, NEW a, NEW b, Sized(a, d.size), Sized(b, d.size), Honest(a, d.n), Honest(b, d.n)
    PROVE  Sized(a \o b, d.size) /\ Honest(a \o b, d.n) /\ HeldBy(a \o b) = HeldBy(a) \cup HeldBy(b)
<1>1. /\ a \in Seq(LineChunk) /\ b \in Seq(LineChunk) /\ Sized(a \o b, d.size)
      /\ \A n : Honest(a, n) /\ Honest(b, n) => Honest(a \o b, n)
  BY ChunksJoin
<1> QED
  BY <1>1, HeldByBoth

LEMMA DefGoesOn ==
    ASSUME NEW d, IsLineDoc(d), NEW acc, DefsHold(d, acc), NEW def,
           def.from \in 1 .. d.n, def.to \in 1 .. d.n, def.from <= def.to
    PROVE  DefsHold(d, AddDef(d, acc, def))
<1> DEFINE s == Stretch(d, acc.cursor, def.from - 1)
           b == Body(d, def)
           u == acc.cursor
           v == def.from
           to == def.to
           new == AddDef(d, acc, def)
<1>1. d.n \in Nat /\ u \in 1 .. d.n + 1 /\ v \in 1 .. d.n /\ to \in 1 .. d.n /\ v - 1 \in 0 .. d.n
  BY DEF IsLineDoc, DefsHold
<1>2. Sized(s, d.size) /\ (u .. v - 1) \ d.blank \subseteq HeldBy(s) /\ Honest(s, d.n)
  BY <1>1, StretchIs
<1>3. Sized(b, d.size) /\ HeldBy(b) = v .. to /\ Honest(b, d.n)
  BY BodyIs
<1>4. new.chunks = acc.chunks \o s \o b /\ new.cursor = to + 1
  BY DEF AddDef
<1> HIDE DEF s, b, new
<1>5. Sized(acc.chunks \o s, d.size) /\ Honest(acc.chunks \o s, d.n)
      /\ HeldBy(acc.chunks \o s) = HeldBy(acc.chunks) \cup HeldBy(s)
  BY <1>2, MoreChunks DEF DefsHold
<1>6. /\ Sized(acc.chunks \o s \o b, d.size) /\ Honest(acc.chunks \o s \o b, d.n)
      /\ HeldBy(acc.chunks \o s \o b) = HeldBy(acc.chunks) \cup HeldBy(s) \cup HeldBy(b)
  <2> DEFINE x == acc.chunks \o s
  <2>1. Sized(x, d.size) /\ Honest(x, d.n) /\ HeldBy(x) = HeldBy(acc.chunks) \cup HeldBy(s)
    BY <1>5
  <2> HIDE DEF x
  <2>2. Sized(x \o b, d.size) /\ Honest(x \o b, d.n) /\ HeldBy(x \o b) = HeldBy(x) \cup HeldBy(b)
    BY <1>3, <2>1, MoreChunks
  <2> QED
    BY <2>1, <2>2 DEF x
<1>7. (1 .. to) \ d.blank \subseteq HeldBy(new.chunks)
  <2> SUFFICES ASSUME NEW y \in 1 .. to, y \notin d.blank PROVE y \in HeldBy(new.chunks)
    OBVIOUS
  <2>1. y \in 1 .. u - 1 \/ y \in u .. v - 1 \/ y \in v .. to
    BY <1>1
  <2>2. y \in HeldBy(acc.chunks) \/ y \in HeldBy(s) \/ y \in HeldBy(b)
    BY <1>2, <1>3, <2>1 DEF DefsHold
  <2> QED
    BY <1>4, <1>6, <2>2
<1>8. new.cursor \in 1 .. d.n + 1 /\ new.cursor - 1 = to
  BY <1>1, <1>4
<1>9. DefsHold(d, new)
  BY <1>4, <1>6, <1>7, <1>8 DEF DefsHold
<1> QED
  BY <1>9 DEF new

LEMMA CodeIsCovered ==
    ASSUME NEW d, IsLineDoc(d)
    PROVE  LET cs == chunk_code_treesitter(d)
           IN Sized(cs, d.size) /\ 1 .. d.n \ d.blank \subseteq HeldBy(cs) /\ Honest(cs, d.n)
<1> DEFINE base == [chunks |-> <<>>, cursor |-> 1]
           st == Defs!Fold(d, base, d.defs)
           defs == d.defs
<1>1. d.n \in Nat /\ defs \in Seq([from : 1 .. d.n, to : 1 .. d.n])
      /\ \A k \in DOMAIN defs : defs[k].from <= defs[k].to
  BY DEF IsLineDoc
<1>2. chunk_code_treesitter(d) = st.chunks \o Stretch(d, st.cursor, d.n)
  BY Zenon DEF chunk_code_treesitter, AddDef, Body, FoldLeft, MapThenFoldSet, Max, Defs!Fold, Defs!Greatest
<1> HIDE DEF defs
<1>3. PICK f : Defs!IsRun(f, d, base, defs) /\ Defs!Fold(d, base, defs) = f[Len(defs)]
  BY <1>1, Defs!FoldRun, NumbersInductive DEF Defs!Inductive
<1>4. Len(defs) \in Nat /\ DOMAIN defs = 1 .. Len(defs)
  BY <1>1
<1>5. f[0] = base /\ \A k \in 1 .. Len(defs) : f[k] = AddDef(d, f[k - 1], defs[k])
  BY <1>3, Zenon DEF Defs!IsRun
<1> DEFINE done == {k \in 0 .. Len(defs) : DefsHold(d, f[k])}
<1>6. 0 \in done
  <2>1. 0 \in 0 .. Len(defs)
    BY <1>4
  <2>2. base.cursor = 1 /\ base.chunks = <<>> /\ 1 \in 1 .. d.n + 1 /\ 1 .. base.cursor - 1 = {}
    BY <1>1
  <2> HIDE DEF base
  <2>3. DefsHold(d, base)
    BY <2>2, NoChunk DEF DefsHold
  <2> QED
    BY <1>5, <2>1, <2>3
<1>7. ASSUME NEW k \in 0 .. Len(defs) - 1, k \in done PROVE k + 1 \in done
  <2>1. k + 1 \in 1 .. Len(defs) /\ k + 1 - 1 = k /\ k + 1 \in 0 .. Len(defs) /\ k + 1 \in DOMAIN defs
    BY <1>4
  <2>2. f[k + 1] = AddDef(d, f[k], defs[k + 1])
    BY <1>5, <2>1
  <2> DEFINE def == defs[k + 1]
  <2>3. def.from \in 1 .. d.n /\ def.to \in 1 .. d.n /\ def.from <= def.to
    <3>1. def \in [from : 1 .. d.n, to : 1 .. d.n]
      BY <1>1, <2>1, EntryIsIn
    <3> QED
      BY <1>1, <2>1, <3>1
  <2>4. DefsHold(d, f[k])
    BY <1>7
  <2> HIDE DEF def
  <2>5. DefsHold(d, AddDef(d, f[k], def))
    BY <2>3, <2>4, DefGoesOn
  <2> QED
    BY <2>1, <2>2, <2>5 DEF def
<1>8. Len(defs) \in done
  <2> HIDE DEF done
  <2>1. \A k \in 0 .. Len(defs) : k \in done
    BY <1>4, <1>6, <1>7, UpTo
  <2> QED
    BY <1>4, <2>1
<1>9. DefsHold(d, st)
  BY <1>3, <1>8 DEF defs
<1> HIDE DEF st
<1> DEFINE s == Stretch(d, st.cursor, d.n)
<1>10. st.cursor \in 1 .. d.n + 1 /\ d.n \in 0 .. d.n
  BY <1>1, <1>9 DEF DefsHold
<1>11. Sized(s, d.size) /\ (st.cursor .. d.n) \ d.blank \subseteq HeldBy(s) /\ Honest(s, d.n)
  BY <1>10, StretchIs
<1> HIDE DEF s
<1>12. /\ Sized(st.chunks \o s, d.size) /\ Honest(st.chunks \o s, d.n)
       /\ HeldBy(st.chunks \o s) = HeldBy(st.chunks) \cup HeldBy(s)
  BY <1>9, <1>11, MoreChunks DEF DefsHold
<1>13. \A y \in 1 .. d.n : y \in 1 .. st.cursor - 1 \/ y \in st.cursor .. d.n
  BY <1>1, <1>10
<1>14. 1 .. d.n \ d.blank \subseteq HeldBy(st.chunks \o s)
  BY <1>9, <1>11, <1>12, <1>13 DEF DefsHold
<1> QED
  BY <1>2, <1>12, <1>14 DEF s

(* A text that is one chunk, or windows from its first line on. *)
LEMMA WholeIsCovered ==
    ASSUME NEW d, IsLineDoc(d), d.n <= d.size
    PROVE  LET cs == <<Chunk(1, Greatest(1, d.n), 1 .. d.n)>>
           IN Sized(cs, d.size) /\ 1 .. d.n \ d.blank \subseteq HeldBy(cs) /\ Honest(cs, d.n)
<1> DEFINE g == Greatest(1, d.n)
           c == [first |-> 1, last |-> g, held |-> 1 .. d.n]
<1>1. d.n \in Nat /\ d.size \in Nat \ {0} /\ g \in Int /\ d.n <= g
  BY DEF IsLineDoc, Greatest
<1>2. IsFiniteSet(1 .. d.n) /\ Cardinality(1 .. d.n) = d.n
  BY <1>1, SpanCounts
<1>3. 1 .. d.n \subseteq Int /\ 1 .. d.n \subseteq 1 .. g /\ g <= g
  BY <1>1
<1> HIDE DEF g
<1>4. c \in LineChunk /\ IsFiniteSet(c.held) /\ Cardinality(c.held) <= d.size
  BY <1>1, <1>2, <1>3 DEF LineChunk
<1>5. c.held = 1 .. d.n /\ c.held \subseteq c.first .. c.last /\ c.last <= g
  BY <1>3
<1>6. Chunk(1, g, 1 .. d.n) = c
  BY DEF Chunk
<1> HIDE DEF c
<1>7. Sized(<<c>>, d.size) /\ Range(<<c>>) = {c} /\ HeldBy(<<c>>) = c.held
  BY <1>4, OneChunk
<1>8. Honest(<<c>>, d.n)
  BY <1>5, <1>7 DEF Honest, g
<1> QED
  BY <1>5, <1>6, <1>7, <1>8 DEF g

LEMMA LinesAreCovered ==
    ASSUME NEW d, IsLineDoc(d)
    PROVE  LinesCovered(d)
<1> DEFINE cs == chunk_text(d)
           parsed == IF d.parser THEN chunk_code_treesitter(d) ELSE <<>>
           Covers(s) == Sized(s, d.size) /\ 1 .. d.n \ d.blank \subseteq HeldBy(s)
                        /\ (LongParagraphs(d) = {} => Honest(s, d.n))
<1>1. d.n \in Nat /\ d.size \in Nat \ {0} /\ d.overlap \in Nat
  BY DEF IsLineDoc
<1>2. Covers(cs)
  <2>1. CASE d.type = "prose"
    <3>1. cs = _chunk_paragraphs(d)
      BY <2>1 DEF chunk_text
    <3> QED
      BY <2>1, <3>1, ProseIsCovered
  <2>2. CASE d.type = "config" /\ d.n <= d.size
    <3>1. cs = <<Chunk(1, Greatest(1, d.n), 1 .. d.n)>>
      BY <2>2 DEF chunk_text
    <3> QED
      BY <2>2, <3>1, WholeIsCovered
  <2>3. CASE d.type = "code" /\ parsed # <<>>
    <3>1. cs = parsed
      BY <2>3 DEF chunk_text
    <3>2. parsed = chunk_code_treesitter(d)
      BY <2>3
    <3> QED
      BY <3>1, <3>2, CodeIsCovered
  <2>4. CASE d.type # "prose" /\ ~(d.type = "config" /\ d.n <= d.size) /\ ~(d.type = "code" /\ parsed # <<>>)
    <3>1. cs = _chunk_lines(1, d.n, d.size, d.overlap)
      BY <2>4 DEF chunk_text
    <3>2. cs = Window(1, d.n, d.size, d.overlap, 1)
      BY <3>1 DEF _chunk_lines
    <3>3. LET w == Window(1, d.n, d.size, d.overlap, 1)
          IN /\ Sized(w, d.size) /\ HeldBy(w) = 1 .. 1 + d.n - 1
             /\ \A m \in Nat : (1 = 1 /\ 1 + d.n - 1 <= m) => Honest(w, m)
      <4>1. 1 \in Int
        OBVIOUS
      <4> QED
        BY ONLY <1>1, <4>1, WindowIs
    <3>4. 1 + d.n - 1 = d.n /\ d.n <= d.n
      BY <1>1
    <3> HIDE DEF cs
    <3>5. Sized(cs, d.size) /\ HeldBy(cs) = 1 .. d.n /\ Honest(cs, d.n)
      BY <1>1, <3>2, <3>3, <3>4
    <3> QED
      BY <3>5
  <2> QED
    BY <2>1, <2>2, <2>3, <2>4
<1>3. UNION {c.held : c \in Range(SplitCandidate(d.n, d.size, d.overlap))} = 0 .. d.n - 1
  <2> DEFINE o == Greatest(0, Least(d.overlap, d.size - 1))
             w == SplitCandidate(d.n, d.size, d.overlap)
  <2>1. o \in Nat /\ 0 \in Int
    BY <1>1 DEF Greatest, Least
  <2>2. w = Window(0, d.n, d.size, o, 0)
    BY DEF SplitCandidate
  <2> HIDE DEF o, w
  <2>3. LET x == Window(0, d.n, d.size, o, 0)
        IN Sized(x, d.size) /\ HeldBy(x) = 0 .. 0 + d.n - 1
    BY ONLY <1>1, <2>1, WindowIs
  <2>4. 0 + d.n - 1 = d.n - 1
    BY <1>1
  <2>5. HeldBy(w) = 0 .. d.n - 1
    BY <2>2, <2>3, <2>4
  <2> QED
    BY <2>5 DEF HeldBy, w
<1> HIDE DEF cs
<1>4. /\ 1 .. d.n \ d.blank \subseteq UNION {c.held : c \in Range(cs)}
      /\ \A c \in Range(cs) : Cardinality(c.held) <= d.size
      /\ LongParagraphs(d) = {} =>
           \A c \in Range(cs) : c.held \subseteq c.first .. c.last /\ c.last <= Greatest(1, d.n)
  BY <1>2, Zenon DEF Sized, HeldBy, Honest
<1> QED
  BY <1>3, <1>4 DEF LinesCovered, cs

(* Every text, whatever its sentence ends, blank lines or definitions and    *)
(* whatever the sizes: Chunker.chunk's spans cover each character, none is   *)
(* empty, too long or inside an earlier one, and chunk_many numbers on;      *)
(* chunk_text's chunks hold every line that is not blank, none is longer     *)
(* than asked, and they say which lines they hold; retrieve_chunked's        *)
(* pieces leave no character out.                                            *)
THEOREM TextIsCoveredForAll == AlgSpec => []TextIsCovered
<1>1. call \in Calls \cup {NoCall} => TextIsCovered
  <2> HAVE call \in Calls \cup {NoCall}
  <2>1. call.kind \in {"chars", "lines"} => call \in Texts
    BY KindsAssumption DEF Calls, NoCall
  <2>2. ASSUME call.kind = "chars" PROVE CharsCovered(call.doc)
    <3>1. IsCharDoc(call.doc)
      BY <2>1, <2>2, TextsAssumption DEF IsText, IsCharDoc
    <3> QED
      BY <3>1, CharsAreCovered
  <2>3. ASSUME call.kind = "lines" PROVE LinesCovered(call.doc)
    <3>1. IsLineDoc(call.doc)
      BY <2>1, <2>3, TextsAssumption DEF IsText, IsLineDoc
    <3> QED
      BY <3>1, LinesAreCovered
  <2> QED
    BY <2>2, <2>3 DEF TextIsCovered
<1> QED
  BY <1>1, CallsMade, PTL

-----------------------------------------------------------------------------
(* Retrievals and splices *)

(* Each text of a batch gets its own embedding, whatever is cached. *)
LEMMA EncodesItsOwn ==
    ASSUME NEW c, c.texts \in Seq(Nat), c.cached \subseteq Nat
    PROVE  EachItsOwn(c)
<1> DEFINE s == c.texts
           cache == [t \in c.cached |-> t]
           misses == {i \in DOMAIN s : s[i] \notin DOMAIN cache}
           batch == Picked(s, misses)
           out(i) == IF i \notin misses THEN cache[s[i]] ELSE batch[CHOOSE j \in DOMAIN batch : Nth(misses, j) = i]
<1>1. s \in Seq(Nat) /\ misses \in SUBSET (DOMAIN s) /\ Len(s) \in Nat /\ DOMAIN s = 1 .. Len(s)
  OBVIOUS
<1>2. /\ DOMAIN batch = 1 .. Cardinality(misses)
      /\ \A k \in 1 .. Cardinality(misses) : Nth(misses, k) \in misses /\ batch[k] = s[Nth(misses, k)]
      /\ \A i \in misses : \E k \in 1 .. Cardinality(misses) : Nth(misses, k) = i
  <2> HIDE DEF s, misses
  <2>1. /\ \A k \in 1 .. Cardinality(misses) : Nth(misses, k) \in misses
        /\ \A i \in misses : \E k \in 1 .. Cardinality(misses) : Nth(misses, k) = i
    BY <1>1, NthIs
  <2> QED
    BY <2>1 DEF Picked
<1>3. ASSUME NEW i \in DOMAIN s PROVE out(i) = s[i]
  <2>1. CASE i \notin misses
    <3>1. s[i] \in c.cached
      BY <2>1
    <3> QED
      BY <2>1, <3>1
  <2>2. CASE i \in misses
    <3> DEFINE j == CHOOSE j \in DOMAIN batch : Nth(misses, j) = i
    <3> HIDE DEF batch, misses
    <3>1. j \in DOMAIN batch /\ Nth(misses, j) = i
      BY <1>2, <2>2
    <3>2. batch[j] = s[i]
      BY <1>2, <3>1
    <3> QED
      BY <2>2, <3>2
  <2> QED
    BY <2>1, <2>2
<1>4. encode_with_cache(s, cache) = [i \in DOMAIN s |-> out(i)]
  BY DEF encode_with_cache
<1> HIDE DEF out, misses, batch, cache
<1>5. [i \in DOMAIN s |-> out(i)] = [i \in DOMAIN s |-> s[i]]
  BY <1>3
<1>6. [i \in DOMAIN s |-> s[i]] = s
  <2>1. \A x \in Seq(Nat) : x = [i \in DOMAIN x |-> x[i]]
    OBVIOUS
  <2> HIDE DEF s
  <2> QED
    BY <1>1, <2>1
<1> QED
  BY <1>4, <1>5, <1>6 DEF EachItsOwn, cache

-----------------------------------------------------------------------------
(* The block of chunks *)

Blocks == INSTANCE FoldLemmas WITH Step <- AddBlock

(* The block within its bound, and full once a chunk was cut. *)
BlockHolds(budget, st) ==
    /\ st = [used |-> st.used, stop |-> st.stop, blocks |-> st.blocks]
    /\ st.used \in Nat /\ st.stop \in BOOLEAN /\ st.blocks \in Seq([whole : BOOLEAN])
    /\ st.used <= Greatest(budget + Marker - 1, Title)
    /\ \A k \in 1 .. Len(st.blocks) - 1 : st.blocks[k].whole
    /\ ~st.stop => \A k \in 1 .. Len(st.blocks) : st.blocks[k].whole \/ st.used = budget + Marker - 1

LEMMA BlockGoesOn ==
    ASSUME NEW budget \in Nat, NEW st, BlockHolds(budget, st), NEW c \in [header : Nat, text : Nat]
    PROVE  BlockHolds(budget, AddBlock(budget, st, c))
<1> DEFINE remaining == budget - st.used - (c.header + Reserve)
           text == IF c.text > remaining THEN remaining + Marker ELSE c.text
           fits == [whole |-> c.text <= remaining]
           new == AddBlock(budget, st, c)
<1>1. /\ st.used \in Nat /\ c.header \in Nat /\ c.text \in Nat /\ st.blocks \in Seq([whole : BOOLEAN])
      /\ st.stop \in BOOLEAN /\ st = [used |-> st.used, stop |-> st.stop, blocks |-> st.blocks]
  BY DEF BlockHolds
<1>2. remaining \in Int
  BY <1>1 DEF Reserve
<1>3. CASE st.stop \/ remaining <= Useful
  <2>1. new = [st EXCEPT !.stop = TRUE]
    BY <1>3 DEF AddBlock
  <2>2. new = [used |-> st.used, stop |-> TRUE, blocks |-> st.blocks]
    BY <1>1, <2>1
  <2> HIDE DEF new
  <2>3. BlockHolds(budget, new)
    BY <1>1, <2>2 DEF BlockHolds
  <2> QED
    BY <2>3 DEF new
<1>4. CASE ~(st.stop \/ remaining <= Useful)
  <2>1. new = [used |-> st.used + c.header + Fence + text, stop |-> FALSE, blocks |-> Append(st.blocks, fits)]
    BY <1>4 DEF AddBlock
  <2>2. \A k \in 1 .. Len(st.blocks) : st.blocks[k].whole
    <3>1. st.used # budget + Marker - 1
      BY <1>1, <1>4 DEF Marker, Reserve, Useful
    <3> QED
      BY <1>4, <3>1 DEF BlockHolds
  <2>3. /\ st.used + c.header + Fence + text \in Nat
        /\ st.used + c.header + Fence + text <= budget + Marker - 1
        /\ c.text <= remaining \/ st.used + c.header + Fence + text = budget + Marker - 1
    <3>1. \A u, h, x, b, r \in Int :
            u >= 0 /\ h >= 0 /\ x >= 0 /\ r = b - u - (h + 12) /\ r > 200 =>
              LET y == IF x > r THEN r + 16 ELSE x
              IN u + h + 11 + y \in Nat /\ u + h + 11 + y <= b + 16 - 1 /\ (x <= r \/ u + h + 11 + y = b + 16 - 1)
      OBVIOUS
    <3>2. st.used \in Int /\ st.used >= 0 /\ c.header \in Int /\ c.header >= 0 /\ c.text \in Int /\ c.text >= 0
      BY <1>1
    <3>3. remaining = budget - st.used - (c.header + 12) /\ remaining > 200
      BY <1>2, <1>4 DEF Reserve, Useful
    <3>4. text = IF c.text > remaining THEN remaining + 16 ELSE c.text
      BY DEF Marker
    <3> HIDE DEF text, remaining
    <3> QED
      BY <1>2, <3>1, <3>2, <3>3, <3>4 DEF Fence, Marker
  <2>4. /\ Append(st.blocks, fits) \in Seq([whole : BOOLEAN]) /\ Len(Append(st.blocks, fits)) = Len(st.blocks) + 1
        /\ \A k \in 1 .. Len(st.blocks) : Append(st.blocks, fits)[k] = st.blocks[k]
        /\ Append(st.blocks, fits)[Len(st.blocks) + 1] = fits /\ Len(st.blocks) \in Nat
    <3>1. fits \in [whole : BOOLEAN]
      OBVIOUS
    <3> HIDE DEF fits
    <3> QED
      BY <1>1, <3>1
  <2>5. \A k \in 1 .. Len(st.blocks) + 1 - 1 : Append(st.blocks, fits)[k].whole
    <3>1. \A k \in 1 .. Len(st.blocks) + 1 - 1 : k \in 1 .. Len(st.blocks)
      BY <2>4
    <3> QED
      BY <2>2, <2>4, <3>1
  <2>6. \A k \in 1 .. Len(st.blocks) + 1 :
           Append(st.blocks, fits)[k].whole \/ st.used + c.header + Fence + text = budget + Marker - 1
    <3>1. fits.whole = (c.text <= remaining)
      OBVIOUS
    <3> HIDE DEF fits, remaining, text
    <3> TAKE k \in 1 .. Len(st.blocks) + 1
    <3>2. k \in 1 .. Len(st.blocks) \/ k = Len(st.blocks) + 1
      BY <2>4
    <3> QED
      BY <2>2, <2>3, <2>4, <3>1, <3>2
  <2>7. budget + Marker - 1 <= Greatest(budget + Marker - 1, Title) /\ Greatest(budget + Marker - 1, Title) \in Int
        /\ budget + Marker - 1 \in Int
    BY DEF Greatest, Marker, Title
  <2> DEFINE used == st.used + c.header + Fence + text
             blocks == Append(st.blocks, fits)
  <2>8. used \in Nat /\ used <= Greatest(budget + Marker - 1, Title)
    <3> HIDE DEF used
    <3>1. used \in Nat /\ used <= budget + Marker - 1
      BY <2>3 DEF used
    <3> QED
      BY <2>7, <3>1
  <2> HIDE DEF used, blocks, fits, remaining, text
  <2>9. /\ blocks \in Seq([whole : BOOLEAN]) /\ Len(blocks) = Len(st.blocks) + 1
        /\ \A k \in 1 .. Len(st.blocks) + 1 - 1 : blocks[k].whole
        /\ \A k \in 1 .. Len(st.blocks) + 1 : blocks[k].whole \/ used = budget + Marker - 1
    BY <2>4, <2>5, <2>6 DEF blocks, used
  <2>10. new = [used |-> used, stop |-> FALSE, blocks |-> blocks]
    BY <2>1 DEF used, blocks
  <2> HIDE DEF new
  <2>11. BlockHolds(budget, new)
    BY <2>8, <2>9, <2>10 DEF BlockHolds
  <2> QED
    BY <2>11 DEF new
<1> QED
  BY <1>3, <1>4

(* The splice's block exceeds its budget by less than the mark. *)
LEMMA BlockIsBounded ==
    ASSUME NEW c, c.budget \in Nat, c.chunks \in Seq([header : Nat, text : Nat])
    PROVE  BlockBounded(c)
<1> DEFINE base == [used |-> Title, stop |-> FALSE, blocks |-> <<>>]
           s == c.chunks
           n == Len(s)
<1>1. _format_chunks_block(c.budget, s, Title) = Blocks!Fold(c.budget, base, s)
  BY Zenon DEF _format_chunks_block, FoldLeft, MapThenFoldSet, Max, Blocks!Fold, Blocks!Greatest
<1>2. n \in Nat
  OBVIOUS
<1>3. PICK f : Blocks!IsRun(f, c.budget, base, s) /\ Blocks!Fold(c.budget, base, s) = f[n]
  BY Blocks!FoldRun, NumbersInductive DEF Blocks!Inductive
<1>4. f[0] = base /\ \A k \in 1 .. n : f[k] = AddBlock(c.budget, f[k - 1], s[k])
  BY <1>3, Zenon DEF Blocks!IsRun
<1> DEFINE done == {k \in 0 .. n : BlockHolds(c.budget, f[k])}
<1>5. 0 \in done
  <2>1. /\ base.used = Title /\ base.stop = FALSE /\ base.blocks = <<>> /\ Len(<<>>) = 0
        /\ <<>> \in Seq([whole : BOOLEAN])
    OBVIOUS
  <2>2. Title \in Nat /\ Title <= Greatest(c.budget + Marker - 1, Title)
    BY DEF Title, Greatest, Marker
  <2>3. base = [used |-> base.used, stop |-> base.stop, blocks |-> base.blocks]
    OBVIOUS
  <2>5. \A k \in 1 .. 0 : FALSE
    OBVIOUS
  <2>6. 1 .. 0 - 1 = {}
    OBVIOUS
  <2> HIDE DEF base
  <2>4. BlockHolds(c.budget, base)
    BY <2>1, <2>2, <2>3, <2>5, <2>6 DEF BlockHolds
  <2> QED
    BY <1>2, <1>4, <2>4
<1>6. ASSUME NEW k \in 0 .. n - 1, k \in done PROVE k + 1 \in done
  <2>1. k + 1 \in 1 .. n /\ k + 1 - 1 = k /\ k + 1 \in 0 .. n
    BY <1>2
  <2>2. f[k + 1] = AddBlock(c.budget, f[k], s[k + 1])
    BY <1>4, <2>1
  <2>3. s[k + 1] \in [header : Nat, text : Nat]
    <3>1. k + 1 \in DOMAIN s
      BY <2>1
    <3> QED
      BY <3>1, EntryIsIn
  <2>4. BlockHolds(c.budget, AddBlock(c.budget, f[k], s[k + 1]))
    BY <1>6, <2>3, BlockGoesOn
  <2> QED
    BY <2>1, <2>2, <2>4
<1>7. n \in done
  <2> HIDE DEF done, n
  <2>1. \A k \in 0 .. n : k \in done
    BY <1>2, <1>5, <1>6, UpTo
  <2> QED
    BY <1>2, <2>1
<1> QED
  BY <1>1, <1>3, <1>7 DEF BlockBounded, BlockHolds

-----------------------------------------------------------------------------
(* The splice into a conversation *)

Message == [role : STRING, content : Seq(STRING \ {"b"})]

(* A content is what is left of it, with the block or without. *)
LEMMA ContentStays ==
    ASSUME NEW s \in Seq(STRING \ {"b"})
    PROVE  /\ Among(s, Range(s) \ {"b"}) = s /\ "b" \notin Range(s)
           /\ LET t == <<"b">> \o s
              IN Among(t, Range(t) \ {"b"}) = s /\ "b" \in Range(t) /\ t[1] = "b"
<1> DEFINE t == <<"b">> \o s
<1>1. \A x \in Range(s) : x \in STRING \ {"b"}
  <2>1. \A i \in DOMAIN s : s[i] \in STRING \ {"b"}
    BY EntryIsIn
  <2> QED
    BY <2>1 DEF Range
<1>2. "b" \notin Range(s) /\ Range(s) \ {"b"} = Range(s)
  BY <1>1
<1>3. Among(s, Range(s)) = s
  <2>1. s \in Seq(Range(s))
    BY SeqInto
  <2> QED
    BY <2>1, AmongAll
<1>4. s \in Seq(STRING \cup {"b"}) /\ "b" \in STRING \cup {"b"}
  <2>1. \A x \in Range(s) : x \in STRING \cup {"b"}
    BY <1>1
  <2> QED
    BY <2>1, SeqInto
<1>5. Range(t) = Range(s) \cup {"b"} /\ t[1] = "b"
  <2>1. Range(t) = Range(s) \cup {"b"}
    BY <1>4, ConsRange
  <2>2. t[1] = "b"
    BY <1>4, ConsAt
  <2> QED
    BY <2>1, <2>2
<1>6. Among(t, Range(s)) = Among(s, Range(s))
  BY <1>2, <1>4, AmongSkips
<1>7. Range(t) \ {"b"} = Range(s)
  BY <1>2, <1>5
<1> QED
  BY <1>2, <1>3, <1>5, <1>6, <1>7

LEMMA MessageIs ==
    ASSUME NEW msgs \in Seq(Message), NEW k \in DOMAIN msgs
    PROVE  /\ msgs[k] \in Message /\ msgs[k].content \in Seq(STRING \ {"b"})
           /\ msgs[k] = [role |-> msgs[k].role, content |-> msgs[k].content]
<1>1. msgs[k] \in Message
  BY EntryIsIn
<1> QED
  BY <1>1 DEF Message

(* The highest and the lowest of some numbers. *)
LEMMA HighestIs ==
    ASSUME NEW S, S \subseteq Nat, IsFiniteSet(S), S # {}
    PROVE  /\ Highest(S) \in S /\ Highest(S) \in Nat /\ \A y \in S : y <= Highest(S)
           /\ Lowest(S) \in S /\ Lowest(S) \in Nat /\ \A y \in S : Lowest(S) <= y
<1>1. \E x \in S : \A y \in S : y <= x
  BY MaxIsGreatest
<1>2. Highest(S) \in S /\ \A y \in S : y <= Highest(S)
  BY <1>1, Zenon DEF Highest
<1>3. \E x \in S : \A y \in S : x <= y
  BY LeastNat
<1>4. Lowest(S) \in S /\ \A y \in S : Lowest(S) <= y
  BY <1>3, Zenon DEF Lowest
<1> QED
  BY <1>2, <1>4

LEMMA LowestIs ==
    ASSUME NEW T, T \subseteq Nat, T # {}
    PROVE  Lowest(T) \in T /\ \A y \in T : Lowest(T) <= y
<1>1. \E x \in T : \A y \in T : x <= y
  BY LeastNat
<1> QED
  BY <1>1, Zenon DEF Lowest

(* There is a query when the user's last words are not empty. *)
LEMMA QueryIs ==
    ASSUME NEW msgs \in Seq(Message)
    PROVE  _last_user_query(msgs) # "" <=> Asks(msgs)
<1> DEFINE n == Len(msgs)
           users == {k \in DOMAIN msgs : msgs[k].role = "user" /\ TextsOf(msgs[k]) # {}}
           h == Highest(users)
           first == Lowest(TextsOf(msgs[h]))
<1>1. n \in Nat /\ DOMAIN msgs = 1 .. n /\ users \subseteq Nat /\ users \subseteq 1 .. n
  OBVIOUS
<1>2. \A k \in DOMAIN msgs : DOMAIN msgs[k].content \subseteq Nat /\ TextsOf(msgs[k]) \subseteq DOMAIN msgs[k].content
  <2> TAKE k \in DOMAIN msgs
  <2>1. msgs[k].content \in Seq(STRING \ {"b"})
    BY MessageIs
  <2> QED
    BY <2>1 DEF TextsOf
<1>3. ASSUME users = {} PROVE _last_user_query(msgs) = "" /\ ~Asks(msgs)
  <2>1. _last_user_query(msgs) = ""
    BY <1>3 DEF _last_user_query
  <2>2. ASSUME Asks(msgs) PROVE FALSE
    <3>1. PICK k \in DOMAIN msgs : msgs[k].role = "user"
                                  /\ \E j \in DOMAIN msgs[k].content : msgs[k].content[j] \notin {Image, ""}
      BY <2>2 DEF Asks
    <3>2. TextsOf(msgs[k]) # {}
      BY <3>1 DEF TextsOf
    <3> QED
      BY <1>3, <3>1, <3>2
  <2> QED
    BY <2>1, <2>2
<1>4. ASSUME users # {} PROVE _last_user_query(msgs) # "" <=> Asks(msgs)
  <2>1. IsFiniteSet(users)
    <3>1. IsFiniteSet(1 .. n)
      BY <1>1, SpanCounts, 1 \in Int
    <3> HIDE DEF users, n
    <3> QED
      BY <1>1, <3>1, FS_Subset
  <2>2. h \in users /\ \A y \in users : y <= h
    <3> HIDE DEF users
    <3> QED
      BY <1>1, <1>4, <2>1, HighestIs
  <2>3. h \in DOMAIN msgs /\ msgs[h].role = "user" /\ TextsOf(msgs[h]) # {} /\ h \in Nat
    BY <1>1, <2>2
  <2>4. first \in TextsOf(msgs[h]) /\ \A y \in TextsOf(msgs[h]) : first <= y
    <3>1. TextsOf(msgs[h]) \subseteq Nat
      BY <1>2, <2>3
    <3> QED
      BY <2>3, <3>1, LowestIs
  <2>5. _last_user_query(msgs) = msgs[h].content[first]
    BY <1>4 DEF _last_user_query
  <2> HIDE DEF first, h
  <2>6. /\ first \in DOMAIN msgs[h].content /\ first \in Nat /\ msgs[h].content[first] # Image
        /\ \A i \in 1 .. first - 1 : msgs[h].content[i] = Image
    <3>1. first \in DOMAIN msgs[h].content /\ first \in Nat /\ msgs[h].content[first] # Image
      BY <1>2, <2>3, <2>4 DEF TextsOf
    <3>2. msgs[h].content \in Seq(STRING \ {"b"})
      BY <2>3, MessageIs
    <3>3. ASSUME NEW i \in 1 .. first - 1 PROVE msgs[h].content[i] = Image
      <4>1. i \in DOMAIN msgs[h].content /\ ~(first <= i)
        BY <3>1, <3>2
      <4> QED
        BY <2>4, <4>1 DEF TextsOf
    <3> QED
      BY <3>1, <3>3
  <2>7. ASSUME NEW l \in DOMAIN msgs, l > h, msgs[l].role = "user"
        PROVE  \A i \in DOMAIN msgs[l].content : msgs[l].content[i] = Image
    <3>1. l \notin users
      <4> HIDE DEF users
      <4> QED
        BY <1>1, <2>2, <2>3, <2>7
    <3> QED
      BY <2>7, <3>1 DEF TextsOf
  <2>8. ASSUME msgs[h].content[first] # "" PROVE Asks(msgs)
    BY <2>3, <2>6, <2>7, <2>8 DEF Asks
  <2>9. ASSUME Asks(msgs) PROVE msgs[h].content[first] # ""
    <3>1. PICK k \in DOMAIN msgs :
            /\ msgs[k].role = "user"
            /\ \E j \in DOMAIN msgs[k].content :
                 /\ msgs[k].content[j] \notin {Image, ""}
                 /\ \A i \in 1 .. j - 1 : msgs[k].content[i] = Image
            /\ \A l \in DOMAIN msgs : (l > k /\ msgs[l].role = "user") =>
                 \A i \in DOMAIN msgs[l].content : msgs[l].content[i] = Image
      BY <2>9, Zenon DEF Asks
    <3>2. PICK j \in DOMAIN msgs[k].content :
            /\ msgs[k].content[j] \notin {Image, ""}
            /\ \A i \in 1 .. j - 1 : msgs[k].content[i] = Image
      BY <3>1
    <3>3. k \in users /\ j \in TextsOf(msgs[k])
      BY <3>1, <3>2 DEF TextsOf
    <3>4. k = h
      <4>1. k <= h
        <5> HIDE DEF users
        <5> QED
          BY <2>2, <3>3
      <4>2. ~(h > k)
        BY <2>3, <2>6, <3>1
      <4> QED
        BY <1>1, <2>3, <4>1, <4>2
    <3>5. first <= j /\ j \in Nat
      BY <1>2, <2>4, <3>2, <3>3, <3>4
    <3>6. ~(first \in 1 .. j - 1)
      BY <2>6, <3>2, <3>4
    <3>7. first \in 1 .. first
      <4>1. msgs[h].content \in Seq(STRING \ {"b"})
        BY <2>3, MessageIs
      <4> QED
        BY <2>6, <4>1
    <3>8. j = first
      BY <2>6, <3>5, <3>6, <3>7
    <3> QED
      BY <3>2, <3>4, <3>8
  <2> QED
    BY <2>5, <2>8, <2>9
<1> QED
  BY <1>3, <1>4

(* What ConversationKept says of the messages that are sent. *)
Keeps(msgs, out, on) ==
    LET old(x) == Among(x.content, Range(x.content) \ {"b"})
        bare == [k \in DOMAIN out |-> [role |-> out[k].role, content |-> old(out[k])]]
        sent == [k \in DOMAIN msgs |-> [role |-> msgs[k].role, content |-> msgs[k].content]]
        spliced == {k \in DOMAIN out : "b" \in Range(out[k].content)}
    IN /\ bare = sent \/ (bare = <<[role |-> "system", content |-> <<>>]>> \o sent /\ spliced = {1})
       /\ Cardinality(spliced) <= 1
       /\ \A k \in spliced : out[k].role = "system" /\ out[k].content[1] = "b"
       /\ (spliced # {}) <=> on

LEMMA LeftAlone ==
    ASSUME NEW msgs \in Seq(Message)
    PROVE  Keeps(msgs, msgs, FALSE)
<1>1. \A k \in DOMAIN msgs : "b" \notin Range(msgs[k].content)
                             /\ Among(msgs[k].content, Range(msgs[k].content) \ {"b"}) = msgs[k].content
  BY MessageIs, ContentStays
<1>2. {k \in DOMAIN msgs : "b" \in Range(msgs[k].content)} = {}
  BY <1>1
<1>3. Cardinality({}) <= 1
  BY FS_EmptySet
<1> DEFINE old(x) == Among(x.content, Range(x.content) \ {"b"})
<1>4. [k \in DOMAIN msgs |-> [role |-> msgs[k].role, content |-> old(msgs[k])]]
        = [k \in DOMAIN msgs |-> [role |-> msgs[k].role, content |-> msgs[k].content]]
  BY <1>1
<1> QED
  BY <1>2, <1>3, <1>4, Zenon DEF Keeps

LEMMA SplicedBefore ==
    ASSUME NEW msgs \in Seq(Message)
    PROVE  Keeps(msgs, <<[role |-> "system", content |-> <<"b">>]>> \o msgs, TRUE)
<1> DEFINE m == [role |-> "system", content |-> <<"b">>]
           out == <<m>> \o msgs
           n == Len(msgs)
           old(x) == Among(x.content, Range(x.content) \ {"b"})
           bare == [k \in DOMAIN out |-> [role |-> out[k].role, content |-> old(out[k])]]
           sent == [k \in DOMAIN msgs |-> [role |-> msgs[k].role, content |-> msgs[k].content]]
           spliced == {k \in DOMAIN out : "b" \in Range(out[k].content)}
           b0 == [role |-> "system", content |-> <<>>]
           lone == <<b0>> \o sent
<1>1. n \in Nat /\ DOMAIN msgs = 1 .. n
  OBVIOUS
<1>2. /\ DOMAIN out = 1 .. n + 1 /\ out[1] = m /\ \A k \in 2 .. n + 1 : out[k] = msgs[k - 1]
  <2> DEFINE P == Message \cup {m}
  <2>1. msgs \in Seq(P)
    <3>1. \A x \in Range(msgs) : x \in P
      <4>1. \A i \in DOMAIN msgs : msgs[i] \in Message
        BY EntryIsIn
      <4> QED
        BY <4>1 DEF Range
    <3> HIDE DEF P
    <3> QED
      BY <3>1, SeqInto
  <2>2. m \in P
    OBVIOUS
  <2> HIDE DEF P, m
  <2> QED
    BY <1>1, <2>1, <2>2, ConsAt
<1>3. /\ sent \in Seq(Range(sent)) /\ Len(sent) = n
      /\ DOMAIN lone = 1 .. n + 1 /\ lone[1] = b0 /\ \A k \in 2 .. n + 1 : lone[k] = sent[k - 1]
  <2> DEFINE P == Range(sent) \cup {b0}
  <2>1. sent \in Seq(P) /\ Len(sent) = n /\ b0 \in P /\ sent \in Seq(Range(sent))
    BY <1>1 DEF Range
  <2> HIDE DEF P, sent, b0
  <2> QED
    BY <1>1, <2>1, ConsAt
<1>4. m.content = <<"b">> /\ m.role = "system" /\ old(m) = <<>> /\ "b" \in Range(m.content) /\ m.content[1] = "b"
  <2>1. <<>> \in Seq(STRING \ {"b"}) /\ <<"b">> \o <<>> = <<"b">>
    OBVIOUS
  <2>2. LET t == <<"b">> \o <<>>
        IN Among(t, Range(t) \ {"b"}) = <<>> /\ "b" \in Range(t) /\ t[1] = "b"
    BY <2>1, ContentStays
  <2>3. Among(<<"b">>, Range(<<"b">>) \ {"b"}) = <<>> /\ "b" \in Range(<<"b">>) /\ <<"b">>[1] = "b"
    BY <2>1, <2>2
  <2> QED
    BY <2>3
<1>5. \A k \in 1 .. n : "b" \notin Range(msgs[k].content) /\ old(msgs[k]) = msgs[k].content
  BY <1>1, MessageIs, ContentStays
<1>6. spliced = {1}
  <2>1. 1 \in spliced
    BY <1>1, <1>2, <1>4
  <2>2. \A k \in spliced : k = 1
    <3> TAKE k \in spliced
    <3>1. k = 1 \/ (k \in 2 .. n + 1 /\ k - 1 \in 1 .. n)
      BY <1>1, <1>2
    <3> HIDE DEF m
    <3> QED
      BY <1>2, <1>5, <3>1
  <2> QED
    BY <2>1, <2>2
<1>7. bare = lone
  <2>1. bare[1] = b0
    <3>1. 1 \in DOMAIN out
      BY <1>1, <1>2
    <3>2. bare[1] = [role |-> out[1].role, content |-> old(out[1])]
      BY <3>1
    <3> HIDE DEF bare, out, old, m
    <3> QED
      BY <1>2, <1>4, <3>2
  <2>2. ASSUME NEW k \in 2 .. n + 1 PROVE bare[k] = sent[k - 1]
    <3>1. k \in DOMAIN out /\ k - 1 \in 1 .. n /\ out[k] = msgs[k - 1]
      BY <1>1, <1>2, <2>2
    <3>2. old(msgs[k - 1]) = msgs[k - 1].content
      BY <1>5, <3>1
    <3>3. sent[k - 1] = [role |-> msgs[k - 1].role, content |-> msgs[k - 1].content]
      BY <1>1, <3>1
    <3>4. bare[k] = [role |-> out[k].role, content |-> old(out[k])]
      BY <3>1
    <3> HIDE DEF bare, out, sent, old
    <3> QED
      BY <3>1, <3>2, <3>3, <3>4
  <2>3. bare = [k \in 1 .. n + 1 |-> bare[k]] /\ lone = [k \in 1 .. n + 1 |-> lone[k]]
    <3>1. bare = [k \in 1 .. n + 1 |-> bare[k]]
      BY <1>2
    <3>2. lone = [k \in 1 .. n + 1 |-> lone[k]]
      <4>1. lone \in Seq(Range(sent) \cup {b0})
        <5>1. sent \in Seq(Range(sent) \cup {b0}) /\ b0 \in Range(sent) \cup {b0}
          BY <1>1 DEF Range
        <5> HIDE DEF sent, b0
        <5> QED
          BY <5>1, ConsAt
      <4> HIDE DEF lone
      <4> QED
        BY <1>3, <4>1
    <3> QED
      BY <3>1, <3>2
  <2> HIDE DEF bare, lone, sent, out
  <2>4. \A k \in 1 .. n + 1 : bare[k] = lone[k]
    <3> TAKE k \in 1 .. n + 1
    <3>1. k = 1 \/ k \in 2 .. n + 1
      BY <1>1
    <3> QED
      BY <1>3, <2>1, <2>2, <3>1
  <2> QED
    BY <2>3, <2>4
<1>8. Cardinality({1}) <= 1
  <2>1. Cardinality({1}) = 1
    BY FS_Singleton
  <2> QED
    BY <2>1
<1>9. \A k \in spliced : out[k].role = "system" /\ out[k].content[1] = "b"
  BY <1>2, <1>4, <1>6
<1> HIDE DEF out, m
<1>11. spliced # {} /\ bare = <<[role |-> "system", content |-> <<>>]>> \o sent
  BY <1>6, <1>7
<1>12. /\ bare = sent \/ (bare = <<[role |-> "system", content |-> <<>>]>> \o sent /\ spliced = {1})
       /\ Cardinality(spliced) <= 1
       /\ \A k \in spliced : out[k].role = "system" /\ out[k].content[1] = "b"
       /\ (spliced # {}) <=> TRUE
  <2> HIDE DEF bare, spliced, sent
  <2> QED
    BY <1>6, <1>8, <1>9, <1>11
<1>10. Keeps(msgs, out, TRUE)
  BY <1>12, Zenon DEF Keeps
<1> QED
  BY <1>10 DEF out, m

LEMMA SplicedInto ==
    ASSUME NEW msgs \in Seq(Message), NEW i \in DOMAIN msgs, msgs[i].role = "system"
    PROVE  Keeps(msgs, [msgs EXCEPT ![i].content = <<"b">> \o @], TRUE)
<1> DEFINE out == [msgs EXCEPT ![i].content = <<"b">> \o @]
           old(x) == Among(x.content, Range(x.content) \ {"b"})
           bare == [k \in DOMAIN out |-> [role |-> out[k].role, content |-> old(out[k])]]
           sent == [k \in DOMAIN msgs |-> [role |-> msgs[k].role, content |-> msgs[k].content]]
           spliced == {k \in DOMAIN out : "b" \in Range(out[k].content)}
<1>1. DOMAIN out = DOMAIN msgs /\ \A k \in DOMAIN msgs : k # i => out[k] = msgs[k]
  OBVIOUS
<1>2. out[i].role = "system" /\ out[i].content = <<"b">> \o msgs[i].content
  <2>1. msgs[i] = [role |-> msgs[i].role, content |-> msgs[i].content]
    BY MessageIs
  <2>2. out[i] = [msgs[i] EXCEPT !.content = <<"b">> \o @]
    OBVIOUS
  <2> HIDE DEF out
  <2> QED
    BY <2>1, <2>2
<1>3. \A k \in DOMAIN msgs : "b" \notin Range(msgs[k].content) /\ old(msgs[k]) = msgs[k].content
  BY MessageIs, ContentStays
<1>4. old(out[i]) = msgs[i].content /\ "b" \in Range(out[i].content) /\ out[i].content[1] = "b"
  <2>1. msgs[i].content \in Seq(STRING \ {"b"})
    BY MessageIs
  <2>2. LET t == <<"b">> \o msgs[i].content
        IN Among(t, Range(t) \ {"b"}) = msgs[i].content /\ "b" \in Range(t) /\ t[1] = "b"
    BY <2>1, ContentStays
  <2> HIDE DEF out
  <2> QED
    BY <1>2, <2>2
<1> HIDE DEF out
<1>5. spliced = {i}
  BY <1>1, <1>3, <1>4
<1>6. \A k \in DOMAIN msgs : out[k].role = msgs[k].role /\ old(out[k]) = msgs[k].content
  BY <1>1, <1>2, <1>3, <1>4
<1>7. bare = sent
  <2> HIDE DEF old
  <2> QED
    BY <1>1, <1>6
<1>8. Cardinality({i}) <= 1
  <2>1. Cardinality({i}) = 1
    BY FS_Singleton
  <2> QED
    BY <2>1
<1>9. \A k \in spliced : out[k].role = "system" /\ out[k].content[1] = "b"
  BY <1>2, <1>4, <1>5
<1>12. /\ bare = sent \/ (bare = <<[role |-> "system", content |-> <<>>]>> \o sent /\ spliced = {1})
       /\ Cardinality(spliced) <= 1
       /\ \A k \in spliced : out[k].role = "system" /\ out[k].content[1] = "b"
       /\ (spliced # {}) <=> TRUE
  <2> HIDE DEF bare, spliced, sent
  <2> QED
    BY <1>5, <1>7, <1>8, <1>9
<1>10. Keeps(msgs, out, TRUE)
  BY <1>12, Zenon DEF Keeps
<1> QED
  BY <1>10 DEF out

(* Messages reach the backend in order and whole, with one block or none. *)
LEMMA ConversationIsKept ==
    ASSUME NEW c, c.messages \in Seq(Message), c.scope \in BOOLEAN, c.chunks \in {<<>>, <<"b">>}
    PROVE  ConversationKept(c)
<1> DEFINE msgs == c.messages
           on == c.scope /\ c.index = "ready" /\ c.chunks # <<>> /\ Asks(msgs)
           out == proxy_chat_completions(msgs, c.scope, c.index, c.chunks)
<1>1. _last_user_query(msgs) # "" <=> Asks(msgs)
  BY QueryIs
<1>2. ASSUME ~on PROVE out = msgs
  BY <1>1, <1>2 DEF proxy_chat_completions, _retrieve_for_messages
<1>3. ASSUME on PROVE Keeps(msgs, out, TRUE)
  <2>1. c.chunks = <<"b">>
    BY <1>3
  <2>2. out = _splice_into_messages(msgs, <<"b">>)
    BY <1>1, <1>3, <2>1 DEF proxy_chat_completions, _retrieve_for_messages
  <2> DEFINE system == {i \in DOMAIN msgs : msgs[i].role = "system"}
  <2>3. CASE system = {}
    <3>1. out = <<[role |-> "system", content |-> <<"b">>]>> \o msgs
      BY <2>2, <2>3 DEF _splice_into_messages
    <3> QED
      BY <3>1, SplicedBefore
  <2>4. CASE system # {}
    <3>1. out = [msgs EXCEPT ![Lowest(system)].content = <<"b">> \o @]
      BY <2>2, <2>4 DEF _splice_into_messages
    <3>2. Lowest(system) \in system
      <4>1. system \subseteq Nat
        OBVIOUS
      <4>2. \E x \in system : \A y \in system : x <= y
        BY <2>4, <4>1, LeastNat
      <4> QED
        BY <4>2 DEF Lowest
    <3>3. Lowest(system) \in DOMAIN msgs /\ msgs[Lowest(system)].role = "system"
      BY <3>2
    <3> HIDE DEF system
    <3> QED
      BY <3>1, <3>3, SplicedInto
  <2> QED
    BY <2>3, <2>4
<1>4. Keeps(msgs, out, on)
  <2>1. CASE on
    <3> HIDE DEF out
    <3>1. on <=> TRUE
      BY <2>1
    <3>2. Keeps(msgs, out, TRUE)
      BY <1>3, <2>1
    <3> HIDE DEF on
    <3> QED
      BY <3>1, <3>2 DEF Keeps
  <2>2. CASE ~on
    <3>1. Keeps(msgs, out, FALSE)
      BY <1>2, <2>2, LeftAlone
    <3> HIDE DEF out, on
    <3> QED
      BY <2>2, <3>1 DEF Keeps
  <2> QED
    BY <2>1, <2>2
<1> QED
  BY <1>4, Zenon DEF ConversationKept, Keeps

-----------------------------------------------------------------------------
(* Sorting by scores *)

LEMMA ByScoreIs ==
    ASSUME NEW n \in Nat, NEW score \in [1 .. n -> Int]
    PROVE  LET s == ByScore(score)
           IN /\ s \in Seq(1 .. n) /\ Len(s) = n /\ Range(s) = 1 .. n
              /\ \A i, j \in 1 .. n : i < j => s[i] # s[j] /\ score[s[i]] >= score[s[j]]
<1> DEFINE R == {e \in Pairs(DOMAIN score) : score[e[1]] > score[e[2]]}
           s == Argsort(n, R)
<1>1. DOMAIN score = 1 .. n /\ Len(score) = n
  OBVIOUS
<1>2. ByScore(score) = s
  BY <1>1 DEF ByScore
<1>3. \A x, y \in 1 .. n : <<x, y>> \in R <=> score[x] > score[y]
  BY <1>1 DEF Pairs
<1>4. \A x \in 1 .. n : score[x] \in Int
  OBVIOUS
<1> HIDE DEF R
<1>5. RanksWeakly(n, R)
  BY <1>3, <1>4 DEF RanksWeakly
<1>6. /\ s \in Seq(1 .. n) /\ Len(s) = n /\ Range(s) = 1 .. n
      /\ \A i, j \in 1 .. n : i < j => s[i] # s[j] /\ <<s[j], s[i]>> \notin R
  BY <1>5, ArgsortIs
<1> HIDE DEF s
<1>7. ASSUME NEW i \in 1 .. n, NEW j \in 1 .. n, i < j PROVE score[s[i]] >= score[s[j]]
  <2> DEFINE x == s[i]
             y == s[j]
  <2>1. x \in 1 .. n /\ y \in 1 .. n
    BY <1>6
  <2>2. <<y, x>> \notin R
    BY <1>6, <1>7
  <2> HIDE DEF x, y
  <2>3. ~(score[y] > score[x]) /\ score[x] \in Int /\ score[y] \in Int
    BY <1>3, <1>4, <2>1, <2>2
  <2>4. score[x] >= score[y]
    BY <2>3
  <2> QED
    BY <2>4 DEF x, y
<1> QED
  BY <1>2, <1>6, <1>7

(* A position's rank. *)
LEMMA RankIs ==
    ASSUME NEW n \in Nat, NEW s \in Seq(1 .. n), NEW i \in Range(s)
    PROVE  RankIn(s, i) \in DOMAIN s /\ s[RankIn(s, i)] = i /\ RankIn(s, i) \in Nat \ {0}
<1>1. \E r \in DOMAIN s : s[r] = i
  BY DEF Range
<1>2. RankIn(s, i) \in DOMAIN s /\ s[RankIn(s, i)] = i
  BY <1>1, Zenon DEF RankIn
<1>3. DOMAIN s \subseteq Nat \ {0}
  OBVIOUS
<1> QED
  BY <1>2, <1>3

(* s[:n] *)
LEMMA TakeIs ==
    ASSUME NEW T, NEW s \in Seq(T), NEW n \in Nat
    PROVE  /\ Take(s, n) \in Seq(T) /\ Len(Take(s, n)) = Least(n, Len(s)) /\ Len(Take(s, n)) <= Len(s)
           /\ DOMAIN Take(s, n) = 1 .. Least(n, Len(s))
           /\ \A k \in DOMAIN Take(s, n) : k \in DOMAIN s /\ Take(s, n)[k] = s[k]
           /\ Range(Take(s, n)) \subseteq Range(s)
<1> DEFINE m == IF Len(s) < n THEN Len(s) ELSE n
<1>1. m \in 0 .. Len(s) /\ m = Least(n, Len(s)) /\ Len(s) \in Nat
  BY DEF Least
<1>2. Take(s, n) = SubSeq(s, 1, m)
  BY DEF Take
<1> HIDE DEF m
<1>3. SubSeq(s, 1, m) \in Seq(T) /\ Len(SubSeq(s, 1, m)) = m /\ \A k \in 1 .. m : SubSeq(s, 1, m)[k] = s[k]
  BY <1>1
<1>4. \A k \in 1 .. m : k \in DOMAIN s
  BY <1>1
<1> QED
  BY <1>1, <1>2, <1>3, <1>4 DEF Range

-----------------------------------------------------------------------------
(* RetrievePipeline *)

LEMMA AskedIs ==
    ASSUME NEW q, IsQuery(q)
    PROVE  /\ DOMAIN Asked(q) \subseteq DOMAIN q.bm25 /\ DOMAIN Asked(q) # {} /\ IsFiniteSet(DOMAIN Asked(q))
           /\ \A p \in DOMAIN Asked(q) : Asked(q)[p] \in [1 .. q.chunks -> Nat]
<1>1. /\ q.cos \in Seq(ScoresOf(q.chunks)) /\ q.bm25 \in Seq(ScoresOf(q.chunks))
      /\ Len(q.cos) > 0 /\ Len(q.bm25) = Len(q.cos)
  BY DEF IsQuery
<1>2. DOMAIN q.cos = 1 .. Len(q.cos) /\ DOMAIN q.bm25 = 1 .. Len(q.cos) /\ Len(q.cos) \in Nat /\ 1 \in 1 .. Len(q.cos)
  BY <1>1
<1>3. \A p \in DOMAIN q.cos : q.cos[p] \in [1 .. q.chunks -> Nat]
  BY <1>1, EntryIsIn DEF ScoresOf
<1>4. IsFiniteSet(1 .. Len(q.cos)) /\ IsFiniteSet(1 .. 1)
  <2>1. Len(q.cos) \in Int /\ 1 \in Int
    BY <1>2
  <2> QED
    BY <2>1, SpanCounts
<1>5. CASE Asked(q) = q.cos
  BY <1>2, <1>3, <1>4, <1>5
<1>6. CASE Asked(q) = <<q.cos[1]>>
  <2>1. DOMAIN <<q.cos[1]>> = 1 .. 1 /\ <<q.cos[1]>>[1] = q.cos[1]
    OBVIOUS
  <2>2. 1 .. 1 = {1}
    OBVIOUS
  <2> QED
    BY <1>2, <1>3, <1>4, <1>6, <2>1, <2>2
<1> QED
  BY <1>5, <1>6 DEF Asked

LEMMA MaxSimsAre ==
    ASSUME NEW q, IsQuery(q)
    PROVE  /\ q.chunks \in Nat /\ MaxSims(q) \in [1 .. q.chunks -> Nat]
           /\ \A i \in 1 .. q.chunks :
                LET S == {Asked(q)[p][i] : p \in DOMAIN Asked(q)}
                IN S \subseteq Nat /\ IsFiniteSet(S) /\ S # {} /\ MaxSims(q)[i] = Highest(S)
<1>1. q.chunks \in Nat
  BY DEF IsQuery
<1>2. ASSUME NEW i \in 1 .. q.chunks
      PROVE  LET S == {Asked(q)[p][i] : p \in DOMAIN Asked(q)}
             IN S \subseteq Nat /\ IsFiniteSet(S) /\ S # {} /\ Highest(S) \in Nat
  <2> DEFINE D == DOMAIN Asked(q)
             f == [p \in D |-> Asked(q)[p][i]]
             S == {Asked(q)[p][i] : p \in D}
  <2>1. S = {f[p] : p \in D} /\ DOMAIN f = D
    OBVIOUS
  <2>5. D # {} /\ IsFiniteSet(D) /\ \A p \in D : Asked(q)[p] \in [1 .. q.chunks -> Nat]
    BY AskedIs
  <2>6. \A p \in D : Asked(q)[p][i] \in Nat
    <3> HIDE DEF D
    <3> QED
      BY <1>2, <2>5
  <2>2. S \subseteq Nat /\ S # {} /\ IsFiniteSet(D)
    <3> HIDE DEF D
    <3> QED
      BY <2>5, <2>6
  <2> HIDE DEF f, D
  <2>3. IsFiniteSet({f[p] : p \in D})
    BY <2>1, <2>2, FiniteImage
  <2> HIDE DEF S
  <2>4. Highest(S) \in Nat
    BY <2>1, <2>2, <2>3, HighestIs
  <2> QED
    BY <2>1, <2>2, <2>3, <2>4 DEF S, D
<1> DEFINE h(i) == Highest({Asked(q)[p][i] : p \in DOMAIN Asked(q)})
<1>3. MaxSims(q) = [i \in 1 .. q.chunks |-> h(i)]
  BY DEF MaxSims
<1>4. \A i \in 1 .. q.chunks : h(i) \in Nat
  BY <1>2
<1>5. MaxSims(q) \in [1 .. q.chunks -> Nat] /\ \A i \in 1 .. q.chunks : MaxSims(q)[i] = h(i)
  <2> HIDE DEF h
  <2> QED
    BY <1>3, <1>4
<1> QED
  BY <1>1, <1>2, <1>5

(* The fused ranks order the chunks. *)
LEMMA RanksAre ==
    ASSUME NEW q, IsQuery(q), NEW i \in 1 .. q.chunks
    PROVE  RanksOf(q, i).cos \in Nat \ {0} /\ RanksOf(q, i).bm25 \in Nat \ {0}
<1> DEFINE n == q.chunks
           s == ByScore(MaxSims(q))
           D == DOMAIN Asked(q)
           r(p) == RankIn(ByScore(q.bm25[p]), i)
           f == [p \in D |-> r(p)]
<1>1. n \in Nat /\ MaxSims(q) \in [1 .. n -> Nat]
  BY MaxSimsAre
<1>2. RankIn(s, i) \in Nat \ {0}
  <2>1. MaxSims(q) \in [1 .. n -> Int]
    BY <1>1
  <2>2. s \in Seq(1 .. n) /\ Range(s) = 1 .. n
    BY <1>1, <2>1, ByScoreIs
  <2> HIDE DEF s
  <2> QED
    BY <1>1, <2>2, RankIs
<1>3. ASSUME NEW p \in D PROVE r(p) \in Nat \ {0}
  <2>1. q.bm25[p] \in [1 .. n -> Int]
    <3>1. p \in DOMAIN q.bm25 /\ q.bm25 \in Seq(ScoresOf(n))
      BY AskedIs DEF IsQuery
    <3>2. q.bm25[p] \in ScoresOf(n)
      BY <3>1, EntryIsIn
    <3> QED
      BY <3>2 DEF ScoresOf
  <2> DEFINE t == ByScore(q.bm25[p])
  <2>2. t \in Seq(1 .. n) /\ Range(t) = 1 .. n
    BY <1>1, <2>1, ByScoreIs
  <2> HIDE DEF t
  <2>3. RankIn(t, i) \in Nat \ {0}
    BY <1>1, <2>2, RankIs
  <2> QED
    BY <2>3 DEF t
<1>4. Bm25BestRank(q, i) \in Nat \ {0}
  <2> DEFINE S == {r(p) : p \in D}
  <2>1. Bm25BestRank(q, i) = Lowest(S)
    BY DEF Bm25BestRank
  <2>2. S = {f[p] : p \in D} /\ DOMAIN f = D
    OBVIOUS
  <2>3. S \subseteq Nat \ {0} /\ S # {} /\ IsFiniteSet(D)
    BY <1>3, AskedIs
  <2> HIDE DEF f, D, r
  <2>4. IsFiniteSet({f[p] : p \in D})
    BY <2>2, <2>3, FiniteImage
  <2> HIDE DEF S
  <2>5. Lowest(S) \in S
    BY <2>2, <2>3, <2>4, HighestIs
  <2> QED
    BY <2>1, <2>3, <2>5
<1>5. RanksOf(q, i) = [cos |-> RankK + RankIn(s, i), bm25 |-> RankK + Bm25BestRank(q, i)]
  BY DEF RanksOf
<1> HIDE DEF s
<1>6. RankK + RankIn(s, i) \in Nat \ {0} /\ RankK + Bm25BestRank(q, i) \in Nat \ {0}
  BY <1>2, <1>4, RankKAssumption
<1> QED
  BY <1>5, <1>6

LEMMA FusionIs ==
    ASSUME NEW n \in Nat, NEW ranks \in Seq([cos : Nat \ {0}, bm25 : Nat \ {0}]), Len(ranks) = n
    PROVE  ByFusion(ranks) \in Seq(1 .. n) /\ Len(ByFusion(ranks)) = n /\ Range(ByFusion(ranks)) = 1 .. n
<1> DEFINE R == {e \in Pairs(DOMAIN ranks) : FusedAbove(ranks[e[1]], ranks[e[2]])}
           sum(x) == ranks[x].cos + ranks[x].bm25
           prod(x) == ranks[x].cos * ranks[x].bm25
<1>1. DOMAIN ranks = 1 .. n
  OBVIOUS
<1>2. \A x \in 1 .. n : ranks[x].cos \in Nat \ {0} /\ ranks[x].bm25 \in Nat \ {0}
  <2>1. \A x \in DOMAIN ranks : ranks[x] \in [cos : Nat \ {0}, bm25 : Nat \ {0}]
    BY EntryIsIn
  <2> QED
    BY <1>1, <2>1
<1>3. \A x, y \in 1 .. n : <<x, y>> \in R <=> FusedAbove(ranks[x], ranks[y])
  BY <1>1 DEF Pairs
<1>4. \A x \in 1 .. n : sum(x) \in Nat /\ prod(x) \in Nat \ {0}
  <2> TAKE x \in 1 .. n
  <2>1. sum(x) \in Nat
    BY <1>2
  <2>2. prod(x) \in Nat \ {0}
    BY <1>2, Positive
  <2> QED
    BY <2>1, <2>2
<1>5. ASSUME NEW x \in 1 .. n, NEW y \in 1 .. n
      PROVE  FusedAbove(ranks[x], ranks[y]) <=> ~(sum(x) * prod(y) <= sum(y) * prod(x))
  <2>1. (sum(x) * ranks[y].cos) * ranks[y].bm25 = sum(x) * prod(y)
        /\ (sum(y) * ranks[x].cos) * ranks[x].bm25 = sum(y) * prod(x)
    <3>1. /\ sum(x) \in Nat /\ sum(y) \in Nat /\ ranks[x].cos \in Nat /\ ranks[x].bm25 \in Nat
          /\ ranks[y].cos \in Nat /\ ranks[y].bm25 \in Nat
      BY <1>2, <1>4
    <3> HIDE DEF sum
    <3>2. (sum(x) * ranks[y].cos) * ranks[y].bm25 = sum(x) * (ranks[y].cos * ranks[y].bm25)
      BY <3>1, Regroup
    <3>3. (sum(y) * ranks[x].cos) * ranks[x].bm25 = sum(y) * (ranks[x].cos * ranks[x].bm25)
      BY <3>1, Regroup
    <3> QED
      BY <3>2, <3>3
  <2>2. sum(x) * prod(y) \in Nat /\ sum(y) * prod(x) \in Nat
    <3>1. sum(x) \in Nat /\ sum(y) \in Nat /\ prod(x) \in Nat /\ prod(y) \in Nat
      BY <1>4
    <3> HIDE DEF sum, prod
    <3> QED
      BY <3>1, ProductsAre
  <2>3. FusedAbove(ranks[x], ranks[y]) <=>
          (sum(x) * ranks[y].cos) * ranks[y].bm25 > (sum(y) * ranks[x].cos) * ranks[x].bm25
    BY DEF FusedAbove
  <2>4. FusedAbove(ranks[x], ranks[y]) <=> sum(x) * prod(y) > sum(y) * prod(x)
    <3> HIDE DEF sum, prod
    <3> QED
      BY <2>1, <2>3
  <2> DEFINE u == sum(x) * prod(y)
             v == sum(y) * prod(x)
  <2>5. u \in Nat /\ v \in Nat /\ (FusedAbove(ranks[x], ranks[y]) <=> u > v)
    BY <2>2, <2>4
  <2> HIDE DEF u, v
  <2>6. FusedAbove(ranks[x], ranks[y]) <=> ~(u <= v)
    BY <2>5
  <2> QED
    BY <2>6 DEF u, v
<1> HIDE DEF R
<1>6. RanksWeakly(n, R)
  <2>1. ASSUME NEW x \in 1 .. n, NEW y \in 1 .. n, <<x, y>> \in R PROVE <<y, x>> \notin R
    <3> DEFINE u == sum(x) * prod(y)
               v == sum(y) * prod(x)
    <3>1. ~(u <= v)
      BY <1>3, <1>5, <2>1
    <3>2. u \in Nat /\ v \in Nat
      <4>1. sum(x) \in Nat /\ sum(y) \in Nat /\ prod(x) \in Nat /\ prod(y) \in Nat
        BY <1>4
      <4> HIDE DEF sum, prod
      <4> QED
        BY <4>1, ProductsAre
    <3>3. FusedAbove(ranks[y], ranks[x]) <=> ~(v <= u)
      BY <1>5
    <3> HIDE DEF u, v
    <3>4. v <= u
      BY <3>1, <3>2
    <3> QED
      BY <1>3, <3>3, <3>4
  <2>2. ASSUME NEW x \in 1 .. n, NEW y \in 1 .. n, NEW z \in 1 .. n, <<x, y>> \notin R, <<y, z>> \notin R
        PROVE  <<x, z>> \notin R
    <3>1. sum(x) * prod(y) <= sum(y) * prod(x) /\ sum(y) * prod(z) <= sum(z) * prod(y)
      BY <1>3, <1>5, <2>2
    <3>2. /\ sum(x) \in Nat /\ sum(y) \in Nat /\ sum(z) \in Nat
          /\ prod(x) \in Nat /\ prod(y) \in Nat \ {0} /\ prod(z) \in Nat
      BY <1>4
    <3>3. sum(x) * prod(z) <= sum(z) * prod(x)
      <4> HIDE DEF sum, prod
      <4> QED
        BY <3>1, <3>2, Fractions
    <3> QED
      BY <1>3, <1>5, <3>3
  <2> QED
    BY <2>1, <2>2 DEF RanksWeakly
<1>7. ByFusion(ranks) = Argsort(n, R)
  BY DEF ByFusion, R
<1> QED
  BY <1>6, <1>7, ArgsortIs

LEMMA PrefilteredIs ==
    ASSUME NEW q, IsQuery(q)
    PROVE  Prefiltered(q) \in Seq(1 .. q.chunks)
<1> DEFINE n == q.chunks
           ranks == [i \in 1 .. n |-> RanksOf(q, i)]
           s == ByScore(MaxSims(q))
<1>1. n \in Nat /\ q.prefilter \in Nat
  BY DEF IsQuery
<1>2. s \in Seq(1 .. n)
  <2>1. MaxSims(q) \in [1 .. n -> Int]
    BY MaxSimsAre
  <2> QED
    BY <1>1, <2>1, ByScoreIs
<1>3. ByFusion(ranks) \in Seq(1 .. n)
  <2>1. \A i \in 1 .. n : RanksOf(q, i) \in [cos : Nat \ {0}, bm25 : Nat \ {0}]
    <3> TAKE i \in 1 .. n
    <3>1. RanksOf(q, i).cos \in Nat \ {0} /\ RanksOf(q, i).bm25 \in Nat \ {0}
      BY RanksAre
    <3>2. RanksOf(q, i) = [cos |-> RanksOf(q, i).cos, bm25 |-> RanksOf(q, i).bm25]
      BY DEF RanksOf
    <3> QED
      BY <3>1, <3>2
  <2>2. ranks \in [1 .. n -> [cos : Nat \ {0}, bm25 : Nat \ {0}]]
    BY <2>1
  <2>3. ranks \in Seq([cos : Nat \ {0}, bm25 : Nat \ {0}]) /\ Len(ranks) = n
    <3> DEFINE T == [cos : Nat \ {0}, bm25 : Nat \ {0}]
    <3>1. ranks \in [1 .. n -> T]
      BY <2>2
    <3> HIDE DEF T, ranks, n
    <3>2. ranks \in Seq(T) /\ Len(ranks) = n
      BY <1>1, <3>1
    <3> QED
      BY <3>2 DEF T
  <2> HIDE DEF ranks
  <2> QED
    BY <1>1, <2>3, FusionIs
<1> HIDE DEF s
<1>4. Take(s, q.prefilter) \in Seq(1 .. n) /\ Take(ByFusion(ranks), q.prefilter) \in Seq(1 .. n)
  <2>1. \A t \in Seq(1 .. n) : Take(t, q.prefilter) \in Seq(1 .. n)
    BY <1>1, TakeIs
  <2> QED
    BY <1>2, <1>3, <2>1
<1> QED
  BY <1>4 DEF Prefiltered, s

(* The candidates with the defining chunks added. *)
LEMMA PromotedIs ==
    ASSUME NEW q, IsQuery(q)
    PROVE  /\ Promoted(q) \in Seq(1 .. q.chunks)
           /\ \A i \in 1 .. q.chunks : q.defines[i] => i \in Range(Promoted(q))
<1> DEFINE n == q.chunks
           pre == Prefiltered(q)
           I == {i \in 1 .. n : q.defines[i] /\ i \notin Range(pre)}
           all == [i \in 1 .. n |-> i]
           more == Picked(all, I)
<1>1. n \in Nat /\ pre \in Seq(1 .. n)
  BY PrefilteredIs DEF IsQuery
<1>2. all \in Seq(1 .. n) /\ DOMAIN all = 1 .. n /\ I \in SUBSET (DOMAIN all)
  BY <1>1
<1>3. Promoted(q) = pre \o more
  BY DEF Promoted, WithDefining
<1>4. /\ more \in Seq(1 .. n) /\ DOMAIN more = 1 .. Cardinality(I)
      /\ \A k \in 1 .. Cardinality(I) : Nth(I, k) \in I /\ more[k] = all[Nth(I, k)]
      /\ \A i \in I : \E k \in 1 .. Cardinality(I) : Nth(I, k) = i
  <2> DEFINE T == 1 .. n
  <2>1. all \in Seq(T) /\ I \in SUBSET (DOMAIN all)
    BY <1>2
  <2> HIDE DEF all, I, T
  <2>2. /\ Picked(all, I) \in Seq(T) /\ DOMAIN Picked(all, I) = 1 .. Cardinality(I)
        /\ \A k \in 1 .. Cardinality(I) : Nth(I, k) \in I /\ Picked(all, I)[k] = all[Nth(I, k)]
        /\ \A i \in I : \E k \in 1 .. Cardinality(I) : Nth(I, k) = i
    BY <2>1, PickedIs
  <2> QED
    BY <2>2 DEF T
<1>5. I \subseteq Range(more)
  <2> SUFFICES ASSUME NEW i \in I PROVE i \in Range(more)
    OBVIOUS
  <2>1. PICK k \in 1 .. Cardinality(I) : Nth(I, k) = i
    BY <1>4
  <2>2. more[k] = all[i] /\ all[i] = i
    BY <1>2, <1>4, <2>1
  <2> HIDE DEF more, all, I
  <2> QED
    BY <1>4, <2>2 DEF Range
<1> HIDE DEF more, pre
<1>6. pre \o more \in Seq(1 .. n)
  BY <1>1, <1>4
<1>7. Range(pre \o more) = Range(pre) \cup Range(more)
  BY <1>1, <1>4, RangeOfBoth
<1> QED
  BY <1>3, <1>5, <1>6, <1>7

LEMMA WeightIs ==
    ASSUME NEW q, NEW i
    PROVE  file_type_weight(q, i) \in Nat
BY DEF file_type_weight

(* The file-type prior: what weighs more comes first. *)
LEMMA AugmentedIs ==
    ASSUME NEW q, IsQuery(q), q.augment
    PROVE  LET t == Augmented(q)
           IN /\ t \in Seq(1 .. q.chunks)
              /\ \A k \in DOMAIN t, i \in Range(Promoted(q)) :
                   file_type_weight(q, i) > file_type_weight(q, t[k]) => \E j \in DOMAIN t : j < k /\ t[j] = i
<1> DEFINE s == Promoted(q)
           w(x) == file_type_weight(q, s[x])
           S == DOMAIN s
           R == {e \in Pairs(S) : \/ file_type_weight(q, s[e[1]]) > file_type_weight(q, s[e[2]])
                                  \/ file_type_weight(q, s[e[1]]) = file_type_weight(q, s[e[2]]) /\ e[1] < e[2]}
           order == Sorted(S, R)
           t == [k \in DOMAIN order |-> s[order[k]]]
<1>1. s \in Seq(1 .. q.chunks)
  BY PromotedIs
<1> HIDE DEF s
<1>2. S \subseteq Nat /\ IsFiniteSet(S) /\ \A x \in S : s[x] \in 1 .. q.chunks
  <2>1. S = 1 .. Len(s) /\ Len(s) \in Nat
    BY <1>1
  <2>2. IsFiniteSet(1 .. Len(s))
    <3>1. 1 \in Int /\ Len(s) \in Int
      BY <2>1
    <3> QED
      BY <3>1, SpanCounts
  <2>3. \A x \in S : s[x] \in 1 .. q.chunks
    BY <1>1, EntryIsIn
  <2>4. S \subseteq Nat
    BY <2>1
  <2> QED
    BY <2>1, <2>2, <2>3, <2>4
<1>3. Augmented(q) = t
  BY DEF Augmented, StableSort, s
<1>4. \A x, y \in S : <<x, y>> \in R <=> w(x) > w(y) \/ (w(x) = w(y) /\ x < y)
  BY DEF Pairs
<1>5. \A x \in S : w(x) \in Nat
  BY WeightIs
<1> HIDE DEF S, R, w
<1>6. Orders(R, S)
  <2>1. \A x, y \in S : <<x, y>> \in R => <<y, x>> \notin R
    BY <1>2, <1>4, <1>5
  <2>2. \A x, y \in S : x = y \/ <<x, y>> \in R \/ <<y, x>> \in R
    <3> TAKE x, y \in S
    <3>1. w(x) \in Nat /\ w(y) \in Nat /\ x \in Nat /\ y \in Nat
      BY <1>2, <1>5
    <3> QED
      BY <1>4, <3>1
  <2>3. \A x, y, z \in S : <<x, y>> \in R /\ <<y, z>> \in R => <<x, z>> \in R
    <3> TAKE x, y, z \in S
    <3>1. w(x) \in Nat /\ w(y) \in Nat /\ w(z) \in Nat /\ x \in Nat /\ y \in Nat /\ z \in Nat
      BY <1>2, <1>5
    <3> QED
      BY <1>4, <3>1
  <2> QED
    BY <2>1, <2>2, <2>3 DEF Orders
<1>7. /\ order \in Seq(S) /\ \A x \in S : \E i \in DOMAIN order : order[i] = x
      /\ \A i, j \in DOMAIN order : i < j <=> <<order[i], order[j]>> \in R
  BY <1>2, <1>6, SortedIs
<1> HIDE DEF order
<1>8. t \in Seq(1 .. q.chunks) /\ DOMAIN t = DOMAIN order /\ \A k \in DOMAIN order : t[k] = s[order[k]] /\ order[k] \in S
  <2>1. DOMAIN order = 1 .. Len(order) /\ Len(order) \in Nat /\ \A k \in DOMAIN order : order[k] \in S
    BY <1>7
  <2>2. t \in [1 .. Len(order) -> 1 .. q.chunks]
    BY <1>2, <2>1
  <2>3. t \in Seq(1 .. q.chunks)
    <3> DEFINE T == 1 .. q.chunks
               m == Len(order)
    <3>1. t \in [1 .. m -> T] /\ m \in Nat
      BY <2>1, <2>2
    <3> HIDE DEF t, T, m
    <3>2. t \in Seq(T)
      BY <3>1
    <3> QED
      BY <3>2 DEF T
  <2> QED
    BY <2>1, <2>3
<1>9. ASSUME NEW k \in DOMAIN t, NEW i \in Range(s), file_type_weight(q, i) > file_type_weight(q, t[k])
      PROVE  \E j \in DOMAIN t : j < k /\ t[j] = i
  <2>1. PICK a \in S : s[a] = i
    BY DEF Range, S
  <2>2. PICK j \in DOMAIN order : order[j] = a
    BY <1>7
  <2>3. w(a) > w(order[k])
    BY <1>8, <1>9, <2>1 DEF w
  <2>4. <<order[j], order[k]>> \in R
    BY <1>4, <1>8, <1>9, <2>2, <2>3
  <2>5. j < k
    BY <1>7, <1>8, <2>4
  <2> QED
    BY <1>8, <2>1, <2>2, <2>5
<1> HIDE DEF t
<1> QED
  BY <1>3, <1>8, <1>9 DEF s

(* A query that names code gets the definition before any document. *)
LEMMA DefinitionsComeFirst ==
    ASSUME NEW q, IsQuery(q)
    PROVE  DefinitionsFirst(q)
<1> SUFFICES ASSUME q.augment, q.code_signal, ~q.rerank PROVE DefiningBeforeDocs(q, retrieve(q))
  BY DEF DefinitionsFirst
<1> DEFINE r == retrieve(q)
           t == Augmented(q)
<1> SUFFICES ASSUME NEW k \in DOMAIN r, q.type[r[k]] = "doc",
                    NEW i \in 1 .. q.chunks, q.defines[i], q.type[i] = "py"
             PROVE  i \in Range(SubSeq(r, 1, k - 1))
  BY Zenon DEF DefiningBeforeDocs
<1>1. q.chunks # 0 /\ r = Take(t, q.top_k) /\ q.top_k \in Nat
  <2>1. q.chunks # 0
    BY DEF retrieve, IsQuery
  <2> QED
    BY <2>1 DEF retrieve, Reordered, IsQuery
<1>2. t \in Seq(1 .. q.chunks)
  BY AugmentedIs
<1> HIDE DEF t
<1>3. /\ r \in Seq(1 .. q.chunks) /\ \A m \in DOMAIN r : m \in DOMAIN t /\ r[m] = t[m]
      /\ DOMAIN r = 1 .. Least(q.top_k, Len(t))
  BY <1>1, <1>2, TakeIs
<1> HIDE DEF r
<1>4. file_type_weight(q, i) = 15 /\ file_type_weight(q, t[k]) = 6
  <2>1. q.type[t[k]] = "doc"
    BY <1>3
  <2> QED
    BY <2>1 DEF file_type_weight
<1>5. PICK j \in DOMAIN t : j < k /\ t[j] = i
  <2>1. i \in Range(Promoted(q)) /\ k \in DOMAIN t
    BY <1>3, PromotedIs
  <2>2. file_type_weight(q, i) > file_type_weight(q, t[k])
    BY <1>4
  <2>3. \A m \in DOMAIN t, x \in Range(Promoted(q)) :
           file_type_weight(q, x) > file_type_weight(q, t[m]) => \E j \in DOMAIN t : j < m /\ t[j] = x
    BY AugmentedIs DEF t
  <2> QED
    BY <2>1, <2>2, <2>3
<1>6. k \in 1 .. Len(r) /\ Len(r) \in Nat /\ j \in 1 .. k - 1 /\ j \in DOMAIN r /\ r[j] = i
  <2>1. k \in 1 .. Len(r) /\ Len(r) \in Nat /\ DOMAIN r = 1 .. Len(r)
    <3>1. \A T : \A x \in Seq(T) : DOMAIN x = 1 .. Len(x) /\ Len(x) \in Nat
      OBVIOUS
    <3>2. DOMAIN r = 1 .. Len(r) /\ Len(r) \in Nat /\ k \in DOMAIN r
      BY <1>3, <3>1
    <3> QED
      BY <3>2
  <2>2. j \in Nat \ {0} /\ j < k
    BY <1>2, <1>5
  <2>3. j \in 1 .. k - 1 /\ j \in DOMAIN r
    BY <2>1, <2>2
  <2> QED
    BY <1>3, <1>5, <2>1, <2>3
<1>7. SubSeq(r, 1, k - 1)[j] = r[j] /\ j \in DOMAIN SubSeq(r, 1, k - 1)
  BY <1>3, <1>6
<1> QED
  BY <1>6, <1>7 DEF Range

(* An entry of retrieve_multi's list: M has the scores of each scope. *)
EntryOf(M, s, i) == [scope |-> s, chunk |-> i, score |-> M[s][i]]
EntriesOf(M, s, C) == {EntryOf(M, s, i) : i \in C}

LEMMA EntriesCount ==
    ASSUME NEW M, NEW s, NEW C, IsFiniteSet(C)
    PROVE  IsFiniteSet(EntriesOf(M, s, C)) /\ Cardinality(EntriesOf(M, s, C)) = Cardinality(C)
<1> DEFINE f == [i \in C |-> EntryOf(M, s, i)]
<1>1. \A i, j \in C : f[i] = f[j] => i = j
  BY DEF EntryOf
<1>2. f \in Surjection(C, EntriesOf(M, s, C)) /\ f \in Injection(C, EntriesOf(M, s, C))
  <2>1. f \in [C -> EntriesOf(M, s, C)] /\ \A x \in EntriesOf(M, s, C) : \E i \in C : f[i] = x
    BY DEF EntriesOf
  <2> HIDE DEF f
  <2> QED
    BY <1>1, <2>1 DEF Surjection, Injection, IsInjective
<1> QED
  BY <1>2, FS_Surjection

LEMMA BothCount ==
    ASSUME NEW M, NEW C, NEW D, IsFiniteSet(C), IsFiniteSet(D)
    PROVE  LET E == EntriesOf(M, 1, C) \cup EntriesOf(M, 2, D)
           IN IsFiniteSet(E) /\ Cardinality(E) = Cardinality(C) + Cardinality(D)
<1> DEFINE E == EntriesOf(M, 1, C)
           F == EntriesOf(M, 2, D)
<1>1. IsFiniteSet(E) /\ Cardinality(E) = Cardinality(C) /\ IsFiniteSet(F) /\ Cardinality(F) = Cardinality(D)
  BY EntriesCount
<1>2. E \cap F = {}
  BY DEF EntriesOf, EntryOf
<1> HIDE DEF E, F
<1>3. IsFiniteSet(E \cup F) /\ Cardinality(E \cup F) = Cardinality(E) + Cardinality(F) - Cardinality({})
  BY <1>1, <1>2, FS_Union
<1>4. Cardinality({}) = 0 /\ Cardinality(C) \in Nat /\ Cardinality(D) \in Nat
  BY FS_EmptySet, FS_CardinalityType
<1> QED
  BY <1>1, <1>3, <1>4 DEF E, F

(* The best k of each of two scopes' n chunks by score, listed once each. *)
BestLists(M, r, n, k) ==
    /\ M[1] \in [1 .. n -> Nat] /\ M[2] \in [1 .. n -> Nat]
    /\ \A s \in 1 .. 2 :
         /\ r[s] \in Seq(1 .. n) /\ Len(r[s]) = Least(k, n)
         /\ \A i, j \in DOMAIN r[s] : r[s][i] = r[s][j] => i = j
         /\ \A x \in Range(r[s]), i \in (1 .. n) \ Range(r[s]) : M[s][x] >= M[s][i]

Listed(M, r) == EntriesOf(M, 1, Range(r[1])) \cup EntriesOf(M, 2, Range(r[2]))

(* Their order: by score, then as listed, scope by scope. *)
Ahead(r, a, b) ==
    \/ a.score > b.score
    \/ a.score = b.score /\ (\/ a.scope < b.scope
                             \/ a.scope = b.scope /\ RankIn(r[a.scope], a.chunk) < RankIn(r[b.scope], b.chunk))

LEMMA ListedAre ==
    ASSUME NEW n \in Nat, NEW k \in Nat, NEW M, NEW r, BestLists(M, r, n, k)
    PROVE  /\ IsFiniteSet(Listed(M, r)) /\ Cardinality(Listed(M, r)) = 2 * Least(k, n)
           /\ \A e \in Listed(M, r) : /\ e.scope \in 1 .. 2 /\ e.chunk \in Range(r[e.scope])
                                      /\ e = EntryOf(M, e.scope, e.chunk) /\ e.score \in Nat
                                      /\ e.chunk \in 1 .. n
<1>1. /\ IsFiniteSet(Range(r[1])) /\ Cardinality(Range(r[1])) = Least(k, n)
      /\ IsFiniteSet(Range(r[2])) /\ Cardinality(Range(r[2])) = Least(k, n)
  <2>1. 1 \in 1 .. 2 /\ 2 \in 1 .. 2
    OBVIOUS
  <2>2. \A s \in 1 .. 2 : IsFiniteSet(Range(r[s])) /\ Cardinality(Range(r[s])) = Least(k, n)
    <3> TAKE s \in 1 .. 2
    <3>1. r[s] \in Seq(1 .. n) /\ Len(r[s]) = Least(k, n) /\ \A i, j \in DOMAIN r[s] : r[s][i] = r[s][j] => i = j
      BY DEF BestLists
    <3> QED
      BY <3>1, CountOnce
  <2> QED
    BY <2>1, <2>2
<1>2. Least(k, n) \in Nat
  BY DEF Least
<1>3. IsFiniteSet(Listed(M, r)) /\ Cardinality(Listed(M, r)) = 2 * Least(k, n)
  <2>1. Least(k, n) + Least(k, n) = 2 * Least(k, n)
    BY <1>2
  <2> QED
    BY <1>1, <2>1, BothCount DEF Listed
<1>4. ASSUME NEW s \in 1 .. 2, NEW i \in Range(r[s])
      PROVE  LET e == EntryOf(M, s, i) IN e.scope = s /\ e.chunk = i /\ e.score \in Nat /\ i \in 1 .. n
  <2>1. i \in 1 .. n
    <3>1. r[s] \in Seq(1 .. n)
      BY DEF BestLists
    <3> QED
      BY <3>1, EntryIsIn DEF Range
  <2>2. M[s][i] \in Nat
    <3>1. s = 1 \/ s = 2
      OBVIOUS
    <3> QED
      BY <2>1, <3>1 DEF BestLists
  <2> QED
    BY <2>1, <2>2 DEF EntryOf
<1>5. ASSUME NEW e \in Listed(M, r) PROVE \E s \in 1 .. 2 : \E i \in Range(r[s]) : e = EntryOf(M, s, i)
  <2>1. 1 \in 1 .. 2 /\ 2 \in 1 .. 2
    OBVIOUS
  <2>2. CASE e \in EntriesOf(M, 1, Range(r[1]))
    BY <2>1, <2>2 DEF EntriesOf
  <2>3. CASE e \in EntriesOf(M, 2, Range(r[2]))
    BY <2>1, <2>3 DEF EntriesOf
  <2> QED
    BY <2>2, <2>3 DEF Listed
<1>6. ASSUME NEW e \in Listed(M, r)
      PROVE  /\ e.scope \in 1 .. 2 /\ e.chunk \in Range(r[e.scope])
             /\ e = EntryOf(M, e.scope, e.chunk) /\ e.score \in Nat /\ e.chunk \in 1 .. n
  <2>1. PICK s \in 1 .. 2 : \E i \in Range(r[s]) : e = EntryOf(M, s, i)
    BY <1>5
  <2>2. PICK i \in Range(r[s]) : e = EntryOf(M, s, i)
    BY <2>1
  <2>3. e.scope = s /\ e.chunk = i /\ e.score \in Nat /\ i \in 1 .. n
    BY <1>4, <2>2
  <2> QED
    BY <2>2, <2>3
<1> QED
  BY <1>3, <1>6

LEMMA AheadOrders ==
    ASSUME NEW n \in Nat, NEW k \in Nat, NEW M, NEW r, BestLists(M, r, n, k), NEW R,
           \A x, y \in Listed(M, r) : <<x, y>> \in R <=> Ahead(r, x, y)
    PROVE  Orders(R, Listed(M, r))
<1> DEFINE S == Listed(M, r)
           a == [x \in S |-> x.score]
           b == [x \in S |-> x.scope]
           c == [x \in S |-> RankIn(r[x.scope], x.chunk)]
<1>1. ASSUME NEW x \in S
      PROVE  /\ x.scope \in Nat /\ x.score \in Nat /\ RankIn(r[x.scope], x.chunk) \in Nat
             /\ r[x.scope][RankIn(r[x.scope], x.chunk)] = x.chunk
  <2>1. x.scope \in 1 .. 2 /\ x.chunk \in Range(r[x.scope]) /\ x.score \in Nat
    BY ListedAre
  <2>2. r[x.scope] \in Seq(1 .. n)
    BY <2>1 DEF BestLists
  <2> QED
    BY <2>1, <2>2, RankIs
<1>2. ASSUME NEW x \in S, NEW y \in S, a[x] = a[y], b[x] = b[y], c[x] = c[y] PROVE x = y
  <2>1. x.scope = y.scope /\ RankIn(r[x.scope], x.chunk) = RankIn(r[y.scope], y.chunk)
    BY <1>2
  <2>2. x.chunk = y.chunk
    BY <1>1, <2>1
  <2>3. x = EntryOf(M, x.scope, x.chunk) /\ y = EntryOf(M, y.scope, y.chunk)
    BY ListedAre
  <2> HIDE DEF S, a, b, c
  <2> QED
    BY <2>1, <2>2, <2>3
<1>3. \A x \in S : a[x] \in Nat /\ b[x] \in Nat /\ c[x] \in Nat
  BY <1>1
<1>4. \A x, y \in S : <<x, y>> \in R <=>
        a[x] > a[y] \/ (a[x] = a[y] /\ (b[x] < b[y] \/ (b[x] = b[y] /\ c[x] < c[y])))
  BY DEF Ahead
<1> HIDE DEF S, a, b, c
<1>5. RanksBy(R, S, a, b, c)
  <2>1. \A x, y \in S : a[x] = a[y] /\ b[x] = b[y] /\ c[x] = c[y] => x = y
    BY <1>2
  <2> QED
    BY <1>3, <1>4, <2>1 DEF RanksBy
<1> QED
  BY <1>5, Lexicographic DEF S

(* The first k of both lists together are the best k of all 2n chunks. *)
LEMMA BestOfBoth ==
    ASSUME NEW n \in Nat, NEW k \in Nat, NEW M, NEW r, BestLists(M, r, n, k), NEW R,
           \A x, y \in Listed(M, r) : <<x, y>> \in R <=> Ahead(r, x, y)
    PROVE  BestOf(Take(Sorted(Listed(M, r), R), k), EntriesOf(M, 1, 1 .. n) \cup EntriesOf(M, 2, 1 .. n), k)
<1> DEFINE S == Listed(M, r)
           t == Sorted(S, R)
           got == Take(t, k)
           all == EntriesOf(M, 1, 1 .. n) \cup EntriesOf(M, 2, 1 .. n)
           m == Least(k, n)
<1>1. /\ IsFiniteSet(S) /\ Cardinality(S) = 2 * m
      /\ \A e \in S : /\ e.scope \in 1 .. 2 /\ e.chunk \in Range(r[e.scope])
                     /\ e = EntryOf(M, e.scope, e.chunk) /\ e.score \in Nat /\ e.chunk \in 1 .. n
  BY ListedAre
<1>2. /\ t \in Seq(S) /\ Len(t) = 2 * m
      /\ \A x \in S : \E i \in DOMAIN t : t[i] = x
      /\ \A i, j \in DOMAIN t : i < j <=> <<t[i], t[j]>> \in R
      /\ \A i, j \in DOMAIN t : t[i] = t[j] => i = j
  <2>1. Orders(R, S)
    BY AheadOrders
  <2> HIDE DEF S
  <2> QED
    BY <1>1, <2>1, SortedIs
<1>3. m \in Nat /\ m <= k /\ m <= n /\ (m = k \/ m = n) /\ Least(k, 2 * m) = Least(k, 2 * n)
  BY DEF Least
<1>4. IsFiniteSet(all) /\ Cardinality(all) = 2 * n
  <2>1. IsFiniteSet(1 .. n) /\ Cardinality(1 .. n) = n
    BY SpanCounts
  <2>2. n + n = 2 * n
    OBVIOUS
  <2>3. IsFiniteSet(all) /\ Cardinality(all) = Cardinality(1 .. n) + Cardinality(1 .. n)
    BY <2>1, BothCount
  <2> QED
    BY <2>1, <2>2, <2>3
<1>5. S \subseteq all
  <2> SUFFICES ASSUME NEW e \in S PROVE e \in all
    OBVIOUS
  <2>1. e.scope \in 1 .. 2 /\ e.chunk \in 1 .. n /\ e = EntryOf(M, e.scope, e.chunk)
    BY <1>1
  <2>2. e.scope = 1 \/ e.scope = 2
    BY <2>1
  <2> HIDE DEF S
  <2> QED
    BY <2>1, <2>2 DEF EntriesOf
<1> HIDE DEF t, S, m
<1>6. /\ got \in Seq(S) /\ Len(got) = Least(k, 2 * n) /\ DOMAIN got = 1 .. Least(k, 2 * n)
      /\ \A i \in DOMAIN got : i \in DOMAIN t /\ got[i] = t[i]
  BY <1>2, <1>3, TakeIs
<1> HIDE DEF got
<1>7. Range(got) \subseteq all /\ Cardinality(Range(got)) = Len(got)
  <2>1. \A i, j \in DOMAIN got : got[i] = got[j] => i = j
    BY <1>2, <1>6
  <2>2. Cardinality(Range(got)) = Len(got)
    BY <1>6, <2>1, CountOnce
  <2>3. \A i \in DOMAIN got : got[i] \in S
    BY <1>6, EntryIsIn
  <2> QED
    BY <1>5, <2>2, <2>3 DEF Range
<1>8. DOMAIN t = 1 .. 2 * m /\ \A i \in DOMAIN t : t[i] \in S
  <2>1. DOMAIN t = 1 .. Len(t)
    BY <1>2
  <2> QED
    BY <1>2, <2>1, EntryIsIn
<1>9. ASSUME NEW a \in DOMAIN got, NEW b \in DOMAIN t, a <= b PROVE t[a].score >= t[b].score
  <2>1. a \in DOMAIN t /\ t[a] \in S /\ t[b] \in S /\ a \in Nat /\ b \in Nat
    BY <1>3, <1>6, <1>8
  <2>2. t[a].score \in Nat /\ t[b].score \in Nat
    BY <1>1, <2>1
  <2>3. CASE a = b
    BY <2>2, <2>3
  <2>4. CASE a # b
    <3>1. <<t[a], t[b]>> \in R
      BY <1>2, <1>9, <2>1, <2>4
    <3>2. Ahead(r, t[a], t[b])
      BY <2>1, <3>1 DEF S
    <3> QED
      BY <2>2, <3>2 DEF Ahead
  <2> QED
    BY <2>3, <2>4
<1>10. ASSUME NEW p \in Range(got), NEW x \in all \ Range(got) PROVE p.score >= x.score
  <2>1. PICK a \in DOMAIN got : got[a] = p
    BY DEF Range
  <2>2. a \in DOMAIN t /\ t[a] = p /\ a \in 1 .. Least(k, 2 * n)
    BY <1>6, <2>1
  <2>3. CASE x \in S
    <3>1. PICK b \in DOMAIN t : t[b] = x
      BY <1>2, <2>3
    <3>2. b \notin DOMAIN got
      BY <1>6, <3>1 DEF Range
    <3>3. a <= b
      BY <1>3, <1>6, <1>8, <2>2, <3>1, <3>2 DEF Least
    <3> QED
      BY <1>9, <2>2, <3>1, <3>3
  <2>4. CASE x \notin S
    <3>1. PICK s \in 1 .. 2 : \E i \in 1 .. n : x = EntryOf(M, s, i)
      <4>1. 1 \in 1 .. 2 /\ 2 \in 1 .. 2
        OBVIOUS
      <4> QED
        BY <4>1 DEF EntriesOf
    <3>2. PICK i \in 1 .. n : x = EntryOf(M, s, i)
      BY <3>1
    <3> DEFINE C == Range(r[s])
               Mine == {EntryOf(M, s, y) : y \in C}
    <3>3. Mine \subseteq S
      <4>1. s = 1 \/ s = 2
        OBVIOUS
      <4> QED
        BY <4>1 DEF S, Listed, EntriesOf
    <3>4. i \notin C
      BY <2>4, <3>2, <3>3
    <3>5. C \subseteq 1 .. n /\ IsFiniteSet(C) /\ Cardinality(C) = m /\ \A y \in C : M[s][y] >= M[s][i]
      <4>1. /\ r[s] \in Seq(1 .. n) /\ Len(r[s]) = m
            /\ \A u, v \in DOMAIN r[s] : r[s][u] = r[s][v] => u = v
            /\ \A u \in Range(r[s]), v \in (1 .. n) \ Range(r[s]) : M[s][u] >= M[s][v]
        BY DEF BestLists, m
      <4>2. C \subseteq 1 .. n
        BY <4>1, EntryIsIn DEF Range
      <4>3. IsFiniteSet(C) /\ Cardinality(C) = m
        BY <4>1, CountOnce
      <4> QED
        BY <3>4, <4>1, <4>2, <4>3
    <3>6. m = k /\ k < n
      <4>1. IsFiniteSet(1 .. n) /\ Cardinality(1 .. n) = n
        BY SpanCounts
      <4>2. C # 1 .. n
        BY <3>4
      <4>3. Cardinality(1 .. n) # Cardinality(C)
        BY <3>5, <4>1, <4>2, FS_Subset
      <4> QED
        BY <1>3, <3>5, <4>1, <4>3
    <3> DEFINE f == [y \in C |-> CHOOSE j \in DOMAIN t : t[j] = EntryOf(M, s, y)]
    <3>7. \A y \in C : f[y] \in DOMAIN t /\ t[f[y]] = EntryOf(M, s, y)
      <4> TAKE y \in C
      <4>1. EntryOf(M, s, y) \in S
        BY <3>3
      <4>2. \E j \in DOMAIN t : t[j] = EntryOf(M, s, y)
        BY <1>2, <4>1
      <4> QED
        BY <4>2
    <3>8. PICK y \in C : a <= f[y]
      <4> SUFFICES ASSUME \A y \in C : ~(a <= f[y]) PROVE FALSE
        OBVIOUS
      <4>1. a \in Nat /\ a <= k /\ 1 <= a
        BY <1>3, <2>2 DEF Least
      <4>2. \A y \in C : f[y] \in 1 .. a - 1
        <5> TAKE y \in C
        <5>1. f[y] \in 1 .. 2 * m /\ ~(a <= f[y])
          BY <1>8, <3>7
        <5> HIDE DEF f, C
        <5> QED
          BY <1>3, <4>1, <5>1
      <4>3. IsFiniteSet(1 .. a - 1) /\ Cardinality(1 .. a - 1) < Cardinality(C)
        <5>1. a - 1 \in Int /\ 1 <= (a - 1) + 1 /\ (a - 1) - 1 + 1 = a - 1 /\ a - 1 < k
          BY <4>1
        <5> QED
          BY <3>5, <3>6, <5>1, SpanCounts
      <4>4. f \in [C -> 1 .. a - 1]
        BY <4>2
      <4> HIDE DEF f, C
      <4>5. PICK u, v \in C : u # v /\ f[u] = f[v]
        BY <3>5, <4>3, <4>4, FS_PigeonHole
      <4>6. EntryOf(M, s, u) = EntryOf(M, s, v)
        BY <3>7, <4>5
      <4> QED
        BY <4>5, <4>6 DEF EntryOf
    <3>9. p.score >= M[s][y] /\ M[s][y] >= M[s][i]
      <4>1. f[y] \in DOMAIN t /\ t[f[y]] = EntryOf(M, s, y)
        BY <3>7
      <4> HIDE DEF f, C
      <4>2. t[a].score >= t[f[y]].score
        BY <1>9, <3>8, <4>1
      <4> QED
        BY <2>2, <3>5, <4>1, <4>2 DEF EntryOf
    <3>10. p.score \in Nat /\ M[s][y] \in Nat /\ M[s][i] \in Nat
      <4>1. p.score \in Nat
        BY <1>1, <1>8, <2>2
      <4>2. s = 1 \/ s = 2
        OBVIOUS
      <4>3. y \in 1 .. n
        BY <3>5, <3>8
      <4> HIDE DEF C
      <4> QED
        BY <4>1, <4>2, <4>3 DEF BestLists
    <3>11. x.score = M[s][i]
      BY <3>2 DEF EntryOf
    <3> QED
      BY <3>9, <3>10, <3>11
  <2> QED
    BY <2>3, <2>4
<1> QED
  BY <1>4, <1>6, <1>7, <1>10 DEF BestOf, got, t, S

(* s lists 1 .. n once each, by a falling score. *)
Falls(s, n, score) ==
    /\ s \in Seq(1 .. n) /\ Len(s) = n /\ Range(s) = 1 .. n
    /\ \A i, j \in 1 .. n : i < j => s[i] # s[j] /\ score[s[i]] >= score[s[j]]

(* The first k of such a list are the best k. *)
LEMMA TopOf ==
    ASSUME NEW n \in Nat, NEW k \in Nat, NEW score, NEW s, Falls(s, n, score)
    PROVE  LET r == Take(s, k)
           IN /\ r \in Seq(1 .. n) /\ Len(r) = Least(k, n) /\ DOMAIN r = 1 .. Least(k, n)
              /\ \A i, j \in DOMAIN r : r[i] = r[j] => i = j
              /\ \A x \in Range(r), i \in (1 .. n) \ Range(r) : score[x] >= score[i]
<1> USE DEF Falls
<1> DEFINE r == Take(s, k)
<1>1. /\ r \in Seq(1 .. n) /\ Len(r) = Least(k, n) /\ DOMAIN r = 1 .. Least(k, n)
      /\ \A i \in DOMAIN r : r[i] = s[i]
  BY TakeIs
<1> HIDE DEF r
<1>2. Least(k, n) \in Nat /\ Least(k, n) <= n
  BY DEF Least
<1>3. \A i \in DOMAIN r : i \in 1 .. n /\ r[i] = s[i]
  BY <1>1, <1>2
<1>4. ASSUME NEW i \in DOMAIN r, NEW j \in DOMAIN r, r[i] = r[j] PROVE i = j
  <2>1. i \in 1 .. n /\ j \in 1 .. n /\ s[i] = s[j]
    BY <1>3, <1>4
  <2>2. i < j \/ j < i \/ i = j
    BY <2>1
  <2> QED
    BY <2>1, <2>2
<1>5. ASSUME NEW x \in Range(r), NEW i \in (1 .. n) \ Range(r) PROVE score[x] >= score[i]
  <2>1. PICK a \in DOMAIN r : r[a] = x
    BY DEF Range
  <2>2. PICK b \in DOMAIN s : s[b] = i
    BY DEF Range
  <2>3. b \in 1 .. n /\ a \in 1 .. n /\ s[a] = x
    <3>1. DOMAIN s = 1 .. n
      OBVIOUS
    <3> QED
      BY <1>3, <2>1, <2>2, <3>1
  <2>4. b \notin DOMAIN r
    BY <1>3, <2>2 DEF Range
  <2>5. a < b
    BY <1>1, <1>2, <2>1, <2>3, <2>4
  <2> QED
    BY <2>2, <2>3, <2>5
<1> QED
  BY <1>1, <1>4, <1>5 DEF r

(* When nothing but the cosine ranks, retrieve has the best chunks, once each. *)
LEMMA CosineRanks ==
    ASSUME NEW p, IsQuery(p), ~p.coarse, ~p.augment, ~p.rerank, p.prefilter = p.chunks
    PROVE  LET r == retrieve(p)
               n == p.chunks
           IN /\ MaxSims(p) \in [1 .. n -> Nat]
              /\ r \in Seq(1 .. n) /\ Len(r) = Least(p.top_k, n)
              /\ \A i, j \in DOMAIN r : r[i] = r[j] => i = j
              /\ \A x \in Range(r), i \in (1 .. n) \ Range(r) : MaxSims(p)[x] >= MaxSims(p)[i]
<1> DEFINE r == retrieve(p)
           n == p.chunks
           k == p.top_k
           m == MaxSims(p)
           s == ByScore(m)
           t == Take(s, n)
<1>1. n \in Nat /\ k \in Nat /\ p.prefilter = n
  BY DEF IsQuery
<1>2. m \in [1 .. n -> Nat]
  BY MaxSimsAre
<1>3. /\ s \in Seq(1 .. n) /\ Len(s) = n /\ Range(s) = 1 .. n
      /\ \A i, j \in 1 .. n : i < j => s[i] # s[j] /\ m[s[i]] >= m[s[j]]
  <2> HIDE DEF m
  <2>1. m \in [1 .. n -> Int]
    BY <1>2
  <2> QED
    BY <1>1, <2>1, ByScoreIs
<1>4. CASE n = 0
  <2>1. r = <<>>
    BY <1>4 DEF retrieve
  <2>2. Least(k, n) = 0 /\ 1 .. n = {}
    BY <1>1, <1>4 DEF Least
  <2>3. <<>> \in Seq(1 .. n) /\ Len(<<>>) = 0 /\ DOMAIN <<>> = {} /\ Range(<<>>) = {}
    BY DEF Range
  <2> QED
    BY <1>2, <2>1, <2>2, <2>3
<1>5. CASE n # 0
  <2>1. r = Take(t, k)
    BY <1>1, <1>5 DEF retrieve, Reordered, Augmented, Prefiltered
  <2> HIDE DEF s, m, n, k
  <2>2. /\ t \in Seq(1 .. n) /\ Len(t) = n /\ DOMAIN t = 1 .. n /\ \A i \in 1 .. n : t[i] = s[i]
    <3>1. Least(n, n) = n
      BY DEF Least
    <3> QED
      BY <1>1, <1>3, <3>1, TakeIs
  <2>3. Range(t) = 1 .. n
    <3>1. DOMAIN s = 1 .. n
      BY <1>3
    <3> QED
      BY <1>3, <2>2, <3>1 DEF Range
  <2> HIDE DEF t, r
  <2>4. \A i, j \in 1 .. n : i < j => t[i] # t[j] /\ m[t[i]] >= m[t[j]]
    <3> TAKE i, j \in 1 .. n
    <3>1. t[i] = s[i] /\ t[j] = s[j]
      BY <2>2
    <3> QED
      BY <1>3, <3>1
  <2> DEFINE u == Take(t, k)
  <2>5. /\ u \in Seq(1 .. n) /\ Len(u) = Least(k, n)
        /\ \A i, j \in DOMAIN u : u[i] = u[j] => i = j
        /\ \A x \in Range(u), i \in (1 .. n) \ Range(u) : m[x] >= m[i]
    <3>1. Falls(t, n, m)
      BY <2>2, <2>3, <2>4 DEF Falls
    <3> QED
      BY <1>1, <3>1, TopOf
  <2> HIDE DEF u
  <2> QED
    BY <1>2, <2>1, <2>5 DEF r, n, k, m, u
<1> QED
  BY <1>4, <1>5

PlainOf(q) == [q EXCEPT !.coarse = FALSE, !.augment = FALSE, !.rerank = FALSE, !.prefilter = q.chunks]

QueryWith(q, coarse, augment, rerank, prefilter) ==
    [chunks |-> q.chunks, cos |-> q.cos, bm25 |-> q.bm25, multi_query |-> q.multi_query,
     multiquery_min |-> q.multiquery_min, coarse |-> coarse, coarse_min |-> q.coarse_min,
     prefilter |-> prefilter, augment |-> augment, code_signal |-> q.code_signal,
     type |-> q.type, defines |-> q.defines, rerank |-> rerank, rerank_min |-> q.rerank_min,
     cross |-> q.cross, top_k |-> q.top_k]

LEMMA OneChange ==
    ASSUME NEW q, NEW p, NEW coarse, NEW augment, NEW rerank, NEW prefilter, NEW v, NEW new,
           p = QueryWith(q, coarse, augment, rerank, prefilter)
    PROVE  /\ new = [p EXCEPT !.coarse = v] => new = QueryWith(q, v, augment, rerank, prefilter)
           /\ new = [p EXCEPT !.augment = v] => new = QueryWith(q, coarse, v, rerank, prefilter)
           /\ new = [p EXCEPT !.rerank = v] => new = QueryWith(q, coarse, augment, v, prefilter)
           /\ new = [p EXCEPT !.prefilter = v] => new = QueryWith(q, coarse, augment, rerank, v)
  BY DEF QueryWith

(* Both scopes are queries of that kind. *)
LEMMA PlainIs ==
    ASSUME NEW q, IsQuery(q)
    PROVE  LET p == PlainOf(q)
           IN /\ IsQuery(p) /\ ~p.coarse /\ ~p.augment /\ ~p.rerank
              /\ p.prefilter = q.chunks /\ p.chunks = q.chunks /\ p.top_k = q.top_k
<1> DEFINE p == PlainOf(q)
<1>1. p = QueryWith(q, FALSE, FALSE, FALSE, q.chunks)
  <2>0. PICK no : no = FALSE
    OBVIOUS
  <2>1. q = QueryWith(q, q.coarse, q.augment, q.rerank, q.prefilter)
    BY DEF IsQuery, QueryWith
  <2>2. PICK p1 : p1 = [q EXCEPT !.coarse = no]
    OBVIOUS
  <2>3. p1 = QueryWith(q, no, q.augment, q.rerank, q.prefilter)
    BY <2>1, <2>2, OneChange
  <2>4. PICK p2 : p2 = [p1 EXCEPT !.augment = no]
    OBVIOUS
  <2>5. p2 = QueryWith(q, no, no, q.rerank, q.prefilter)
    BY <2>3, <2>4, OneChange
  <2>6. PICK p3 : p3 = [p2 EXCEPT !.rerank = no]
    OBVIOUS
  <2>7. p3 = QueryWith(q, no, no, no, q.prefilter)
    BY <2>5, <2>6, OneChange
  <2>8. PICK p4 : p4 = [p3 EXCEPT !.prefilter = q.chunks]
    OBVIOUS
  <2>9. p4 = QueryWith(q, no, no, no, q.chunks)
    BY <2>7, <2>8, OneChange
  <2>10. p = p4
    BY <2>0, <2>2, <2>4, <2>6, <2>8 DEF PlainOf
  <2> QED
    BY <2>0, <2>9, <2>10
<1>2. /\ q.chunks \in Nat /\ q.top_k \in Nat
      /\ q.cos \in Seq(ScoresOf(q.chunks)) /\ q.bm25 \in Seq(ScoresOf(q.chunks)) /\ q.cross \in ScoresOf(q.chunks)
      /\ Len(q.cos) > 0 /\ Len(q.bm25) = Len(q.cos)
  BY DEF IsQuery
<1> HIDE DEF p
<1> QED
  BY <1>1, <1>2 DEF IsQuery, QueryWith, p

LEMMA OtherIs ==
    ASSUME NEW q, IsQuery(q)
    PROVE  LET p == Other(q)
           IN /\ IsQuery(p) /\ p.coarse = q.coarse /\ p.augment = q.augment /\ p.rerank = q.rerank
              /\ p.prefilter = q.prefilter /\ p.chunks = q.chunks /\ p.top_k = q.top_k
<1> DEFINE higher == [x \in DOMAIN q.cos |-> [i \in 1 .. q.chunks |-> q.cos[x][i] + 5]]
           p == Other(q)
<1>1. p = [q EXCEPT !.cos = higher]
  BY DEF Other
<1>2. /\ q.chunks \in Nat /\ q.top_k \in Nat /\ q.prefilter \in Nat
      /\ q.cos \in Seq(ScoresOf(q.chunks)) /\ q.bm25 \in Seq(ScoresOf(q.chunks)) /\ q.cross \in ScoresOf(q.chunks)
      /\ Len(q.cos) > 0 /\ Len(q.bm25) = Len(q.cos)
  BY DEF IsQuery
<1>3. higher \in Seq(ScoresOf(q.chunks)) /\ Len(higher) = Len(q.cos)
  <2> DEFINE T == ScoresOf(q.chunks)
             n == Len(q.cos)
             up(x) == [i \in 1 .. q.chunks |-> q.cos[x][i] + 5]
  <2>1. n \in Nat /\ DOMAIN q.cos = 1 .. n /\ \A x \in 1 .. n : q.cos[x] \in T
    <3> HIDE DEF T
    <3> QED
      BY <1>2 DEF T
  <2>2. \A x \in 1 .. n : up(x) \in T
    <3> TAKE x \in 1 .. n
    <3>1. q.cos[x] \in [1 .. q.chunks -> Nat]
      BY <2>1 DEF ScoresOf
    <3>2. \A i \in 1 .. q.chunks : q.cos[x][i] + 5 \in Nat
      <4> TAKE i \in 1 .. q.chunks
      <4>1. q.cos[x][i] \in Nat
        BY <3>1
      <4> QED
        BY <4>1
    <3> QED
      BY <3>2 DEF ScoresOf
  <2>3. higher = [x \in 1 .. n |-> up(x)]
    BY <2>1
  <2> HIDE DEF higher, up, T, n
  <2>4. higher \in [1 .. n -> T]
    BY <2>2, <2>3
  <2>5. higher \in Seq(T) /\ Len(higher) = n
    BY <2>1, <2>4
  <2> QED
    BY <2>5 DEF T, n
<1> HIDE DEF higher
<1>4. p = [chunks |-> q.chunks, cos |-> higher, bm25 |-> q.bm25, multi_query |-> q.multi_query,
           multiquery_min |-> q.multiquery_min, coarse |-> q.coarse, coarse_min |-> q.coarse_min,
           prefilter |-> q.prefilter, augment |-> q.augment, code_signal |-> q.code_signal,
           type |-> q.type, defines |-> q.defines, rerank |-> q.rerank, rerank_min |-> q.rerank_min,
           cross |-> q.cross, top_k |-> q.top_k]
  BY <1>1 DEF IsQuery
<1> HIDE DEF p
<1> QED
  BY <1>2, <1>3, <1>4 DEF IsQuery, p

(* retrieve_multi over two scopes takes the best of all their chunks. *)
LEMMA MultiTakesGlobal ==
    ASSUME NEW q, IsQuery(q)
    PROVE  MultiIsGlobal(q)
<1> DEFINE a == PlainOf(q)
           b == Other(a)
           qs == <<a, b>>
           n == q.chunks
           k == q.top_k
           M == <<MaxSims(a), MaxSims(b)>>
           r == <<retrieve(a), retrieve(b)>>
           at(p) == RankIn(retrieve(qs[p.scope]), p.chunk)
           listed(x, y) == x.scope < y.scope \/ (x.scope = y.scope /\ at(x) < at(y))
           first(x, y) == x.score > y.score \/ (x.score = y.score /\ listed(x, y))
           pairs == UNION {{[scope |-> s, chunk |-> i, score |-> MaxSims(qs[s])[i]] :
                              i \in Range(retrieve(qs[s]))} : s \in DOMAIN qs}
           R == {e \in Pairs(pairs) : first(e[1], e[2])}
<1>1. n \in Nat /\ k \in Nat
  BY DEF IsQuery
<1>2. IsQuery(a) /\ ~a.coarse /\ ~a.augment /\ ~a.rerank /\ a.prefilter = n /\ a.chunks = n /\ a.top_k = k
  BY PlainIs
<1>3. IsQuery(b) /\ ~b.coarse /\ ~b.augment /\ ~b.rerank /\ b.prefilter = n /\ b.chunks = n /\ b.top_k = k
  <2> HIDE DEF a
  <2> QED
    BY <1>2, OtherIs
<1>4. retrieve_multi(qs, k) = Take(Sorted(pairs, R), k)
  BY DEF retrieve_multi
<1>5. MultiIsGlobal(q) <=> BestOf(retrieve_multi(qs, k), AllOf(qs), k)
  BY DEF MultiIsGlobal, PlainOf
<1> HIDE DEF a, b
<1>6. BestLists(M, r, n, k)
  <2>1. /\ MaxSims(a) \in [1 .. n -> Nat] /\ retrieve(a) \in Seq(1 .. n) /\ Len(retrieve(a)) = Least(k, n)
        /\ \A i, j \in DOMAIN retrieve(a) : retrieve(a)[i] = retrieve(a)[j] => i = j
        /\ \A x \in Range(retrieve(a)), i \in (1 .. n) \ Range(retrieve(a)) : MaxSims(a)[x] >= MaxSims(a)[i]
    BY <1>2, CosineRanks
  <2>2. /\ MaxSims(b) \in [1 .. n -> Nat] /\ retrieve(b) \in Seq(1 .. n) /\ Len(retrieve(b)) = Least(k, n)
        /\ \A i, j \in DOMAIN retrieve(b) : retrieve(b)[i] = retrieve(b)[j] => i = j
        /\ \A x \in Range(retrieve(b)), i \in (1 .. n) \ Range(retrieve(b)) : MaxSims(b)[x] >= MaxSims(b)[i]
    BY <1>3, CosineRanks
  <2>3. M[1] = MaxSims(a) /\ M[2] = MaxSims(b) /\ r[1] = retrieve(a) /\ r[2] = retrieve(b)
    OBVIOUS
  <2>4. ASSUME NEW s \in 1 .. 2 PROVE s = 1 \/ s = 2
    OBVIOUS
  <2> HIDE DEF M, r
  <2> QED
    BY <2>1, <2>2, <2>3, <2>4, Zenon DEF BestLists
<1>7. /\ qs[1] = a /\ qs[2] = b /\ DOMAIN qs = 1 .. 2 /\ M[1] = MaxSims(a) /\ M[2] = MaxSims(b)
      /\ r[1] = retrieve(a) /\ r[2] = retrieve(b)
  OBVIOUS
<1>8. \A s \in 1 .. 2 : retrieve(qs[s]) = r[s] /\ MaxSims(qs[s]) = M[s]
  <2>1. \A s \in 1 .. 2 : s = 1 \/ s = 2
    OBVIOUS
  <2> HIDE DEF qs, M, r
  <2> QED
    BY <1>7, <2>1
<1>9. pairs = Listed(M, r)
  <2> HIDE DEF qs, M, r
  <2>1. 1 .. 2 = {1, 2}
    OBVIOUS
  <2>2. pairs = UNION {EntriesOf(M, s, Range(r[s])) : s \in 1 .. 2}
    BY <1>7, <1>8 DEF EntriesOf, EntryOf
  <2> QED
    BY <2>1, <2>2 DEF Listed
<1>10. AllOf(qs) = EntriesOf(M, 1, 1 .. n) \cup EntriesOf(M, 2, 1 .. n)
  <2> HIDE DEF qs, M, r
  <2>1. 1 .. 2 = {1, 2} /\ qs[1].chunks = n
    BY <1>2, <1>7
  <2>2. AllOf(qs) = {EntryOf(M, e[1], e[2]) : e \in (1 .. 2) \X (1 .. n)}
    BY <1>8, <2>1 DEF AllOf, EntryOf
  <2>3. ASSUME NEW e \in (1 .. 2) \X (1 .. n) PROVE e[1] \in {1, 2} /\ e[2] \in 1 .. n
    BY <2>1
  <2>4. ASSUME NEW s \in {1, 2}, NEW i \in 1 .. n
        PROVE  EntryOf(M, s, i) \in AllOf(qs)
    <3>1. <<s, i>> \in (1 .. 2) \X (1 .. n) /\ <<s, i>>[1] = s /\ <<s, i>>[2] = i
      BY <2>1
    <3> QED
      BY <2>2, <3>1
  <2>5. AllOf(qs) \subseteq EntriesOf(M, 1, 1 .. n) \cup EntriesOf(M, 2, 1 .. n)
    BY <2>2, <2>3 DEF EntriesOf
  <2>6. EntriesOf(M, 1, 1 .. n) \cup EntriesOf(M, 2, 1 .. n) \subseteq AllOf(qs)
    BY <2>4 DEF EntriesOf
  <2> QED
    BY <2>5, <2>6
<1>11. \A x, y \in Listed(M, r) : <<x, y>> \in R <=> Ahead(r, x, y)
  <2> TAKE x, y \in Listed(M, r)
  <2>1. x.scope \in 1 .. 2 /\ y.scope \in 1 .. 2
    BY <1>1, <1>6, ListedAre
  <2>2. at(x) = RankIn(r[x.scope], x.chunk) /\ at(y) = RankIn(r[y.scope], y.chunk)
    BY <1>8, <2>1
  <2>3. <<x, y>> \in R <=> first(x, y)
    <3> HIDE DEF first
    <3> QED
      BY <1>9 DEF Pairs
  <2> HIDE DEF R, at
  <2> QED
    BY <2>2, <2>3 DEF Ahead
<1> HIDE DEF M, r, R, pairs, qs
<1>12. BestOf(Take(Sorted(Listed(M, r), R), k), EntriesOf(M, 1, 1 .. n) \cup EntriesOf(M, 2, 1 .. n), k)
  BY <1>1, <1>6, <1>11, BestOfBoth
<1> QED
  BY <1>4, <1>5, <1>9, <1>10, <1>12

-----------------------------------------------------------------------------
(* CoarseFilter and the parents of chunks *)

TimesDenominator(c, acc, r) == acc * (RankK + r)
AddRanked(c, sum, k) ==
    sum + k.weight * (Denominators(c.f.chunks) \div (RankK + RankIn(ByScore(k.score), c.i)))

Denominated == INSTANCE FoldLemmas WITH Step <- TimesDenominator
Summed == INSTANCE FoldLemmas WITH Step <- AddRanked

LEMMA DenominatorsAre ==
    ASSUME NEW n \in Nat
    PROVE  Denominators(n) \in Nat
<1> DEFINE s == [r \in 1 .. n |-> r]
<1>1. s \in Seq(Nat) /\ Len(s) = n /\ \A k \in 1 .. n : s[k] = k
  OBVIOUS
<1>2. Denominators(n) = Denominated!Fold(0, 1, s)
  BY Zenon DEF Denominators, TimesDenominator, FoldLeft, MapThenFoldSet, Max, Denominated!Fold, Denominated!Greatest
<1> HIDE DEF s
<1>3. PICK f : Denominated!IsRun(f, 0, 1, s) /\ Denominated!Fold(0, 1, s) = f[n]
  BY <1>1, Denominated!FoldRun, NumbersInductive DEF Denominated!Inductive
<1> DEFINE done == {k \in 0 .. n : f[k] \in Nat}
<1>4. 0 \in done
  BY <1>3 DEF Denominated!IsRun
<1>5. ASSUME NEW k \in 0 .. n - 1, k \in done PROVE k + 1 \in done
  <2>1. k + 1 \in 1 .. n /\ k + 1 - 1 = k /\ k + 1 \in 0 .. n /\ k \in Nat
    OBVIOUS
  <2>2. f[k + 1] = f[k] * (RankK + (k + 1))
    BY <1>1, <1>3, <2>1 DEF Denominated!IsRun, TimesDenominator
  <2>3. RankK + (k + 1) \in Nat /\ f[k] \in Nat
    BY <1>5, <2>1, RankKAssumption
  <2>4. f[k + 1] \in Nat
    BY <2>2, <2>3, ProductsAre
  <2> QED
    BY <2>1, <2>4
<1> HIDE DEF done
<1>6. n \in done
  <2>1. \A k \in 0 .. n : k \in done
    BY <1>4, <1>5, UpTo
  <2> QED
    BY <2>1
<1> QED
  BY <1>2, <1>3, <1>6 DEF done

IsFilter(f) ==
    /\ f.chunks \in Nat /\ f.top_k \in Nat /\ Len(f.rankings) > 0
    /\ f.rankings \in Seq([weight : Nat, score : [1 .. f.chunks -> Nat]])

LEMMA RankingIs ==
    ASSUME NEW n \in Nat, NEW score \in [1 .. n -> Nat], NEW i \in 1 .. n
    PROVE  LET s == ByScore(score)
           IN RankIn(s, i) \in Nat \ {0} /\ s[RankIn(s, i)] = i
<1> DEFINE s == ByScore(score)
<1>1. score \in [1 .. n -> Int]
  OBVIOUS
<1>2. s \in Seq(1 .. n) /\ Range(s) = 1 .. n
  BY <1>1, ByScoreIs
<1> HIDE DEF s
<1> QED
  BY <1>2, RankIs DEF s

LEMMA FilterScoreIs ==
    ASSUME NEW f, IsFilter(f), NEW i \in 1 .. f.chunks
    PROVE  FilterScore(f, i) \in Nat
<1> DEFINE s == f.rankings
           T == [weight : Nat, score : [1 .. f.chunks -> Nat]]
           n == Len(s)
           c == [f |-> f, i |-> i]
<1>1. s \in Seq(T) /\ n \in Nat /\ DOMAIN s = 1 .. n
  BY DEF IsFilter
<1>2. FilterScore(f, i) = Summed!Fold(c, 0, s)
  BY Zenon DEF FilterScore, AddRanked, FoldLeft, MapThenFoldSet, Max, Summed!Fold, Summed!Greatest
<1>3. PICK g : Summed!IsRun(g, c, 0, s) /\ Summed!Fold(c, 0, s) = g[n]
  <2> HIDE DEF T, s, c
  <2> QED
    BY <1>1, Summed!FoldRun, NumbersInductive DEF Summed!Inductive
<1> DEFINE done == {k \in 0 .. n : g[k] \in Nat}
<1>4. 0 \in done
  BY <1>1, <1>3 DEF Summed!IsRun
<1>5. ASSUME NEW k \in 0 .. n - 1, k \in done PROVE k + 1 \in done
  <2>1. k + 1 \in 1 .. n /\ k + 1 - 1 = k /\ k + 1 \in 0 .. n /\ k \in Nat
    BY <1>1
  <2> DEFINE e == s[k + 1]
             d == Denominators(f.chunks)
             m == RankK + RankIn(ByScore(e.score), i)
  <2>2. g[k + 1] = g[k] + e.weight * (d \div m)
    BY <1>1, <1>3, <2>1 DEF Summed!IsRun, AddRanked
  <2>3. e.weight \in Nat /\ e.score \in [1 .. f.chunks -> Nat]
    <3>1. e \in T
      <4> HIDE DEF T, s
      <4> QED
        BY <1>1, <2>1
    <3> QED
      BY <3>1
  <2>4. d \in Nat /\ m \in Nat \ {0}
    <3>1. f.chunks \in Nat
      BY DEF IsFilter
    <3>2. RankIn(ByScore(e.score), i) \in Nat \ {0}
      BY <2>3, <3>1, RankingIs
    <3>3. d \in Nat
      BY <3>1, DenominatorsAre
    <3>4. m \in Nat \ {0}
      BY <3>2, RankKAssumption
    <3> QED
      BY <3>3, <3>4
  <2> HIDE DEF d, m, e
  <2>5. d \div m \in Nat
    BY <2>4
  <2>6. e.weight * (d \div m) \in Nat
    BY <2>3, <2>5, ProductsAre
  <2>7. g[k + 1] \in Nat
    BY <1>5, <2>2, <2>6
  <2> QED
    BY <2>1, <2>7
<1> HIDE DEF done
<1>6. n \in done
  <2>1. \A k \in 0 .. n : k \in done
    BY <1>1, <1>4, <1>5, UpTo
  <2> QED
    BY <1>1, <2>1
<1> QED
  BY <1>2, <1>3, <1>6 DEF done

(* filter_multi_query lists chunks. *)
LEMMA FilteredAre ==
    ASSUME NEW f, IsFilter(f)
    PROVE  Range(filter_multi_query(f)) \subseteq 1 .. f.chunks
<1> DEFINE S == 1 .. f.chunks
           first == ByScore(f.rankings[1].score)
           R == {e \in Pairs(1 .. f.chunks) :
                   \/ FilterScore(f, e[1]) > FilterScore(f, e[2])
                   \/ FilterScore(f, e[1]) = FilterScore(f, e[2]) /\ RankIn(first, e[1]) < RankIn(first, e[2])}
           a == [x \in S |-> FilterScore(f, x)]
           b == [x \in S |-> 0]
           c == [x \in S |-> RankIn(first, x)]
<1>1. filter_multi_query(f) = Take(Sorted(S, R), f.top_k)
  BY DEF filter_multi_query
<1>2. f.chunks \in Nat /\ f.top_k \in Nat /\ f.rankings[1].score \in [1 .. f.chunks -> Nat]
  <2> DEFINE T == [weight : Nat, score : [1 .. f.chunks -> Nat]]
  <2>1. f.rankings[1] \in T
    <3>1. f.rankings \in Seq(T) /\ 1 \in DOMAIN f.rankings
      BY DEF IsFilter
    <3> HIDE DEF T
    <3> QED
      BY <3>1, EntryIsIn
  <2>2. f.rankings[1].score \in [1 .. f.chunks -> Nat]
    BY <2>1
  <2> QED
    BY <2>2 DEF IsFilter
<1>3. \A x \in S : RankIn(first, x) \in Nat /\ first[RankIn(first, x)] = x
  <2> DEFINE score == f.rankings[1].score
  <2>1. score \in [1 .. f.chunks -> Nat] /\ f.chunks \in Nat
    BY <1>2
  <2> HIDE DEF score
  <2>2. ASSUME NEW x \in 1 .. f.chunks
        PROVE  RankIn(ByScore(score), x) \in Nat /\ ByScore(score)[RankIn(ByScore(score), x)] = x
    <3>1. RankIn(ByScore(score), x) \in Nat \ {0} /\ ByScore(score)[RankIn(ByScore(score), x)] = x
      BY <2>1, RankingIs
    <3> QED
      BY <3>1
  <2> QED
    BY <2>2 DEF score
<1>4. \A x \in S : FilterScore(f, x) \in Nat
  BY FilterScoreIs
<1>5. \A x, y \in S : <<x, y>> \in R <=>
        \/ FilterScore(f, x) > FilterScore(f, y)
        \/ FilterScore(f, x) = FilterScore(f, y) /\ RankIn(first, x) < RankIn(first, y)
  BY DEF Pairs
<1> HIDE DEF first, S, R
<1>6. RanksBy(R, S, a, b, c)
  <2>1. \A x \in S : a[x] \in Nat /\ b[x] \in Nat /\ c[x] \in Nat
    BY <1>3, <1>4
  <2>2. \A x, y \in S : a[x] = a[y] /\ b[x] = b[y] /\ c[x] = c[y] => x = y
    BY <1>3
  <2>3. \A x, y \in S : <<x, y>> \in R <=>
          a[x] > a[y] \/ (a[x] = a[y] /\ (b[x] < b[y] \/ (b[x] = b[y] /\ c[x] < c[y])))
    <3> TAKE x, y \in S
    <3>1. a[x] = FilterScore(f, x) /\ a[y] = FilterScore(f, y) /\ b[x] = 0 /\ b[y] = 0
          /\ c[x] = RankIn(first, x) /\ c[y] = RankIn(first, y)
      OBVIOUS
    <3> HIDE DEF a, b, c
    <3> QED
      BY <1>5, <3>1
  <2> HIDE DEF a, b, c
  <2> QED
    BY <2>1, <2>2, <2>3 DEF RanksBy
<1>7. IsFiniteSet(S) /\ Sorted(S, R) \in Seq(S)
  <2>1. IsFiniteSet(S)
    <3>1. 1 \in Int /\ f.chunks \in Int
      BY <1>2
    <3> QED
      BY <3>1, SpanCounts DEF S
  <2>2. Orders(R, S)
    BY <1>6, Lexicographic
  <2> QED
    BY <2>1, <2>2, SortedIs
<1>8. filter_multi_query(f) \in Seq(S)
  BY <1>1, <1>2, <1>7, TakeIs
<1> QED
  BY <1>8, EntryIsIn DEF Range, S

LEMMA KeptAre ==
    ASSUME NEW p, IsInput(p)
    PROVE  Kept(p) \subseteq 1 .. p.chunks
<1> DEFINE f == [chunks |-> p.chunks, top_k |-> p.coarse_top_n,
                 rankings |-> <<[weight |-> 1, score |-> p.bm25], [weight |-> 1, score |-> p.sim]>>]
<1>1. IsFilter(f)
  <2> DEFINE T == [weight : Nat, score : [1 .. p.chunks -> Nat]]
             x == [weight |-> 1, score |-> p.bm25]
             y == [weight |-> 1, score |-> p.sim]
  <2>1. x \in T /\ y \in T
    BY DEF IsInput, ScoresOf
  <2>2. f.chunks = p.chunks /\ f.top_k = p.coarse_top_n /\ f.rankings = <<x, y>>
    OBVIOUS
  <2> HIDE DEF T, x, y
  <2>3. <<x, y>> \in Seq(T) /\ Len(<<x, y>>) = 2
    BY <2>1
  <2> HIDE DEF f
  <2>4. p.chunks \in Nat /\ p.coarse_top_n \in Nat
    BY DEF IsInput
  <2> QED
    BY <2>2, <2>3, <2>4 DEF IsFilter, T
<1>2. f.chunks = p.chunks
  OBVIOUS
<1>3. Kept(p) \in {1 .. p.chunks, Range(filter_multi_query(f))}
  BY DEF Kept
<1> HIDE DEF f
<1> QED
  BY <1>1, <1>2, <1>3, FilteredAre

(* A parent's score is its best chunk's. *)
LEMMA BestIs ==
    ASSUME NEW p, IsInput(p), NEW x
    PROVE  LET scores == {p.sim[i] : i \in {j \in Kept(p) : p.parent[j] = x}}
           IN /\ BestOfParent(p, x) \in Int /\ scores \subseteq Nat
              /\ scores = {} => BestOfParent(p, x) = -1
              /\ scores # {} => BestOfParent(p, x) \in scores /\ \A b \in scores : b <= BestOfParent(p, x)
<1> DEFINE D == {j \in Kept(p) : p.parent[j] = x}
           scores == {p.sim[i] : i \in D}
           f == [i \in D |-> p.sim[i]]
<1>1. D \subseteq 1 .. p.chunks /\ p.chunks \in Nat /\ p.sim \in [1 .. p.chunks -> Nat]
  BY KeptAre DEF IsInput, ScoresOf
<1>2. IsFiniteSet(D)
  <2>1. IsFiniteSet(1 .. p.chunks)
    BY <1>1, SpanCounts
  <2> HIDE DEF D
  <2> QED
    BY <1>1, <2>1, FS_Subset
<1>3. scores = {f[i] : i \in D} /\ DOMAIN f = D
  OBVIOUS
<1>4. BestOfParent(p, x) = IF scores = {} THEN -1 ELSE Highest(scores)
  BY DEF BestOfParent
<1> HIDE DEF D, f
<1>5. scores \subseteq Nat /\ IsFiniteSet(scores)
  <2>1. IsFiniteSet({f[i] : i \in D})
    BY <1>2, <1>3, FiniteImage
  <2>2. scores \subseteq Nat
    BY <1>1
  <2> QED
    BY <1>3, <2>1, <2>2
<1> HIDE DEF scores
<1>6. scores # {} => Highest(scores) \in scores /\ Highest(scores) \in Nat /\ \A b \in scores : b <= Highest(scores)
  BY <1>5, HighestIs
<1>7. -1 \in Int
  OBVIOUS
<1>8. /\ BestOfParent(p, x) \in Int /\ scores \subseteq Nat
      /\ scores = {} => BestOfParent(p, x) = -1
      /\ scores # {} => BestOfParent(p, x) \in scores /\ \A b \in scores : b <= BestOfParent(p, x)
  BY <1>4, <1>5, <1>6, <1>7
<1> QED
  BY <1>8 DEF scores, D

(* The order of the input, when asked for. *)
LEMMA InOrderIs ==
    ASSUME NEW n \in Nat, NEW s \in Seq(1 .. n), \A i, j \in DOMAIN s : s[i] = s[j] => i = j, NEW keep
    PROVE  LET r == InOrder(s, keep)
           IN /\ r \in Seq(1 .. n) /\ DOMAIN r = DOMAIN s /\ Len(r) = Len(s) /\ Range(r) = Range(s)
              /\ \A i, j \in DOMAIN r : r[i] = r[j] => i = j
              /\ keep => \A k \in 2 .. Len(r) : r[k - 1] < r[k]
<1> DEFINE r == InOrder(s, keep)
           I == Range(s)
           m == Len(s)
<1>1. m \in Nat /\ DOMAIN s = 1 .. m
  OBVIOUS
<1>2. CASE ~keep
  BY <1>2 DEF InOrder
<1>3. CASE keep
  <2>1. I \in SUBSET (1 .. n) /\ Cardinality(I) = m
    <3>1. \A i \in DOMAIN s : s[i] \in 1 .. n
      BY EntryIsIn
    <3>2. Cardinality(Range(s)) = Len(s)
      BY CountOnce
    <3> QED
      BY <3>1, <3>2 DEF Range
  <2>2. r = [k \in 1 .. m |-> Nth(I, k)]
    BY <1>1, <1>3 DEF InOrder
  <2> HIDE DEF I, r, m
  <2>3. /\ \A k \in 1 .. m : Nth(I, k) \in I
        /\ \A i \in I : \E k \in 1 .. m : Nth(I, k) = i
        /\ \A k, l \in 1 .. m : k < l <=> Nth(I, k) < Nth(I, l)
    BY <2>1, NthIs
  <2>4. r \in [1 .. m -> 1 .. n] /\ \A k \in 1 .. m : r[k] = Nth(I, k)
    BY <2>1, <2>2, <2>3
  <2>5. r \in Seq(1 .. n) /\ Len(r) = m /\ DOMAIN r = 1 .. m
    <3> DEFINE T == 1 .. n
    <3>1. r \in [1 .. m -> T]
      BY <2>4
    <3> HIDE DEF T
    <3>2. r \in Seq(T) /\ Len(r) = m /\ DOMAIN r = 1 .. m
      BY <1>1, <3>1
    <3> QED
      BY <3>2 DEF T
  <2>6. Range(r) = I
    BY <2>3, <2>4, <2>5 DEF Range
  <2>7. ASSUME NEW i \in 1 .. m, NEW j \in 1 .. m, r[i] = r[j] PROVE i = j
    <3>1. i \in Int /\ j \in Int /\ r[i] \in Int /\ r[j] \in Int /\ ~(r[i] < r[j]) /\ ~(r[j] < r[i])
      BY <1>1, <2>4, <2>7
    <3>2. ~(i < j) /\ ~(j < i)
      BY <2>3, <2>4, <3>1
    <3> QED
      BY <3>1, <3>2
  <2>8. ASSUME NEW k \in 2 .. m PROVE r[k - 1] < r[k]
    <3>1. k - 1 \in 1 .. m /\ k \in 1 .. m /\ k - 1 < k
      BY <1>1
    <3> QED
      BY <2>3, <2>4, <3>1
  <2> QED
    BY <1>1, <2>5, <2>6, <2>7, <2>8 DEF I, r, m
<1> QED
  BY <1>2, <1>3

(* The nearest parents are returned. *)
LEMMA NearestParents ==
    ASSUME NEW p, IsInput(p)
    PROVE  BestParentsWin(p)
<1> DEFINE n == p.parents
           k == p.top_k
           best == [x \in 1 .. n |-> BestOfParent(p, x)]
           s == ByScore(best)
           t == Take(s, k)
           r == retrieve_chunked(p)
           scores(x) == {p.sim[i] : i \in {j \in Kept(p) : p.parent[j] = x}}
<1>1. n \in Nat /\ k \in Nat
  BY DEF IsInput
<1>2. r = InOrder(t, p.preserve_order)
  BY DEF retrieve_chunked
<1>3. \A x \in 1 .. n : /\ BestOfParent(p, x) \in Int /\ scores(x) \subseteq Nat
                        /\ scores(x) = {} => BestOfParent(p, x) = -1
                        /\ scores(x) # {} => /\ BestOfParent(p, x) \in scores(x)
                                             /\ \A b \in scores(x) : b <= BestOfParent(p, x)
  BY BestIs
<1>4. best \in [1 .. n -> Int] /\ \A x \in 1 .. n : best[x] = BestOfParent(p, x)
  BY <1>3
<1> HIDE DEF best, scores
<1>5. /\ s \in Seq(1 .. n) /\ Len(s) = n /\ Range(s) = 1 .. n
      /\ \A i, j \in 1 .. n : i < j => s[i] # s[j] /\ best[s[i]] >= best[s[j]]
  BY <1>1, <1>4, ByScoreIs
<1> HIDE DEF s
<1>6. /\ t \in Seq(1 .. n) /\ Len(t) = Least(k, n)
      /\ \A i, j \in DOMAIN t : t[i] = t[j] => i = j
      /\ \A x \in Range(t), i \in (1 .. n) \ Range(t) : best[x] >= best[i]
  <2>1. Falls(s, n, best)
    BY <1>5 DEF Falls
  <2> QED
    BY <1>1, <2>1, TopOf
<1> HIDE DEF t
<1>7. /\ r \in Seq(1 .. n) /\ Len(r) = Len(t) /\ Range(r) = Range(t)
      /\ \A i, j \in DOMAIN r : r[i] = r[j] => i = j
      /\ p.preserve_order => \A j \in 2 .. Len(r) : r[j - 1] < r[j]
  <2> HIDE DEF r
  <2> DEFINE keep == p.preserve_order
             u == InOrder(t, keep)
  <2>1. /\ u \in Seq(1 .. n) /\ Len(u) = Len(t) /\ Range(u) = Range(t)
        /\ \A i, j \in DOMAIN u : u[i] = u[j] => i = j
        /\ keep => \A j \in 2 .. Len(u) : u[j - 1] < u[j]
    <3> HIDE DEF keep
    <3> QED
      BY <1>1, <1>6, InOrderIs
  <2>2. r = u
    BY <1>2
  <2> HIDE DEF u
  <2> QED
    BY <2>1, <2>2
<1> HIDE DEF r
<1>8. ASSUME NEW x \in Range(r), NEW y \in 1 .. n \ Range(r), NEW b \in scores(y)
      PROVE  \E a \in scores(x) : a >= b
  <2>1. x \in 1 .. n /\ y \in 1 .. n /\ best[x] >= best[y]
    <3>1. x \in 1 .. n
      <4>1. \A i \in DOMAIN r : r[i] \in 1 .. n
        BY <1>7, EntryIsIn
      <4> QED
        BY <4>1 DEF Range
    <3> QED
      BY <1>6, <1>7, <3>1
  <2>2. b \in Nat /\ best[y] \in Int /\ b <= best[y] /\ best[x] \in Int
    BY <1>3, <1>4, <2>1
  <2>3. best[x] >= b /\ best[x] # -1
    BY <2>1, <2>2
  <2>4. scores(x) # {}
    BY <1>3, <1>4, <2>1, <2>3
  <2>5. best[x] \in scores(x)
    BY <1>3, <1>4, <2>1, <2>4
  <2> QED
    BY <2>3, <2>5
<1>9. IsInjective(r)
  BY <1>7 DEF IsInjective
<1>10. /\ Len(r) = Least(k, n) /\ IsInjective(r)
       /\ \A x \in Range(r), y \in 1 .. n \ Range(r) : \A b \in scores(y) : \E a \in scores(x) : a >= b
       /\ p.preserve_order => \A j \in 2 .. Len(r) : r[j - 1] < r[j]
  BY <1>6, <1>7, <1>8, <1>9
<1> QED
  BY <1>10, Zenon DEF BestParentsWin, r, n, k, scores

(* Every query, index, batch, block and conversation: retrieve ranks no      *)
(* document before a defining source file, retrieve_multi takes the best of  *)
(* all scopes' chunks, retrieve_chunked the nearest parents,                 *)
(* encode_with_cache gives each text its own embedding, whichever are        *)
(* cached, _format_chunks_block stays within its bound, and the proxy keeps  *)
(* the conversation but for one block.                                       *)
THEOREM RetrievalIsExactForAll == AlgSpec => []RetrievalIsExact
<1>1. call \in Calls \cup {NoCall} => RetrievalIsExact
  <2> HAVE call \in Calls \cup {NoCall}
  <2>1. /\ call.kind \in {"query", "candidates", "encode"} => call \in Retrievals
        /\ call.kind \in {"block", "splice"} => call \in Splices
    BY KindsAssumption DEF Calls, NoCall
  <2>2. ASSUME call.kind = "query" PROVE DefinitionsFirst(call.q) /\ MultiIsGlobal(call.q)
    <3>1. IsQuery(call.q)
      BY <2>1, <2>2, RetrievalsAssumption
    <3> QED
      BY <3>1, DefinitionsComeFirst, MultiTakesGlobal
  <2>3. ASSUME call.kind = "candidates" PROVE BestParentsWin(call.p)
    <3>1. IsInput(call.p)
      BY <2>1, <2>3, RetrievalsAssumption
    <3> QED
      BY <3>1, NearestParents
  <2>4. ASSUME call.kind = "encode" PROVE EachItsOwn(call)
    <3>1. call.texts \in Seq(Nat) /\ call.cached \subseteq Nat
      BY <2>1, <2>4, RetrievalsAssumption
    <3> QED
      BY <3>1, EncodesItsOwn
  <2>5. ASSUME call.kind = "block" PROVE BlockBounded(call)
    <3>1. call.budget \in Nat /\ call.chunks \in Seq([header : Nat, text : Nat])
      BY <2>1, <2>5, SplicesAssumption
    <3> QED
      BY <3>1, BlockIsBounded
  <2>6. ASSUME call.kind = "splice" PROVE ConversationKept(call)
    <3>1. call.messages \in Seq(Message) /\ call.scope \in BOOLEAN /\ call.chunks \in {<<>>, <<"b">>}
      BY <2>1, <2>6, SplicesAssumption DEF Message
    <3> QED
      BY <3>1, ConversationIsKept
  <2> QED
    BY <2>2, <2>3, <2>4, <2>5, <2>6 DEF RetrievalIsExact
<1> QED
  BY <1>1, CallsMade, PTL
=============================================================================
