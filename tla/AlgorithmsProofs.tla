-------------------------- MODULE AlgorithmsProofs --------------------------
(***************************************************************************)
(* The algorithms of MCAlgorithms are right for inputs of any size: the    *)
(* merge of detect_hide_ps for lists of any length, the scan for the k     *)
(* nearest rows for every number of rows and every distance, the walks of  *)
(* the scripts for any number of nodes linked and unlinked around them,    *)
(* the layers of setParentLayer for every forest of parents, the scores    *)
(* for any rows whose distances are whole.                                 *)
(* Each theorem is one of the module of its algorithm.                     *)
(***************************************************************************)
EXTENDS MCAlgorithms, FiniteSetTheorems, TLAPS

(***************************************************************************)
(* HidePs: the merge.                                                      *)
(***************************************************************************)
\* The merge is half way: everything behind p is decided, everything behind q
\* is older than everything from p on.
Overtaken(u) == \E v \in 1 .. Len(queue) : queue[v] > known[u]

Sorted == Ascending(queue) /\ Ascending(known)

Behind == \A v \in 1 .. Len(queue), u \in 1 .. Len(known) : v < q /\ u >= p => queue[v] < known[u]

Decided ==
  \A u \in 1 .. Len(known) :
    /\ u < p => /\ u \notin kworker => (u \in logged <=> Absent(u))
                /\ u \in warned <=> u \notin kworker /\ Absent(u) /\ Overtaken(u)
    /\ u >= p => u \notin logged /\ u \notin warned

Tail1 == pc # "merge" => Ended(p, known) \/ Ended(q, queue)
Tail2 == pc = "done" => Ended(p, known)

MergeInv == TypeOK /\ Sorted /\ Behind /\ Decided /\ Tail1 /\ Tail2

\* Nothing is decided when detect_hide_ps begins.
LEMMA InitMerge == Init => MergeInv
<1>. SUFFICES ASSUME Init PROVE MergeInv
  OBVIOUS
<1>1. Len(queue) \in Nat /\ Len(known) \in Nat
  BY DEF Init
<1>2. TypeOK
  BY <1>1 DEF Init, TypeOK
<1>3. Sorted /\ Behind /\ Decided /\ Tail1 /\ Tail2
  BY <1>1 DEF Init, Sorted, Behind, Decided, Tail1, Tail2
<1>. QED BY <1>2, <1>3 DEF MergeInv

\* The elements of the two lists are natural numbers.
LEMMA Elements ==
  ASSUME TypeOK
  PROVE  /\ Len(queue) \in Nat /\ Len(known) \in Nat
         /\ \A v \in 1 .. Len(queue) : queue[v] \in Nat
         /\ \A u \in 1 .. Len(known) : known[u] \in Nat
<1>1. /\ Len(queue) \in Nat /\ Len(known) \in Nat
      /\ \A v \in 1 .. Len(queue) : queue[v] \in Pid
      /\ \A u \in 1 .. Len(known) : known[u] \in Pid
  BY DEF TypeOK
<1>. QED BY <1>1, PidAssumption

\* Every turn of its two loops keeps MergeInv: one step per action.
LEMMA NextMerge == ASSUME MergeInv, [Next]_vars PROVE MergeInv'
<1>. USE DEF MergeInv
<1>e. /\ Len(queue) \in Nat /\ Len(known) \in Nat
      /\ \A v \in 1 .. Len(queue) : queue[v] \in Nat
      /\ \A u \in 1 .. Len(known) : known[u] \in Nat
      /\ p \in Nat /\ q \in Nat /\ p >= 1 /\ q >= 1
  BY Elements DEF TypeOK
<1>1. CASE Hidden
  <2>1. /\ p \in 1 .. Len(known) /\ q \in 1 .. Len(queue) /\ queue[q] > known[p]
        /\ p' = p + 1 /\ pc = "merge" /\ UNCHANGED <<queue, known, kworker, q, pc>>
    BY <1>1, <1>e DEF Hidden, Merging, Ended, TypeOK, lists
  <2>2. Absent(p) /\ Overtaken(p)
    <3>1. ASSUME NEW v \in 1 .. Len(queue) PROVE queue[v] # known[p]
      <4>1. CASE v < q
        BY <2>1, <4>1, <1>e DEF Behind
      <4>2. CASE v = q
        BY <2>1, <4>2, <1>e
      <4>3. CASE v > q
        BY <2>1, <4>3, <1>e DEF Sorted, Ascending
      <4>. QED BY <2>1, <4>1, <4>2, <4>3
    <3>. QED BY <2>1, <3>1 DEF Absent, Overtaken
  <2>3. TypeOK'
    <3>1. logged' \subseteq 1 .. Len(known) /\ warned' \subseteq 1 .. Len(known)
      <4>1. logged' \subseteq logged \union {p} /\ warned' \subseteq warned \union {p}
        BY <1>1 DEF Hidden
      <4>. QED BY <2>1, <4>1 DEF TypeOK
    <3>2. p + 1 \in 1 .. Len(known) + 1
      BY <2>1, <1>e
    <3>. QED BY <2>1, <3>1, <3>2 DEF TypeOK
  <2>4. Decided'
    <3>1. ASSUME NEW u \in 1 .. Len(known)
          PROVE /\ u < p + 1 => /\ u \notin kworker => (u \in logged' <=> Absent(u))
                                /\ u \in warned' <=> u \notin kworker /\ Absent(u) /\ Overtaken(u)
                /\ u >= p + 1 => u \notin logged' /\ u \notin warned'
      BY <1>1, <2>1, <2>2, <1>e DEF Hidden, Decided
    <3>. QED BY <2>1, <3>1 DEF Decided, Absent, Overtaken
  <2>5. Sorted' /\ Behind'
    BY <2>1, <1>e DEF Sorted, Behind, Ascending
  <2>. QED BY <2>1, <2>3, <2>4, <2>5 DEF Tail1, Tail2
<1>2. CASE Unseen
  <2>1. /\ p \in 1 .. Len(known) /\ q \in 1 .. Len(queue) /\ queue[q] < known[p]
        /\ q' = q + 1 /\ pc = "merge" /\ UNCHANGED <<queue, known, kworker, p, logged, warned, pc>>
    BY <1>2, <1>e DEF Unseen, Merging, Ended, TypeOK, lists
  <2>2. Behind'
    <3>1. ASSUME NEW u \in 1 .. Len(known), u >= p PROVE queue[q] < known[u]
      <4>1. known[p] <= known[u]
        BY <2>1, <3>1, <1>e DEF Sorted, Ascending
      <4>. QED BY <2>1, <4>1, <1>e
    <3>. QED BY <2>1, <3>1, <1>e DEF Behind
  <2>3. TypeOK' /\ Sorted' /\ Decided'
    BY <2>1, <1>e DEF TypeOK, Sorted, Ascending, Decided, Absent, Overtaken
  <2>. QED BY <2>1, <2>2, <2>3 DEF Tail1, Tail2
<1>3. CASE Both
  <2>1. /\ p \in 1 .. Len(known) /\ q \in 1 .. Len(queue) /\ queue[q] = known[p]
        /\ q' = q + 1 /\ p' = p + 1 /\ pc = "merge"
        /\ UNCHANGED <<queue, known, kworker, logged, warned, pc>>
    BY <1>3, <1>e DEF Both, Merging, Ended, TypeOK, lists
  <2>2. ~Absent(p)
    BY <2>1 DEF Absent
  <2>3. Behind'
    <3>1. ASSUME NEW u \in 1 .. Len(known), u >= p + 1 PROVE queue[q] < known[u]
      BY <2>1, <3>1, <1>e DEF Sorted, Ascending
    <3>. QED BY <2>1, <3>1, <1>e DEF Behind
  <2>4. Decided'
    <3>1. ASSUME NEW u \in 1 .. Len(known)
          PROVE /\ u < p + 1 => /\ u \notin kworker => (u \in logged <=> Absent(u))
                                /\ u \in warned <=> u \notin kworker /\ Absent(u) /\ Overtaken(u)
                /\ u >= p + 1 => u \notin logged /\ u \notin warned
      BY <2>1, <2>2, <1>e DEF Decided
    <3>. QED BY <2>1, <3>1 DEF Decided, Absent, Overtaken
  <2>5. TypeOK' /\ Sorted'
    BY <2>1, <1>e DEF TypeOK, Sorted, Ascending
  <2>. QED BY <2>1, <2>3, <2>4, <2>5 DEF Tail1, Tail2
<1>4. CASE EndMerge \/ Finish
  BY <1>4 DEF EndMerge, Finish, lists, TypeOK, Sorted, Ascending, Behind, Decided, Absent, Overtaken,
              Tail1, Tail2, Ended
<1>5. CASE LogRest
  <2>1. /\ p \in 1 .. Len(known) /\ q = Len(queue) + 1 /\ p' = p + 1 /\ pc = "tail"
        /\ UNCHANGED <<queue, known, kworker, q, warned, pc>>
    BY <1>5, <1>e DEF LogRest, Ended, TypeOK, Tail1, lists
  <2>2. /\ logged' = logged \union {p} \/ logged' = logged
        /\ p \notin kworker => logged' = logged \union {p}
    BY <1>5 DEF LogRest
  <2>3. Absent(p) /\ ~Overtaken(p)
    <3>1. ASSUME NEW v \in 1 .. Len(queue) PROVE queue[v] < known[p]
      <4>1. v < q /\ p >= p
        BY <2>1, <1>e
      <4>. QED BY <2>1, <4>1 DEF Behind
    <3>2. ASSUME NEW v \in 1 .. Len(queue) PROVE queue[v] # known[p] /\ ~(queue[v] > known[p])
      <4>1. queue[v] \in Nat /\ known[p] \in Nat
        BY <2>1, Elements DEF TypeOK
      <4>. QED BY <3>1, <4>1
    <3>. QED BY <3>2 DEF Absent, Overtaken
  <2>4. Decided'
    <3>1. ASSUME NEW u \in 1 .. Len(known)
          PROVE /\ u < p + 1 => /\ u \notin kworker => (u \in logged' <=> Absent(u))
                                /\ u \in warned <=> u \notin kworker /\ Absent(u) /\ Overtaken(u)
                /\ u >= p + 1 => u \notin logged' /\ u \notin warned
      BY <2>1, <2>2, <2>3, <1>e DEF Decided
    <3>. QED BY <2>1, <3>1 DEF Decided, Absent, Overtaken
  <2>5. TypeOK'
    <3>1. logged' \subseteq 1 .. Len(known)
      BY <2>1, <2>2 DEF TypeOK
    <3>2. p + 1 \in 1 .. Len(known) + 1
      BY <2>1, <1>e
    <3>. QED BY <2>1, <3>1, <3>2 DEF TypeOK
  <2>6. Sorted' /\ Behind'
    BY <2>1, <1>e DEF Sorted, Behind, Ascending
  <2>. QED BY <2>1, <2>4, <2>5, <2>6 DEF Tail1, Tail2, Ended
<1>6. CASE UNCHANGED vars
  BY <1>6 DEF vars, lists, TypeOK, Sorted, Ascending, Behind, Decided, Absent, Overtaken, Tail1, Tail2, Ended
<1>. QED BY <1>1, <1>2, <1>3, <1>4, <1>5, <1>6 DEF Next

-----------------------------------------------------------------------------
\* At the end of the merge the log has exactly the processes the walk did not
\* meet (kworkers apart), and the table those of them that are older than some
\* process of the walk, for any two lists in the order of the pids.
THEOREM MergeCorrect == Spec => []MergeIsRight
<1>1. MergeInv => MergeIsRight
  <2>. SUFFICES ASSUME MergeInv PROVE MergeIsRight
    OBVIOUS
  <2>1. pc = "done" => \A u \in 1 .. Len(known) : u < p
    BY Elements DEF MergeInv, Tail2, Ended
  <2>. QED BY <2>1 DEF MergeInv, MergeIsRight, Decided, LoggedIfAbsent, WarnedIfOvertaken, Overtaken
<1>2. MergeInv /\ [Next]_vars => MergeInv'
  BY NextMerge
<1>. QED BY <1>1, <1>2, InitMerge, PTL DEF Spec

(***************************************************************************)
(* NearestQueue: the scan.                                                 *)
(***************************************************************************)
Types ==
  /\ dis \in [Row -> Dist] /\ i \in Row \union {Nobody} /\ k \in Places
  /\ j \in 0 .. N /\ IsFiniteSet(pq)

ScanInv == Types /\ KNearest

\* A full queue has a row that comes out before all others: among the sets of
\* the rows that come out before a row there is one that contains no other.
LEMMA GetExists ==
  ASSUME NEW s, IsFiniteSet(s), s # {}, NEW d, \A a \in s : a \in Int /\ d[a] \in Int
  PROVE  get(s, d) \in s /\ \A b \in s : Before(d, get(s, d), b)
<1>. DEFINE Ahead(a) == {b \in s : ~Before(d, a, b)}
            Sets == {Ahead(a) : a \in s}
<1>1. Sets \subseteq FiniteSubsetsOf(s)
  <2>1. ASSUME NEW a \in s PROVE Ahead(a) \in SUBSET s /\ IsFiniteSet(Ahead(a))
    BY FS_Subset
  <2>. QED BY <2>1 DEF FiniteSubsetsOf
<1>2. Sets # {}
  OBVIOUS
<1>3. PICK D \in Sets : \A E \in Sets : ~ (<<E, D>> \in StrictSubsetOrdering(s))
  BY <1>1, <1>2, FS_StrictSubsetOrderingWellFounded, WFMin
<1>4. PICK a \in s : D = Ahead(a)
  OBVIOUS
<1>5. ASSUME NEW b \in Ahead(a) PROVE FALSE
  <2>1. b \in s /\ ~Before(d, a, b)
    OBVIOUS
  <2>2. \A c \in s : ~Before(d, b, c) => ~Before(d, a, c)
    BY <2>1 DEF Before
  <2>3. Before(d, b, b)
    BY <2>1 DEF Before
  <2>4. Ahead(b) \subseteq Ahead(a) /\ b \in Ahead(a) /\ b \notin Ahead(b)
    BY <2>1, <2>2, <2>3
  <2>5. Ahead(a) \in SUBSET s /\ Ahead(b) \in SUBSET s /\ Ahead(b) \in Sets
    BY <2>1
  <2>6. <<Ahead(b), Ahead(a)>> \in StrictSubsetOrdering(s)
    BY <2>4, <2>5 DEF StrictSubsetOrdering
  <2>. QED BY <1>3, <1>4, <2>5, <2>6
<1>6. \A b \in s : Before(d, a, b)
  BY <1>5
<1>. QED BY <1>6 DEF get

\* A queue of n places that has been offered the rows of S: n of them, or all,
\* and none farther than any other.
NearestOf(u, d, n, S) ==
  /\ IsFiniteSet(u) /\ u \subseteq S /\ Cardinality(u) <= n
  /\ u = S \/ Cardinality(u) = n
  /\ \A a \in u, b \in S \ u : d[a] <= d[b]

\* It still is after one more row.
LEMMA OfferKeeps ==
  ASSUME NEW u, NEW d, NEW n \in Nat \ {0}, NEW S, NearestOf(u, d, n, S),
         NEW row, row \notin S, \A a \in S \union {row} : a \in Int /\ d[a] \in Int
  PROVE  NearestOf(offer(u, d, n, row), d, n, S \union {row})
<1>. DEFINE new == offer(u, d, n, row)
<1>1. IsFiniteSet(u) /\ Cardinality(u) \in Nat /\ u \subseteq S /\ row \notin u
  BY FS_CardinalityType DEF NearestOf
<1>2. CASE Cardinality(u) < n
  <2>1. new = u \union {row}
    BY <1>2 DEF offer
  <2>2. IsFiniteSet(u \union {row}) /\ Cardinality(u \union {row}) = Cardinality(u) + 1
    BY <1>1, FS_AddElement
  <2>3. u = S
    BY <1>1, <1>2 DEF NearestOf
  <2>. QED BY <1>1, <1>2, <2>1, <2>2, <2>3 DEF NearestOf
<1>3. CASE ~(Cardinality(u) < n)
  <2>. DEFINE temp == get(u, d)
  <2>1. Cardinality(u) = n /\ u # {}
    BY <1>1, <1>3, FS_EmptySet DEF NearestOf
  <2>2. temp \in u /\ \A b \in u : Before(d, temp, b)
    BY <1>1, <2>1, GetExists
  <2>3. \A b \in u : d[b] <= d[temp]
    BY <1>1, <2>2 DEF Before
  <2>4. CASE d[row] < d[temp]
    <3>1. new = (u \ {temp}) \union {row}
      BY <1>3, <2>4 DEF offer
    <3>2. IsFiniteSet(u \ {temp}) /\ Cardinality(u \ {temp}) = n - 1
      BY <1>1, <2>1, <2>2, FS_RemoveElement
    <3>3. IsFiniteSet(new) /\ Cardinality(new) = n
      <4>1. row \notin u \ {temp} /\ n \in Nat
        BY <1>1
      <4>2. IsFiniteSet((u \ {temp}) \union {row}) /\ Cardinality((u \ {temp}) \union {row}) = n - 1 + 1
        BY <3>2, <4>1, FS_AddElement
      <4>. QED BY <3>1, <4>1, <4>2
    <3>4. ASSUME NEW a \in new, NEW b \in (S \union {row}) \ new PROVE d[a] <= d[b]
      <4>1. a = row \/ a \in u
        BY <3>1
      <4>2. b = temp \/ b \in S \ u
        BY <3>1
      <4>3. a \in S \union {row} /\ b \in S \union {row} /\ temp \in S \union {row}
        BY <1>1, <2>2, <4>1
      <4>4. d[a] \in Int /\ d[b] \in Int /\ d[temp] \in Int /\ d[row] \in Int
        BY <4>3
      <4>5. d[a] <= d[temp]
        BY <2>3, <2>4, <4>1, <4>4
      <4>6. d[temp] <= d[b]
        BY <2>2, <4>2, <4>4 DEF NearestOf
      <4>. QED BY <4>4, <4>5, <4>6
    <3>. QED BY <1>1, <3>1, <3>3, <3>4 DEF NearestOf
  <2>5. CASE ~(d[row] < d[temp])
    <3>1. new = u
      BY <1>3, <2>5 DEF offer
    <3>2. ASSUME NEW a \in u, NEW b \in (S \union {row}) \ u PROVE d[a] <= d[b]
      <4>1. b = row \/ b \in S \ u
        OBVIOUS
      <4>2. d[a] <= d[temp] /\ d[a] \in Int /\ d[temp] \in Int /\ d[row] \in Int
        BY <1>1, <2>2, <2>3
      <4>. QED BY <2>5, <4>1, <4>2 DEF NearestOf
    <3>. QED BY <1>1, <2>1, <3>1, <3>2 DEF NearestOf
  <2>. QED BY <2>4, <2>5
<1>. QED BY <1>2, <1>3

\* The queue is empty when a scan begins, and nothing has been seen.
LEMMA InitScan == ASSUME QueueAssumption, ScanInit PROVE ScanInv
<1>1. IsFiniteSet(pq) /\ Cardinality(pq) = 0
  BY FS_EmptySet DEF ScanInit
<1>2. Seen = {}
  BY DEF ScanInit, Seen
<1>. QED BY <1>1, <1>2 DEF QueueAssumption, ScanInit, ScanInv, Types, KNearest

\* One row of the loop, the point's own row or another.
LEMMA NextScan == ASSUME QueueAssumption, ScanInv, [ScanNext]_scan PROVE ScanInv'
<1>. USE DEF ScanInv
<1>a. N \in Nat /\ k \in Nat \ {0} /\ j \in Nat /\ i \in Int
  BY DEF QueueAssumption, Types, Row, Nobody
<1>1. CASE Self
  <2>1. j' = j + 1 /\ j < N /\ j = i /\ UNCHANGED <<dis, i, k, pq>>
    BY <1>1 DEF Self
  <2>2. Seen' = Seen
    BY <2>1, <1>a DEF Seen
  <2>3. Types'
    BY <2>1, <1>a DEF Types, Row
  <2>. QED BY <2>1, <2>2, <2>3 DEF KNearest
<1>2. CASE Offer
  <2>1. /\ j' = j + 1 /\ j < N /\ j # i /\ UNCHANGED <<dis, i, k>>
        /\ pq' = offer(pq, dis, k, j)
    BY <1>2 DEF Offer
  <2>2. Seen' = Seen \union {j} /\ j \notin Seen /\ j \notin pq
    BY <2>1, <1>a DEF Seen, KNearest
  <2>3. \A a \in Seen \union {j} : a \in Row /\ a \in Int /\ dis[a] \in Int
    <3>1. \A a \in Seen \union {j} : a \in Row /\ a \in Int
      BY <2>1, <1>a DEF Seen, Row
    <3>2. \A a \in Row : dis[a] \in Dist
      BY DEF Types
    <3>. QED BY <3>1, <3>2 DEF QueueAssumption
  <2>4. NearestOf(pq, dis, k, Seen)
    BY DEF NearestOf, KNearest, Types
  <2>5. NearestOf(pq', dis, k, Seen \union {j})
    BY <1>a, <2>1, <2>2, <2>3, <2>4, OfferKeeps
  <2>6. Types'
    BY <1>a, <2>1, <2>5 DEF Types, NearestOf
  <2>7. KNearest'
    BY <2>1, <2>2, <2>5 DEF NearestOf, KNearest
  <2>. QED BY <2>6, <2>7
<1>3. CASE UNCHANGED scan
  BY <1>3 DEF scan, Types, KNearest, Seen
<1>. QED BY <1>1, <1>2, <1>3 DEF ScanNext

\* The neighbours the scores are computed from are the k nearest rows seen, after
\* every row of the scan.
THEOREM NeighboursAreNearest == ASSUME QueueAssumption PROVE ScanSpec => []KNearest
<1>1. ScanInit => ScanInv
  BY InitScan
<1>2. ScanInv /\ [ScanNext]_scan => ScanInv'
  BY NextScan
<1>3. ScanInv => KNearest
  BY DEF ScanInv
<1>. QED BY <1>1, <1>2, <1>3, PTL DEF ScanSpec

(***************************************************************************)
(* ListWalk: the walks.  A node in hand that the guest has unlinked leads  *)
(* through others unlinked later to one that is linked: the invariant is   *)
(* about that chain, and about what has been read before and after its     *)
(* end.                                                                    *)
(***************************************************************************)
\* The nodes, the linked ones, and the node a next pointer leads to.
Node == Slot \union {ListHead}
Linked == Walks!Linked
To(n) == Walks!Next(n)

\* The list without duplicates, and the head behind it.
ListOk == list \in Seq(Slot) /\ \A u, v \in 1 .. Len(list) : list[u] = list[v] => u = v
Ring(u) == IF u = Len(list) + 1 THEN ListHead ELSE list[u]

\* a comes before b on the way from the head's next to the head.
Prec(a, b) == \E u, v \in 1 .. Len(list) + 1 : u < v /\ Ring(u) = a /\ Ring(v) = b

\* The linked nodes by their places, which are all different.
LEMMA AtPlaces ==
  ASSUME ListOk
  PROVE  /\ Len(list) \in Nat
         /\ \A u \in 1 .. Len(list) + 1 : Ring(u) \in Linked
         /\ \A a \in Linked : a \in Node /\ \E u \in 1 .. Len(list) + 1 : Ring(u) = a
         /\ \A u, v \in 1 .. Len(list) + 1 : Ring(u) = Ring(v) => u = v
<1>1. Len(list) \in Nat /\ DOMAIN list = 1 .. Len(list) /\ \A u \in 1 .. Len(list) : list[u] \in Slot
  BY DEF ListOk
<1>2. ListHead \notin Slot
  BY WalkAssumed DEF Walks!WalkAssumption
<1>3. \A u \in 1 .. Len(list) + 1 : u \in 1 .. Len(list) \/ u = Len(list) + 1
  BY <1>1
<1>4. \A u \in 1 .. Len(list) : u # Len(list) + 1 /\ u \in 1 .. Len(list) + 1
  BY <1>1
<1>5. Len(list) + 1 \in 1 .. Len(list) + 1
  BY <1>1
<1>6. \A u \in 1 .. Len(list) + 1 : Ring(u) \in Linked
  BY <1>1, <1>3, <1>4 DEF Ring, Linked, Walks!Linked
<1>7. \A a \in Linked : a \in Node /\ \E u \in 1 .. Len(list) + 1 : Ring(u) = a
  BY <1>1, <1>4, <1>5 DEF Ring, Linked, Walks!Linked, Node
<1>8. \A u, v \in 1 .. Len(list) + 1 : Ring(u) = Ring(v) => u = v
  BY <1>1, <1>2, <1>3, <1>4 DEF Ring, ListOk
<1>. QED BY <1>1, <1>6, <1>7, <1>8

\* The order is total on them, and the head comes last.
LEMMA Order ==
  ASSUME ListOk
  PROVE  /\ \A a, b : Prec(a, b) => a \in Linked /\ b \in Linked /\ a # b /\ ~Prec(b, a)
         /\ \A a, b, c : Prec(a, b) /\ Prec(b, c) => Prec(a, c)
         /\ \A a, b \in Linked : a = b \/ Prec(a, b) \/ Prec(b, a)
         /\ \A a : ~Prec(ListHead, a)
         /\ ListHead \in Linked
<1>. DEFINE L == Len(list) + 1
<1>1. /\ L \in Nat \ {0} /\ Ring(L) = ListHead
      /\ \A u \in 1 .. L : Ring(u) \in Linked
      /\ \A a \in Linked : \E u \in 1 .. L : Ring(u) = a
      /\ \A u, v \in 1 .. L : Ring(u) = Ring(v) => u = v
  BY AtPlaces DEF Ring
<1>2. \A a, b : Prec(a, b) <=> \E u, v \in 1 .. L : u < v /\ Ring(u) = a /\ Ring(v) = b
  BY DEF Prec
<1>. HIDE DEF L
<1>3. ASSUME NEW a, NEW b, Prec(a, b) PROVE a \in Linked /\ b \in Linked /\ a # b /\ ~Prec(b, a)
  BY <1>1, <1>2, <1>3
<1>4. ASSUME NEW a, NEW b, NEW c, Prec(a, b), Prec(b, c) PROVE Prec(a, c)
  <2>1. PICK u, v \in 1 .. L : u < v /\ Ring(u) = a /\ Ring(v) = b
    BY <1>2, <1>4
  <2>2. PICK w, x \in 1 .. L : w < x /\ Ring(w) = b /\ Ring(x) = c
    BY <1>2, <1>4
  <2>3. v = w /\ u < x
    BY <1>1, <2>1, <2>2
  <2>. QED BY <1>2, <2>1, <2>2, <2>3
<1>5. ASSUME NEW a \in Linked, NEW b \in Linked PROVE a = b \/ Prec(a, b) \/ Prec(b, a)
  <2>1. PICK u, v \in 1 .. L : Ring(u) = a /\ Ring(v) = b
    BY <1>1
  <2>2. u = v \/ u < v \/ v < u
    BY <1>1
  <2>. QED BY <1>2, <2>1, <2>2
<1>6. ASSUME NEW a, Prec(ListHead, a) PROVE FALSE
  <2>1. PICK u, v \in 1 .. L : u < v /\ Ring(u) = ListHead
    BY <1>2, <1>6
  <2>2. u = L
    BY <1>1, <2>1
  <2>. QED BY <1>1, <2>1, <2>2
<1>7. ListHead \in Linked
  BY DEF Linked, Walks!Linked
<1>. QED BY <1>3, <1>4, <1>5, <1>6, <1>7

\* The next pointer of a linked node is the node behind it, the head's the first.
LEMMA Behind1 ==
  ASSUME ListOk, NEW a \in Linked
  PROVE  /\ To(a) \in Linked
         /\ a # ListHead => \A b : Prec(b, To(a)) <=> b = a \/ Prec(b, a)
         /\ a = ListHead => \A b : ~Prec(b, To(a))
<1>. DEFINE L == Len(list) + 1
            ring == <<ListHead>> \o list
<1>1. /\ L \in Nat \ {0} /\ Ring(L) = ListHead
      /\ \A u \in 1 .. L : Ring(u) \in Linked
      /\ \A u, v \in 1 .. L : Ring(u) = Ring(v) => u = v
  BY AtPlaces DEF Ring
<1>2. \A x, y : Prec(x, y) <=> \E u, v \in 1 .. L : u < v /\ Ring(u) = x /\ Ring(v) = y
  BY DEF Prec
<1>3. PICK u \in 1 .. L : Ring(u) = a
  BY AtPlaces
<1>4. /\ DOMAIN ring = 1 .. L /\ Len(ring) = L /\ ring[1] = ListHead
      /\ \A v \in 2 .. L : ring[v] = Ring(v - 1)
  BY AtPlaces DEF Ring, ListOk
<1>. DEFINE w == CHOOSE v \in DOMAIN ring : ring[v] = a
<1>6. To(a) = IF w = Len(ring) THEN ListHead ELSE ring[w + 1]
  BY DEF To, Walks!Next, Linked
<1>. HIDE DEF L, ring
<1>7. CASE u = L
  <2>1. ring[1] = a /\ \A v \in 1 .. L : ring[v] = a => v = 1
    BY <1>1, <1>3, <1>4, <1>7
  <2>2. w = 1
    BY <1>1, <1>4, <2>1
  <2>3. To(a) = Ring(1)
    <3>1. CASE L = 1
      BY <1>1, <1>4, <1>6, <2>2, <3>1
    <3>2. CASE L # 1
      <4>1. 2 \in 2 .. L /\ 2 - 1 = 1 /\ 1 + 1 = 2
        BY <1>1, <3>2
      <4>2. ring[2] = Ring(1)
        BY <1>4, <4>1
      <4>. QED BY <1>4, <1>6, <2>2, <3>2, <4>1, <4>2
    <3>. QED BY <3>1, <3>2
  <2>4. ASSUME NEW b, Prec(b, To(a)) PROVE FALSE
    <3>1. PICK x, y \in 1 .. L : x < y /\ Ring(x) = b /\ Ring(y) = To(a)
      BY <1>2, <2>4
    <3>2. y = 1
      BY <1>1, <2>3, <3>1
    <3>. QED BY <1>1, <3>1, <3>2
  <2>. QED BY <1>1, <1>3, <1>7, <2>3, <2>4
<1>8. CASE u # L
  <2>1. u + 1 \in 2 .. L /\ ring[u + 1] = a /\ \A v \in 1 .. L : ring[v] = a => v = u + 1
    BY <1>1, <1>3, <1>4, <1>8
  <2>2. w = u + 1
    BY <1>1, <1>4, <2>1
  <2>3. To(a) = Ring(u + 1)
    <3>1. CASE u + 1 = L
      BY <1>1, <1>4, <1>6, <2>2, <3>1
    <3>2. CASE u + 1 # L
      <4>1. u + 2 \in 2 .. L /\ (u + 2) - 1 = u + 1 /\ (u + 1) + 1 = u + 2
        BY <1>1, <2>1, <3>2
      <4>. QED BY <1>4, <1>6, <2>2, <3>2, <4>1
    <3>. QED BY <3>1, <3>2
  <2>4. ASSUME NEW b PROVE Prec(b, To(a)) <=> b = a \/ Prec(b, a)
    <3>1. ASSUME Prec(b, To(a)) PROVE b = a \/ Prec(b, a)
      <4>1. PICK x, y \in 1 .. L : x < y /\ Ring(x) = b /\ Ring(y) = To(a)
        BY <1>2, <3>1
      <4>2. y = u + 1
        BY <1>1, <2>1, <2>3, <4>1
      <4>3. x = u \/ x < u
        BY <1>1, <4>1, <4>2
      <4>. QED BY <1>2, <1>3, <4>1, <4>3
    <3>2. ASSUME b = a PROVE Prec(b, To(a))
      BY <1>1, <1>2, <1>3, <2>1, <2>3, <3>2
    <3>3. ASSUME Prec(b, a) PROVE Prec(b, To(a))
      <4>1. PICK x, y \in 1 .. L : x < y /\ Ring(x) = b /\ Ring(y) = a
        BY <1>2, <3>3
      <4>2. y = u /\ x < u + 1
        BY <1>1, <1>3, <4>1
      <4>. QED BY <1>1, <1>2, <2>1, <2>3, <4>1, <4>2
    <3>. QED BY <3>1, <3>2, <3>3
  <2>5. a # ListHead
    BY <1>1, <1>3, <1>8
  <2>. QED BY <1>1, <2>1, <2>3, <2>4, <2>5
<1>. QED BY <1>7, <1>8

\* Two nodes come in the order of their places.
LEMMA ByPlace ==
  ASSUME ListOk, NEW u \in 1 .. Len(list) + 1, NEW v \in 1 .. Len(list) + 1
  PROVE  Prec(Ring(u), Ring(v)) <=> u < v
BY AtPlaces DEF Prec

\* What the places are stays so as long as the list has no duplicates.
Placed ==
  /\ Len(list) \in Nat
  /\ \A u, v \in 1 .. Len(list) + 1 : Ring(u) = Ring(v) => u = v
LEMMA PlacedNext == ListOk' => Placed'
<1>1. ListOk => Placed
  BY AtPlaces DEF Placed
<1>. QED BY <1>1, PTL

\* Nodes that keep the order of their places keep their order.
LEMMA Moved ==
  ASSUME ListOk, ListOk', NEW D \in SUBSET (1 .. Len(list) + 1), NEW to,
         \A u \in D : to[u] \in 1 .. Len(list') + 1 /\ Ring(to[u])' = Ring(u),
         \A u, v \in D : u < v <=> to[u] < to[v]
  PROVE  \A u, v \in D : \A a, b : a = Ring(u) /\ b = Ring(v) => (Prec(a, b)' <=> Prec(a, b))
<1>. SUFFICES ASSUME NEW u \in D, NEW v \in D, NEW a, NEW b, a = Ring(u), b = Ring(v)
              PROVE  Prec(a, b)' <=> Prec(a, b)
  OBVIOUS
<1>1. Prec(a, b) <=> u < v
  BY ByPlace
<1>. DEFINE x == to[u]
            y == to[v]
<1>2. x \in 1 .. Len(list') + 1 /\ y \in 1 .. Len(list') + 1 /\ Ring(x)' = a /\ Ring(y)' = b
      /\ (u < v <=> x < y)
  OBVIOUS
<1>. HIDE DEF x, y
<1>3. Prec(a, b)' <=> x < y
  BY <1>2, PlacedNext DEF Prec, Placed
<1>. QED BY <1>1, <1>2, <1>3

\* A node that is linked, at either end, comes in between two others.
LEMMA LinkOrder ==
  ASSUME ListOk, NEW n \in Slot, n \notin Linked,
         list' = Append(list, n) \/ list' = <<n>> \o list
  PROVE  /\ ListOk' /\ Linked' = Linked \union {n}
         /\ \A a, b \in Linked : Prec(a, b)' <=> Prec(a, b)
<1>a. PICK L : L = Len(list)
  OBVIOUS
<1>b. PICK to : to = [u \in 1 .. L + 1 |-> IF list' = <<n>> \o list \/ u = L + 1 THEN u + 1 ELSE u]
  OBVIOUS
<1>1. L \in Nat /\ DOMAIN list = 1 .. L /\ \A u \in 1 .. L : list[u] \in Slot /\ list[u] # n
  BY <1>a DEF ListOk, Linked, Walks!Linked
<1>2. list' \in Seq(Slot) /\ Len(list') = L + 1 /\ DOMAIN list' = 1 .. L + 1
  <2>1. CASE list' = Append(list, n)
    BY <1>1, <1>a, <2>1 DEF ListOk
  <2>2. CASE list' = <<n>> \o list
    <3>1. <<n>> \in Seq(Slot) /\ Len(<<n>>) = 1 /\ list \in Seq(Slot)
      BY DEF ListOk
    <3>2. list' \in Seq(Slot) /\ Len(list') = 1 + L
      BY <1>a, <2>2, <3>1
    <3>. QED BY <1>1, <3>2
  <2>. QED BY <2>1, <2>2
<1>3. /\ \A u \in 1 .. L : list'[to[u]] = list[u] /\ to[u] \in 1 .. L + 1
      /\ \A w \in 1 .. L + 1 : list'[w] = n \/ \E u \in 1 .. L : w = to[u]
      /\ \E w \in 1 .. L + 1 : list'[w] = n /\ \A x \in 1 .. L + 1 : list'[x] = n => x = w
  <2>1. CASE list' = <<n>> \o list
    <3>1. \A u \in 1 .. L : to[u] = u + 1 /\ list'[u + 1] = list[u]
      BY <1>1, <1>a, <1>b, <2>1 DEF ListOk
    <3>2. list'[1] = n /\ \A w \in 2 .. L + 1 : w - 1 \in 1 .. L /\ to[w - 1] = w
      BY <1>1, <1>b, <2>1
    <3>3. \A w \in 1 .. L + 1 : w = 1 \/ w \in 2 .. L + 1
      BY <1>1
    <3>4. \A w \in 2 .. L + 1 : list'[w] # n
      BY <1>1, <3>1, <3>2
    <3>5. \A u \in 1 .. L : list'[to[u]] = list[u] /\ to[u] \in 1 .. L + 1
      BY <1>1, <3>1
    <3>6. \A w \in 1 .. L + 1 : list'[w] = n \/ \E u \in 1 .. L : w = to[u]
      BY <3>2, <3>3
    <3>7. 1 \in 1 .. L + 1 /\ \A w \in 1 .. L + 1 : list'[w] = n => w = 1
      BY <1>1, <3>3, <3>4
    <3>. QED BY <3>2, <3>5, <3>6, <3>7
  <2>2. CASE list' # <<n>> \o list
    <3>1. list' = Append(list, n)
      BY <2>2
    <3>2. \A u \in 1 .. L : to[u] = u /\ list'[u] = list[u]
      BY <1>1, <1>a, <1>b, <2>2, <3>1 DEF ListOk
    <3>3. list'[L + 1] = n
      BY <1>1, <1>a, <3>1 DEF ListOk
    <3>4. \A w \in 1 .. L + 1 : w = L + 1 \/ w \in 1 .. L
      BY <1>1
    <3>5. \A u \in 1 .. L : list'[to[u]] = list[u] /\ to[u] \in 1 .. L + 1
      BY <1>1, <3>2
    <3>6. \A w \in 1 .. L + 1 : list'[w] = n \/ \E u \in 1 .. L : w = to[u]
      BY <3>2, <3>3, <3>4
    <3>7. L + 1 \in 1 .. L + 1 /\ \A w \in 1 .. L + 1 : list'[w] = n => w = L + 1
      BY <1>1, <3>2, <3>4
    <3>. QED BY <3>3, <3>5, <3>6, <3>7
  <2>. QED BY <2>1, <2>2
<1>4. ListOk'
  <2>. SUFFICES ASSUME NEW u \in 1 .. L + 1, NEW v \in 1 .. L + 1, list'[u] = list'[v] PROVE u = v
    BY <1>2 DEF ListOk
  <2>1. CASE list'[u] = n
    BY <1>3, <2>1
  <2>2. CASE list'[u] # n
    <3>1. PICK x, y \in 1 .. L : u = to[x] /\ v = to[y]
      BY <1>3, <2>2
    <3>2. x = y
      BY <1>a, <1>3, <3>1 DEF ListOk
    <3>. QED BY <3>1, <3>2
  <2>. QED BY <2>1, <2>2
<1>5. Linked' = Linked \union {n}
  <2>1. {list'[w] : w \in 1 .. L + 1} = {list[u] : u \in 1 .. L} \union {n}
    BY SMTT(20), <1>3
  <2>. QED BY <1>1, <1>2, <2>1 DEF Linked, Walks!Linked
<1>6. \A u \in 1 .. L + 1 : to[u] \in 1 .. Len(list') + 1 /\ Ring(to[u])' = Ring(u)
  <2>. SUFFICES ASSUME NEW u \in 1 .. L + 1
                PROVE  to[u] \in 1 .. Len(list') + 1 /\ Ring(to[u])' = Ring(u)
    OBVIOUS
  <2>1. CASE u = L + 1
    BY <1>a, <1>b, <1>1, <1>2, <2>1 DEF Ring
  <2>2. CASE u # L + 1
    <3>1. u \in 1 .. L
      BY <1>1, <2>2
    <3>2. to[u] \in 1 .. L + 1 /\ list'[to[u]] = list[u] /\ to[u] # Len(list') + 1
      BY <1>1, <1>2, <1>3, <3>1
    <3>3. Ring(u) = list[u] /\ Ring(to[u])' = list'[to[u]]
      BY <1>a, <2>2, <3>2 DEF Ring
    <3>. QED BY <1>1, <1>2, <3>2, <3>3
  <2>. QED BY <2>1, <2>2
<1>7. \A u, v \in 1 .. L + 1 : u < v <=> to[u] < to[v]
  BY <1>b, <1>1
<1>8. \A u, v \in 1 .. L + 1 : \A a, b : a = Ring(u) /\ b = Ring(v) => (Prec(a, b)' <=> Prec(a, b))
  <2>1. (1 .. L + 1) \in SUBSET (1 .. Len(list) + 1)
    BY <1>a
  <2>. QED BY <1>4, <1>6, <1>7, <2>1, Moved
<1>9. \A a \in Linked : \E u \in 1 .. L + 1 : Ring(u) = a
  BY <1>a, AtPlaces
<1>. QED BY <1>4, <1>5, <1>8, <1>9

\* A node that is unlinked leaves the order of the others as it was.
LEMMA UnlinkOrder ==
  ASSUME ListOk, NEW x \in DOMAIN list, list' = RemoveAt(list, x)
  PROVE  /\ ListOk' /\ Linked' = Linked \ {list[x]}
         /\ \A a, b \in Linked \ {list[x]} : Prec(a, b)' <=> Prec(a, b)
<1>a. PICK L, D, to : /\ L = Len(list) /\ D = (1 .. L + 1) \ {x}
                     /\ to = [u \in D |-> IF u < x THEN u ELSE u - 1]
  OBVIOUS
<1>1. L \in Nat /\ DOMAIN list = 1 .. L /\ x \in 1 .. L /\ \A u \in 1 .. L : list[u] \in Slot
  BY <1>a DEF ListOk
<1>2. /\ list' \in Seq(Slot) /\ Len(list') = L - 1
      /\ \A w \in 1 .. L - 1 : list'[w] = IF w < x THEN list[w] ELSE list[w + 1]
  <2>. DEFINE s == SubSeq(list, 1, x - 1)
              t == SubSeq(list, x + 1, L)
  <2>1. list' = s \o t
    BY <1>a DEF RemoveAt
  <2>2. /\ s \in Seq(Slot) /\ Len(s) = x - 1 /\ \A w \in 1 .. x - 1 : s[w] = list[w]
        /\ t \in Seq(Slot) /\ Len(t) = L - x /\ \A w \in 1 .. L - x : t[w] = list[x + w]
    BY SMTT(20), <1>a, <1>1 DEF ListOk
  <2>. HIDE DEF s, t
  <2>3. /\ list' \in Seq(Slot) /\ Len(list') = L - 1
        /\ \A w \in 1 .. L - 1 : list'[w] = IF w <= x - 1 THEN s[w] ELSE t[w - (x - 1)]
    <3>1. /\ s \o t \in Seq(Slot) /\ Len(s \o t) = Len(s) + Len(t)
          /\ \A w \in 1 .. Len(s) + Len(t) : (s \o t)[w] = IF w <= Len(s) THEN s[w] ELSE t[w - Len(s)]
      BY <2>2
    <3>2. Len(s) + Len(t) = L - 1
      BY <1>1, <2>2
    <3>. QED BY <2>1, <2>2, <3>1, <3>2
  <2>4. ASSUME NEW w \in 1 .. L - 1 PROVE list'[w] = IF w < x THEN list[w] ELSE list[w + 1]
    <3>1. CASE w < x
      BY <1>1, <2>2, <2>3, <3>1
    <3>2. CASE ~(w < x)
      <4>1. w - (x - 1) \in 1 .. L - x /\ x + (w - (x - 1)) = w + 1
        BY <1>1, <3>2
      <4>2. list'[w] = t[w - (x - 1)]
        BY <1>1, <2>3, <3>2
      <4>3. t[w - (x - 1)] = list[w + 1]
        BY <2>2, <4>1
      <4>. QED BY <3>2, <4>2, <4>3
    <3>. QED BY <3>1, <3>2
  <2>. QED BY <2>3, <2>4
<1>3. /\ \A u \in D : to[u] \in 1 .. L /\ (u # L + 1 => to[u] \in 1 .. L - 1 /\ list'[to[u]] = list[u])
      /\ \A w \in 1 .. L - 1 : \E u \in (1 .. L) \ {x} : w = to[u] /\ list'[w] = list[u]
      /\ L + 1 \in D /\ to[L + 1] = L
      /\ \A u, v \in D : u < v <=> to[u] < to[v]
  <2>1. ASSUME NEW u \in D
        PROVE  to[u] \in 1 .. L /\ (u # L + 1 => to[u] \in 1 .. L - 1 /\ list'[to[u]] = list[u])
    <3>1. CASE u < x
      BY <1>a, <1>1, <1>2, <3>1
    <3>2. CASE ~(u < x)
      <4>1. to[u] = u - 1 /\ u - 1 >= x /\ (u - 1) + 1 = u
        BY <1>a, <1>1, <3>2
      <4>. QED BY <1>a, <1>1, <1>2, <4>1
    <3>. QED BY <3>1, <3>2
  <2>2. ASSUME NEW w \in 1 .. L - 1
        PROVE  \E u \in (1 .. L) \ {x} : w = to[u] /\ list'[w] = list[u]
    <3>1. CASE w < x
      <4>1. w \in (1 .. L) \ {x} /\ w \in D /\ to[w] = w
        BY <1>a, <1>1, <3>1
      <4>. QED BY <1>2, <3>1, <4>1
    <3>2. CASE ~(w < x)
      <4>1. w + 1 \in (1 .. L) \ {x} /\ to[w + 1] = w
        BY <1>a, <1>1, <3>2
      <4>. QED BY <1>a, <1>1, <1>2, <3>2, <4>1
    <3>. QED BY <3>1, <3>2
  <2>3. L + 1 \in D /\ to[L + 1] = L
    BY <1>a, <1>1
  <2>4. \A u, v \in D : u < v <=> to[u] < to[v]
    BY <1>a, <1>1
  <2>. QED BY <2>1, <2>2, <2>3, <2>4
<1>4. ASSUME NEW u \in D PROVE u \in 1 .. L + 1 /\ u # x /\ (u # L + 1 => u \in 1 .. L)
  BY <1>a, <1>1
<1>5. ListOk'
  <2>. SUFFICES ASSUME NEW u \in 1 .. L - 1, NEW v \in 1 .. L - 1, list'[u] = list'[v] PROVE u = v
    BY <1>2 DEF ListOk
  <2>1. PICK y, z \in 1 .. L : u = to[y] /\ v = to[z] /\ list'[u] = list[y] /\ list'[v] = list[z]
    BY <1>3
  <2>2. y = z
    BY <1>a, <2>1 DEF ListOk
  <2>. QED BY <2>1, <2>2
<1>6. Linked' = Linked \ {list[x]}
  <2>1. \A u \in 1 .. L : list[u] = list[x] => u = x
    BY <1>a, <1>1 DEF ListOk
  <2>2. {list'[w] : w \in 1 .. L - 1} = {list[u] : u \in 1 .. L} \ {list[x]}
    <3>1. ASSUME NEW w \in 1 .. L - 1 PROVE list'[w] \in {list[u] : u \in 1 .. L} \ {list[x]}
      BY <1>3, <2>1
    <3>2. ASSUME NEW u \in 1 .. L, u # x PROVE \E w \in 1 .. L - 1 : list'[w] = list[u]
      <4>1. u \in D /\ u # L + 1
        BY <1>a, <1>1, <3>2
      <4>. QED BY <1>3, <4>1
    <3>. QED BY <2>1, <3>1, <3>2
  <2>3. DOMAIN list' = 1 .. L - 1 /\ ListHead # list[x]
    BY <1>1, <1>2, WalkAssumed DEF Walks!WalkAssumption
  <2>. QED BY <1>1, <2>2, <2>3 DEF Linked, Walks!Linked
<1>7. \A u \in D : to[u] \in 1 .. Len(list') + 1 /\ Ring(to[u])' = Ring(u)
  <2>. SUFFICES ASSUME NEW u \in D PROVE to[u] \in 1 .. Len(list') + 1 /\ Ring(to[u])' = Ring(u)
    OBVIOUS
  <2>1. CASE u = L + 1
    <3>1. to[u] = L /\ Len(list') + 1 = L /\ L \in 1 .. L
      BY <1>1, <1>2, <1>3, <2>1
    <3>2. Ring(u) = ListHead /\ Ring(to[u])' = ListHead
      BY <1>a, <2>1, <3>1 DEF Ring
    <3>. QED BY <3>1, <3>2
  <2>2. CASE u # L + 1
    <3>1. to[u] \in 1 .. L - 1 /\ list'[to[u]] = list[u] /\ to[u] # Len(list') + 1 /\ to[u] \in 1 .. Len(list') + 1
      BY <1>1, <1>2, <1>3, <2>2
    <3>2. Ring(u) = list[u] /\ Ring(to[u])' = list'[to[u]]
      BY <2>2, <1>a, <3>1 DEF Ring
    <3>. QED BY <3>1, <3>2
  <2>. QED BY <2>1, <2>2
<1>8. D \in SUBSET (1 .. Len(list) + 1)
  BY <1>a, <1>4
<1>9. \A u, v \in D : \A a, b : a = Ring(u) /\ b = Ring(v) => (Prec(a, b)' <=> Prec(a, b))
  BY <1>3, <1>5, <1>7, <1>8, Moved
<1>10. \A a \in Linked \ {list[x]} : \E u \in D : Ring(u) = a
  <2>. SUFFICES ASSUME NEW a \in Linked, a # list[x] PROVE \E u \in D : Ring(u) = a
    OBVIOUS
  <2>1. PICK u \in 1 .. L + 1 : Ring(u) = a
    BY <1>a, AtPlaces
  <2>2. u # x
    BY <1>1, <1>a, <2>1 DEF Ring
  <2>. QED BY <2>1, <2>2, <1>a
<1>. QED BY <1>5, <1>6, <1>9, <1>10

-----------------------------------------------------------------------------
\* What the guest leaves the walk to read.
Guest ==
  /\ ListOk /\ DOMAIN after \cap Linked = {}
  /\ prog \in Walks!OfTasks \union Walks!OfModules /\ walkpc \in {"start", "walk", "done"}
  /\ reads \in [Node -> 0 .. 2]
  /\ stayed \subseteq Linked /\ ever \subseteq Linked \union DOMAIN after
  /\ IsFiniteSet(Linked) /\ IsFiniteSet(ever)
  /\ walkpc = "start" => reads = [n \in Node |-> 0] /\ stayed = {}
  /\ walkpc # "start" => ListHead \in stayed /\ Linked \subseteq ever

Unread(n) == reads[n] = 0
Once == \A n \in Node : reads[n] <= 1 /\ (reads[n] = 1 => n \in ever)
ReadAll == \A n \in stayed : reads[n] = 1
End(c) == c[Len(c)]

\* The nodes from the one in hand to the next that is linked: the guest unlinked
\* the others under way.
Chain(c) ==
  /\ c \in Seq(Node) /\ c # <<>> /\ c[1] = at /\ End(c) \in Linked
  /\ \A u \in 1 .. Len(c) : c[u] \in ever
  /\ \A u \in 1 .. Len(c) - 1 : c[u] \in DOMAIN after /\ after[c[u]] = c[u + 1]
  /\ \A u, v \in 1 .. Len(c) : c[u] = c[v] => u = v

\* Under way to the head: what comes before the end of the chain and stayed has
\* been read, and nothing from there on.
Outward(c) ==
  /\ \A u \in 1 .. Len(c) : Unread(c[u])
  /\ \A n \in Linked : IF Prec(n, End(c)) THEN n \in stayed => reads[n] = 1 ELSE Unread(n)

\* It started at first, and is beyond it, or stands on it as yet.
Begun(c) ==
  /\ first \in Linked /\ ~Prec(End(c), first) /\ (End(c) = first => Len(c) = 1)
  /\ \A n \in Linked : Prec(n, first) => Unread(n)

\* Under way from the head to first, through what was linked since the walk began.
Near(c) ==
  /\ first \in Linked /\ ~Prec(first, End(c)) /\ (End(c) = first => Len(c) > 1)
  /\ \A n \in Linked : Prec(n, first) => n \notin stayed /\ (Prec(n, End(c)) \/ Unread(n))
  /\ \A u \in 1 .. Len(c) - 1 : Unread(c[u])

\* The same when first has been unlinked, but is still ahead.
Closing(c) ==
  /\ first \in DOMAIN after
  /\ \E m \in 2 .. Len(c) : c[m] = first /\ \A u \in 1 .. m - 1 : Unread(c[u])

\* first has been unlinked and is not ahead: the walk does not end.
Lost(c) == first \in DOMAIN after /\ \A u \in 2 .. Len(c) : c[u] # first

Circling(c) ==
  \/ Once /\ Outward(c) /\ Begun(c)
  \/ Once /\ ReadAll /\ (Near(c) \/ Closing(c))
  \/ Lost(c)

Walking ==
  walkpc = "walk" =>
    \E c : Chain(c) /\ IF prog = "modulelist" THEN Once /\ Outward(c) ELSE Circling(c)

Returned ==
  walkpc = "done" =>
    /\ Once
    /\ prog # "modulelist" => ReadAll
    /\ prog = "modulelist" => Unread(ListHead) /\ \A n \in stayed \ {ListHead} : reads[n] = 1

WalkInv == Guest /\ Walking /\ Returned

\* A walk that begins has read nothing.
LEMMA InitWalk == Walks!Init => WalkInv
<1>. SUFFICES ASSUME Walks!Init PROVE WalkInv
  OBVIOUS
<1>1. /\ list = <<Oldest>> /\ after = <<>> /\ Oldest \in Slot /\ walkpc = "start"
      /\ reads = [n \in Node |-> 0] /\ stayed = {} /\ ever = {}
      /\ prog \in Walks!OfTasks \union Walks!OfModules
  BY WalkAssumed DEF Walks!Init, Walks!WalkAssumption, Node
<1>2. ListOk /\ Linked = {Oldest, ListHead} /\ DOMAIN after = {}
  BY <1>1 DEF ListOk, Linked, Walks!Linked
<1>3. IsFiniteSet(Linked) /\ IsFiniteSet(ever)
  <2>1. IsFiniteSet({Oldest}) /\ IsFiniteSet({Oldest} \union {ListHead})
    BY FS_Singleton, FS_AddElement
  <2>2. {Oldest} \union {ListHead} = {Oldest, ListHead}
    OBVIOUS
  <2>. QED BY <1>1, <1>2, <2>1, <2>2, FS_EmptySet
<1>4. reads \in [Node -> 0 .. 2]
  BY <1>1
<1>. QED BY <1>1, <1>2, <1>3, <1>4 DEF WalkInv, Guest, Walking, Returned

\* What is newly linked has not been read, and did not stay.
LEMMA LinkWalk == WalkInv /\ Walks!Link => WalkInv'
<1>. SUFFICES ASSUME WalkInv, Walks!Link PROVE WalkInv'
  OBVIOUS
<1>1. PICK n \in Slot \ (Linked \union DOMAIN after) :
        /\ list' = IF prog \in Walks!OfTasks THEN Append(list, n) ELSE <<n>> \o list
        /\ ever' = IF walkpc = "start" THEN ever ELSE ever \union {n}
        /\ UNCHANGED <<prog, after, walkpc, first, at, reads, stayed, behind>>
  BY DEF Walks!Link, Linked
<1>2. /\ ListOk' /\ Linked' = Linked \union {n}
      /\ \A a, b \in Linked : Prec(a, b)' <=> Prec(a, b)
  BY <1>1, LinkOrder DEF WalkInv, Guest
<1>3. n \in Node /\ n \notin Linked /\ n \notin DOMAIN after /\ n \notin stayed /\ n \notin ever
  BY <1>1 DEF WalkInv, Guest, Node
<1>4. Guest'
  <2>1. IsFiniteSet(Linked') /\ IsFiniteSet(ever')
    BY <1>1, <1>2, FS_AddElement DEF WalkInv, Guest
  <2>. QED BY <1>1, <1>2, <1>3, <2>1 DEF WalkInv, Guest
<1>5. Once => Once' /\ Unread(n)
  <2>. SUFFICES ASSUME Once PROVE Once' /\ Unread(n)
    OBVIOUS
  <2>1. \A m \in Node : reads'[m] <= 1 /\ (reads'[m] = 1 => m \in ever')
    BY <1>1 DEF Once
  <2>2. reads[n] \in 0 .. 2 /\ reads[n] <= 1 /\ reads[n] # 1
    BY <1>3 DEF Once, WalkInv, Guest
  <2>3. reads[n] = 0
    BY <2>2
  <2>. QED BY <2>1, <2>3 DEF Once, Unread
<1>6. ASSUME NEW c, Chain(c)
      PROVE  /\ Chain(c)' /\ (ReadAll => ReadAll')
             /\ Once /\ Outward(c) => Outward(c)'
             /\ Once /\ Begun(c) => Begun(c)'
             /\ Once /\ Near(c) => Near(c)'
             /\ Closing(c) => Closing(c)'
             /\ Lost(c) => Lost(c)'
  <2>1. End(c) \in Linked /\ End(c)' = End(c) /\ End(c) # n
    BY <1>3, <1>6 DEF Chain, End
  <2>2. Chain(c)' /\ (ReadAll => ReadAll')
    BY <1>1, <1>2, <1>6, <2>1 DEF Chain, ReadAll
  <2>3. Once /\ Outward(c) => Outward(c)'
    BY <1>1, <1>2, <1>3, <1>5, <2>1 DEF Outward, Unread
  <2>4. Once /\ Begun(c) => Begun(c)'
    BY <1>1, <1>2, <1>3, <1>5, <2>1 DEF Begun, Unread
  <2>5. Once /\ Near(c) => Near(c)'
    BY <1>1, <1>2, <1>3, <1>5, <2>1 DEF Near, Unread
  <2>6. (Closing(c) => Closing(c)') /\ (Lost(c) => Lost(c)')
    BY <1>1 DEF Closing, Lost, Unread
  <2>. QED BY <2>2, <2>3, <2>4, <2>5, <2>6
<1>7. Walking'
  <2>. SUFFICES ASSUME walkpc = "walk"
                PROVE  \E c : Chain(c)' /\ IF prog = "modulelist" THEN Once' /\ Outward(c)' ELSE Circling(c)'
    BY <1>1 DEF Walking
  <2>1. PICK c : Chain(c) /\ IF prog = "modulelist" THEN Once /\ Outward(c) ELSE Circling(c)
    BY DEF WalkInv, Walking
  <2>. QED BY <1>5, <1>6, <2>1 DEF Circling
<1>8. Returned'
  BY <1>1, <1>5 DEF WalkInv, Returned, ReadAll, Unread
<1>. QED BY <1>4, <1>7, <1>8 DEF WalkInv

\* One more node at the end of a chain.
LEMMA Longer ==
  ASSUME NEW c \in Seq(Node), NEW m \in Node
  PROVE  /\ Append(c, m) \in Seq(Node) /\ Len(Append(c, m)) = Len(c) + 1 /\ Len(c) \in Nat
         /\ Append(c, m)[Len(c) + 1] = m
         /\ \A u \in 1 .. Len(c) : Append(c, m)[u] = c[u]
OBVIOUS

\* A node that is unlinked keeps its next pointer: when it is the one that the
\* chain leads to, the chain is one longer, and the others keep their order.
LEMMA UnlinkWalk == WalkInv /\ Walks!Unlink => WalkInv'
<1>. SUFFICES ASSUME WalkInv, Walks!Unlink PROVE WalkInv'
  OBVIOUS
<1>0. ListOk /\ ListHead \in Linked /\ Linked \subseteq Node
  BY Order, AtPlaces DEF WalkInv, Guest
<1>1. PICK x \in DOMAIN list :
        /\ list' = RemoveAt(list, x) /\ after' = [m \in DOMAIN after \union {list[x]} |-> To(m)]
        /\ stayed' = stayed \ {list[x]}
        /\ UNCHANGED <<prog, walkpc, first, at, reads, ever, behind>>
  BY DEF Walks!Unlink, Walks!RemoveAt, RemoveAt, To
<1>2. PICK n : n = list[x]
  OBVIOUS
<1>3. /\ ListOk' /\ Linked' = Linked \ {n}
      /\ \A a, b \in Linked' : Prec(a, b)' <=> Prec(a, b)
  BY <1>0, <1>1, <1>2, UnlinkOrder
<1>4. n \in Linked /\ n # ListHead /\ n \notin DOMAIN after /\ n \in Node
  <2>1. n \in Slot
    BY <1>1, <1>2 DEF WalkInv, Guest, ListOk
  <2>2. n \in Linked
    BY <1>1, <1>2 DEF Linked, Walks!Linked
  <2>. QED BY <2>1, <2>2, WalkAssumed DEF Walks!WalkAssumption, WalkInv, Guest, Node
<1>5. PICK t : t = To(n)
  OBVIOUS
<1>6. /\ DOMAIN after' = DOMAIN after \union {n} /\ after'[n] = t
      /\ \A m \in DOMAIN after : after'[m] = after[m]
  <2>1. \A m \in DOMAIN after : m \notin Linked
    BY DEF WalkInv, Guest
  <2>2. \A m \in DOMAIN after : To(m) = after[m]
    BY <2>1 DEF To, Walks!Next, Linked
  <2>. QED BY <1>1, <1>2, <1>4, <1>5, <2>2
<1>7. t \in Linked /\ t # n /\ t \in Linked' /\ \A b : Prec(b, t) <=> b = n \/ Prec(b, n)
  <2>1. t \in Linked /\ \A b : Prec(b, t) <=> b = n \/ Prec(b, n)
    BY <1>0, <1>4, <1>5, Behind1
  <2>2. t # n
    BY <2>1, <1>0, Order
  <2>. QED BY <1>3, <2>1, <2>2
<1>8. Guest'
  <2>1. IsFiniteSet(Linked')
    BY <1>3, FS_RemoveElement DEF WalkInv, Guest
  <2>2. DOMAIN after' \cap Linked' = {}
    BY <1>3, <1>6 DEF WalkInv, Guest
  <2>3. stayed' \subseteq Linked' /\ ever' \subseteq Linked' \union DOMAIN after'
    BY <1>1, <1>2, <1>3, <1>6 DEF WalkInv, Guest
  <2>4. walkpc' # "start" => ListHead \in stayed' /\ Linked' \subseteq ever'
    BY <1>1, <1>2, <1>3, <1>4 DEF WalkInv, Guest
  <2>5. walkpc' = "start" => reads' = [m \in Node |-> 0] /\ stayed' = {}
    BY <1>1 DEF WalkInv, Guest
  <2>. QED BY <1>1, <1>3, <2>1, <2>2, <2>3, <2>4, <2>5 DEF WalkInv, Guest
<1>9. (Once => Once') /\ (ReadAll => ReadAll')
  BY <1>1 DEF Once, ReadAll
\* The chain leads to another node.
<1>10. ASSUME NEW c, Chain(c), End(c) # n
       PROVE  /\ Chain(c)'
              /\ Outward(c) => Outward(c)'
              /\ Begun(c) => Begun(c)' \/ Lost(c)'
              /\ Near(c) => Near(c)' \/ Lost(c)'
              /\ Closing(c) => Closing(c)'
              /\ Lost(c) => Lost(c)'
  <2>1. End(c) \in Linked /\ End(c) \in Linked' /\ End(c)' = End(c)
    BY <1>3, <1>10 DEF Chain, End
  <2>2. Chain(c)'
    BY <1>1, <1>6, <1>10, <2>1 DEF Chain
  <2>3. Outward(c) => Outward(c)'
    BY <1>1, <1>2, <1>3, <2>1 DEF Outward, Unread
  <2>4. first = n => \A u \in 2 .. Len(c) : c[u] # first
    <3>1. \A u \in 1 .. Len(c) - 1 : c[u] # n
      BY <1>4, <1>10 DEF Chain
    <3>2. Len(c) \in Nat /\ \A u \in 2 .. Len(c) : u = Len(c) \/ u \in 1 .. Len(c) - 1
      BY <1>10 DEF Chain
    <3>. QED BY <1>10, <3>1, <3>2 DEF End
  <2>5. Begun(c) => Begun(c)' \/ Lost(c)'
    <3>1. CASE first = n
      BY <1>1, <1>6, <2>4, <3>1 DEF Lost
    <3>2. CASE first # n
      BY <1>1, <1>3, <2>1, <3>2 DEF Begun, Unread
    <3>. QED BY <3>1, <3>2
  <2>6. Near(c) => Near(c)' \/ Lost(c)'
    <3>1. CASE first = n
      BY <1>1, <1>6, <2>4, <3>1 DEF Lost
    <3>2. CASE first # n
      BY <1>1, <1>3, <2>1, <3>2 DEF Near, Unread
    <3>. QED BY <3>1, <3>2
  <2>7. (Closing(c) => Closing(c)') /\ (Lost(c) => Lost(c)')
    BY <1>1, <1>6 DEF Closing, Lost, Unread
  <2>. QED BY <2>2, <2>3, <2>5, <2>6, <2>7
\* The chain leads to n, and now beyond.
<1>11. ASSUME NEW c, Chain(c), End(c) = n, walkpc = "walk"
       PROVE  \E d : /\ Chain(d)'
                     /\ Outward(c) => Outward(d)'
                     /\ Begun(c) => Begun(d)' \/ Lost(d)'
                     /\ Near(c) => Near(d)' \/ Closing(d)'
                     /\ Closing(c) => Closing(d)'
                     /\ Lost(c) => Lost(d)'
  <2>1. PICK d : d = Append(c, t)
    OBVIOUS
  <2>2. PICK s : s = Len(c)
    OBVIOUS
  <2>3. /\ s \in Nat \ {0} /\ d \in Seq(Node) /\ Len(d) = s + 1 /\ d[s + 1] = t
        /\ \A u \in 1 .. s : d[u] = c[u]
        /\ c[s] = n
    BY <1>0, <1>7, <1>11, <2>1, <2>2, Longer DEF Chain, End
  <2>4. /\ \A u \in 1 .. s - 1 : c[u] \in DOMAIN after /\ after[c[u]] = c[u + 1]
        /\ \A u, v \in 1 .. s : c[u] = c[v] => u = v
        /\ c[1] = at /\ \A u \in 1 .. s : c[u] \in ever
    BY <1>11, <2>2 DEF Chain
  <2>5. \A u \in 1 .. s : c[u] # t
    <3>1. \A u \in 1 .. s - 1 : c[u] # t
      BY <1>7, <2>4 DEF WalkInv, Guest
    <3>2. \A u \in 1 .. s : u = s \/ u \in 1 .. s - 1
      BY <2>3
    <3>. QED BY <1>7, <2>3, <3>1, <3>2
  <2>6. End(d)' = t /\ End(c) = n /\ \A u \in 1 .. s + 1 : u = s + 1 \/ u \in 1 .. s
    BY <1>11, <2>3 DEF End
  <2>7. Chain(d)'
    <3>1. d \in Seq(Node) /\ d # <<>> /\ d[1] = at' /\ End(d)' \in Linked'
      BY <1>1, <1>7, <2>3, <2>4, <2>6
    <3>2. ASSUME NEW u \in 1 .. Len(d) - 1 PROVE d[u] \in DOMAIN after' /\ after'[d[u]] = d[u + 1]
      <4>1. u \in 1 .. s
        BY <2>3
      <4>2. CASE u = s
        BY <1>6, <2>3, <4>1, <4>2
      <4>3. CASE u # s
        <5>1. u \in 1 .. s - 1 /\ u + 1 \in 1 .. s
          BY <2>3, <4>1, <4>3
        <5>. QED BY <1>6, <2>3, <2>4, <4>1, <5>1
      <4>. QED BY <4>2, <4>3
    <3>3. ASSUME NEW u \in 1 .. Len(d), NEW v \in 1 .. Len(d), d[u] = d[v] PROVE u = v
      BY <2>3, <2>4, <2>5, <2>6, <3>3
    <3>4. t \in ever /\ ever' = ever
      BY <1>1, <1>7, <1>11 DEF WalkInv, Guest
    <3>5. \A u \in 1 .. Len(d) : d[u] \in ever'
      BY <2>3, <2>4, <2>6, <3>4
    <3>. QED BY <3>1, <3>2, <3>3, <3>5 DEF Chain
  <2>8. Outward(c) => Outward(d)'
    <3>. SUFFICES ASSUME Outward(c) PROVE Outward(d)'
      OBVIOUS
    <3>1. ~Prec(t, n) /\ ~Prec(n, n)
      BY <1>0, <1>7, Order
    <3>2. Unread(t)
      BY <1>7, <2>6, <3>1 DEF Outward
    <3>3. \A u \in 1 .. Len(d) : Unread(d[u])
      BY <2>2, <2>3, <2>6, <3>2 DEF Outward
    <3>4. \A m \in Linked' : Prec(m, t)' <=> Prec(m, n)
      BY <1>3, <1>7
    <3>5. \A m \in Linked' : IF Prec(m, t)' THEN m \in stayed' => reads[m] = 1 ELSE Unread(m)
      BY <1>1, <1>3, <2>6, <3>4 DEF Outward
    <3>. QED BY <1>1, <2>6, <3>3, <3>5 DEF Outward, Unread
  <2>9. Begun(c) => Begun(d)' \/ Lost(d)'
    <3>. SUFFICES ASSUME Begun(c) PROVE Begun(d)' \/ Lost(d)'
      OBVIOUS
    <3>1. CASE first = n
      <4>1. s = 1
        BY <2>2, <2>6, <3>1 DEF Begun
      <4>2. \A u \in 2 .. Len(d) : d[u] # first
        BY <1>7, <2>3, <3>1, <4>1
      <4>. QED BY <1>1, <1>6, <3>1, <4>2 DEF Lost
    <3>2. CASE first # n
      <4>1. first \in Linked' /\ ~Prec(t, first)' /\ t # first
        <5>1. first \in Linked' /\ ~Prec(n, first)
          BY <1>3, <2>6, <3>2 DEF Begun
        <5>2. Prec(first, n)
          BY <1>0, <1>3, <1>4, <3>2, <5>1, Order
        <5>3. Prec(first, t)
          BY <1>7, <5>2
        <5>. QED BY <1>0, <1>1, <1>3, <1>7, <5>1, <5>3, Order
      <4>. QED BY <1>1, <1>3, <2>6, <4>1 DEF Begun, Unread
    <3>. QED BY <3>1, <3>2
  <2>10. Near(c) => Near(d)' \/ Closing(d)'
    <3>. SUFFICES ASSUME Near(c) PROVE Near(d)' \/ Closing(d)'
      OBVIOUS
    <3>1. \A u \in 1 .. s - 1 : Unread(c[u])
      BY <2>2 DEF Near
    <3>2. CASE first = n
      <4>1. s > 1
        BY <2>2, <2>6, <3>2 DEF Near
      <4>2. s \in 2 .. Len(d) /\ d[s] = first /\ \A u \in 1 .. s - 1 : Unread(d[u])
        BY <2>3, <3>1, <3>2, <4>1
      <4>. QED BY <1>1, <1>6, <3>2, <4>2 DEF Closing, Unread
    <3>3. CASE first # n
      <4>1. first \in Linked /\ first \in Linked' /\ ~Prec(first, n) /\ Prec(n, first)
        BY <1>0, <1>3, <1>4, <2>6, <3>3, Order DEF Near
      <4>2. ~Prec(first, t)'
        BY <1>1, <1>3, <1>7, <3>3, <4>1
      <4>3. Len(d) > 1
        BY <2>3
      <4>4. ASSUME NEW m \in Linked', Prec(m, first)'
            PROVE  m \notin stayed' /\ (Prec(m, t)' \/ Unread(m))
        <5>1. m \in Linked /\ Prec(m, first) /\ (Prec(m, t)' <=> Prec(m, t))
          BY <1>1, <1>3, <1>7, <4>1, <4>4
        <5>2. m \notin stayed /\ (Prec(m, n) \/ Unread(m))
          BY <2>6, <5>1 DEF Near
        <5>. QED BY <1>1, <1>7, <5>1, <5>2
      <4>5. Unread(n)
        BY <1>0, <1>4, <2>6, <4>1, Order DEF Near
      <4>6. \A u \in 1 .. Len(d) - 1 : Unread(d[u])
        <5>1. \A u \in 1 .. Len(d) - 1 : u \in 1 .. s /\ (u = s \/ u \in 1 .. s - 1)
          BY <2>3
        <5>. QED BY <2>3, <3>1, <4>5, <5>1
      <4>. QED BY <1>1, <2>6, <4>1, <4>2, <4>3, <4>4, <4>6 DEF Near, Unread
    <3>. QED BY <3>2, <3>3
  <2>11. Closing(c) => Closing(d)'
    <3>. SUFFICES ASSUME Closing(c) PROVE Closing(d)'
      OBVIOUS
    <3>1. PICK m \in 2 .. s : c[m] = first /\ \A u \in 1 .. m - 1 : Unread(c[u])
      BY <2>2 DEF Closing
    <3>2. m \in 2 .. Len(d) /\ m \in 1 .. s /\ \A u \in 1 .. m - 1 : u \in 1 .. s
      BY <2>3
    <3>3. d[m] = first /\ \A u \in 1 .. m - 1 : Unread(d[u])
      BY <2>3, <3>1, <3>2
    <3>. QED BY <1>1, <1>6, <3>2, <3>3 DEF Closing, Unread
  <2>12. Lost(c) => Lost(d)'
    <3>. SUFFICES ASSUME Lost(c) PROVE Lost(d)'
      OBVIOUS
    <3>1. first # t
      BY <1>7 DEF Lost, WalkInv, Guest
    <3>2. ASSUME NEW u \in 2 .. Len(d) PROVE d[u] # first
      <4>1. u = s + 1 \/ (u \in 1 .. s /\ u \in 2 .. s)
        BY <2>3
      <4>. QED BY <2>2, <2>3, <3>1, <4>1 DEF Lost
    <3>. QED BY <1>1, <1>6, <3>2 DEF Lost
  <2>. QED BY <2>7, <2>8, <2>9, <2>10, <2>11, <2>12
<1>12. Walking'
  <2>. SUFFICES ASSUME walkpc = "walk"
                PROVE  \E c : Chain(c)' /\ IF prog = "modulelist" THEN Once' /\ Outward(c)' ELSE Circling(c)'
    BY <1>1 DEF Walking
  <2>1. PICK c : Chain(c) /\ IF prog = "modulelist" THEN Once /\ Outward(c) ELSE Circling(c)
    BY DEF WalkInv, Walking
  <2>2. CASE End(c) # n
    BY <1>9, <1>10, <2>1, <2>2 DEF Circling
  <2>3. CASE End(c) = n
    BY <1>9, <1>11, <2>1, <2>3 DEF Circling
  <2>. QED BY <2>2, <2>3
<1>13. Returned'
  BY <1>1, <1>9 DEF WalkInv, Returned, Unread
<1>. QED BY <1>8, <1>12, <1>13 DEF WalkInv

\* A walk begins behind the head with nothing read.
LEMMA BeginWalk == WalkInv /\ Walks!Begin => WalkInv'
<1>. SUFFICES ASSUME WalkInv, Walks!Begin PROVE WalkInv'
  OBVIOUS
<1>0. ListOk /\ ListHead \in Linked /\ Linked \subseteq Node
  BY Order, AtPlaces DEF WalkInv, Guest
<1>1. /\ walkpc = "start" /\ walkpc' = "walk" /\ at' = To(ListHead)
      /\ prog # "modulelist" => first' = To(ListHead)
      /\ stayed' = Linked /\ ever' = Linked /\ UNCHANGED <<prog, list, after, reads>>
  BY DEF Walks!Begin, Walks!guest, To, Linked
<1>2. PICK t : t = To(ListHead)
  OBVIOUS
<1>3. t \in Linked /\ \A b : ~Prec(b, t)
  BY <1>0, <1>2, Behind1
<1>4. ListOk' /\ Linked' = Linked /\ \A a, b : Prec(a, b)' <=> Prec(a, b)
  BY <1>0, <1>1 DEF ListOk, Linked, Walks!Linked, Prec, Ring
<1>5. \A m \in Node : reads[m] = 0
  BY <1>1 DEF WalkInv, Guest
<1>6. Guest'
  BY <1>0, <1>1, <1>4 DEF WalkInv, Guest
<1>7. PICK c : c = <<t>>
  OBVIOUS
<1>8. c \in Seq(Node) /\ Len(c) = 1 /\ c[1] = t /\ c # <<>>
  BY <1>0, <1>3, <1>7
<1>9. Chain(c)' /\ End(c)' = t
  BY <1>1, <1>2, <1>3, <1>4, <1>8 DEF Chain, End
<1>10. Outward(c)'
  BY <1>0, <1>1, <1>3, <1>4, <1>5, <1>8, <1>9 DEF Outward, Unread
<1>11. prog' # "modulelist" => Begun(c)'
  BY <1>0, <1>1, <1>2, <1>3, <1>4, <1>8, <1>9 DEF Begun
<1>12. Once'
  BY <1>1, <1>5 DEF Once
<1>13. Walking'
  BY <1>9, <1>10, <1>11, <1>12 DEF Walking, Circling
<1>14. Returned'
  BY <1>1 DEF Returned
<1>. QED BY <1>6, <1>13, <1>14 DEF WalkInv

-----------------------------------------------------------------------------
\* A node read and left for the next one: the guest does not move meanwhile.
Steps ==
  /\ walkpc = "walk" /\ at' = To(at) /\ reads' = [reads EXCEPT ![at] = IF @ = 0 THEN 1 ELSE 2]
  /\ UNCHANGED <<prog, list, after, first, stayed, ever>>

\* The guest's part of the invariant.
LEMMA StepGuest ==
  ASSUME Guest, Steps, at \in Node, walkpc' \in {"walk", "done"}
  PROVE  /\ Guest' /\ ListOk' /\ Linked' = Linked /\ (\A a, b : Prec(a, b)' <=> Prec(a, b))
         /\ \A m \in Node : m # at => reads'[m] = reads[m]
         /\ Unread(at) => reads'[at] = 1
<1>1. ListOk' /\ Linked' = Linked /\ (\A a, b : Prec(a, b)' <=> Prec(a, b))
  BY DEF Guest, Steps, ListOk, Linked, Walks!Linked, Prec, Ring
<1>2. reads' \in [Node -> 0 .. 2]
  BY DEF Guest, Steps
<1>3. /\ \A m \in Node : m # at => reads'[m] = reads[m]
      /\ Unread(at) => reads'[at] = 1
  BY DEF Guest, Steps, Unread
<1>4. Guest'
  BY <1>1, <1>2 DEF Guest, Steps
<1>. QED BY <1>1, <1>3, <1>4

\* What is read for the first time was there, and is then read once.
LEMMA StepOnce ==
  ASSUME Guest, Steps, at \in Node, at \in ever, Unread(at), walkpc' \in {"walk", "done"}, Once
  PROVE  Once'
BY StepGuest DEF Once, Steps

\* A node in hand that was unlinked leads to the rest of its chain.
LEMMA StepChain ==
  ASSUME Guest, Steps, walkpc' \in {"walk", "done"}, NEW c, Chain(c), Len(c) > 1
  PROVE  /\ Chain(Tail(c))' /\ End(Tail(c))' = End(c) /\ Len(Tail(c)) = Len(c) - 1
         /\ \A u \in 1 .. Len(c) - 1 : Tail(c)[u] = c[u + 1]
         /\ at \in DOMAIN after /\ at \notin Linked /\ at \in Node /\ at' = c[2]
<1>. PICK d, s : d = Tail(c) /\ s = Len(c)
  OBVIOUS
<1>0. c \in Seq(Node) /\ s \in Nat /\ s > 1
  BY DEF Chain
<1>1. /\ s \in Nat /\ s > 1 /\ c \in Seq(Node)
      /\ d \in Seq(Node) /\ Len(d) = s - 1 /\ d # <<>> /\ \A u \in 1 .. s - 1 : d[u] = c[u + 1]
  BY <1>0
<1>2. \A u \in 1 .. s - 1 : u \in 1 .. s /\ u + 1 \in 1 .. s
  BY <1>1
<1>3. 1 \in 1 .. s - 1 /\ 1 + 1 = 2 /\ s - 1 \in 1 .. s - 1 /\ (s - 1) + 1 = s
  BY <1>1
<1>4. at \in DOMAIN after /\ at \in Node /\ at \notin Linked /\ after[at] = c[2]
  BY <1>1, <1>3 DEF Chain, Guest
<1>5. at' = c[2]
  BY <1>4 DEF Steps, To, Walks!Next, Linked
<1>6. End(d)' = End(c) /\ End(c) \in Linked
  BY <1>1, <1>3 DEF End, Chain
<1>7. Chain(d)'
  <2>1. d[1] = at' /\ End(d)' \in Linked'
    BY <1>1, <1>3, <1>4, <1>5, <1>6, StepGuest
  <2>2. ASSUME NEW u \in 1 .. Len(d) - 1 PROVE d[u] \in DOMAIN after' /\ after'[d[u]] = d[u + 1]
    <3>1. u \in 1 .. s - 1 /\ u + 1 \in 1 .. s - 1
      BY <1>1
    <3>. QED BY <1>1, <3>1 DEF Steps, Chain
  <2>3. ASSUME NEW u \in 1 .. Len(d), NEW v \in 1 .. Len(d), d[u] = d[v] PROVE u = v
    <3>1. u \in 1 .. s - 1 /\ v \in 1 .. s - 1
      BY <1>1
    <3>2. c[u + 1] = c[v + 1]
      BY <1>1, <2>3, <3>1
    <3>3. u + 1 = v + 1
      BY <1>2, <3>1, <3>2 DEF Chain
    <3>. QED BY <3>1, <3>3
  <2>4. \A u \in 1 .. Len(d) : d[u] \in ever'
    BY <1>1, <1>2 DEF Steps, Chain
  <2>. QED BY <1>1, <2>1, <2>2, <2>3, <2>4 DEF Chain
<1>. QED BY <1>1, <1>4, <1>5, <1>6, <1>7

\* A node in hand that is linked leads to a node that is.
LEMMA StepLinked ==
  ASSUME Guest, Steps, walkpc' \in {"walk", "done"}, NEW c, Chain(c), Len(c) = 1
  PROVE  /\ at = End(c) /\ at \in Linked /\ at \in Node /\ at' \in Linked
         /\ at # ListHead => \A b : Prec(b, at') <=> b = at \/ Prec(b, at)
         /\ at = ListHead => \A b : ~Prec(b, at')
         /\ \E d : Chain(d)' /\ End(d)' = at' /\ Len(d) = 1 /\ d[1] = at'
<1>1. at = End(c) /\ at \in Linked /\ at \in Node
  BY DEF Chain, End
<1>2. /\ at' \in Linked
      /\ at # ListHead => \A b : Prec(b, at') <=> b = at \/ Prec(b, at)
      /\ at = ListHead => \A b : ~Prec(b, at')
  BY <1>1, Behind1 DEF Guest, Steps
<1>3. PICK d : d = <<at'>>
  OBVIOUS
<1>4. at' \in Node
  BY <1>2, AtPlaces DEF Guest
<1>5. d \in Seq(Node) /\ Len(d) = 1 /\ d[1] = at' /\ d # <<>>
  BY <1>3, <1>4
<1>6. End(d)' = at' /\ at' \in Linked'
  BY <1>1, <1>2, <1>5, StepGuest DEF End
<1>7. Chain(d)'
  <2>1. at' \in ever'
    BY <1>2 DEF Guest, Steps
  <2>. QED BY <1>5, <1>6, <2>1 DEF Chain
<1>. QED BY <1>1, <1>2, <1>5, <1>6, <1>7

\* The node in hand is there, and is now read.
LEMMA StepHand ==
  ASSUME Guest, Steps, walkpc' \in {"walk", "done"}, NEW c, Chain(c)
  PROVE  /\ Len(c) \in Nat \ {0} /\ c[1] = at /\ at \in Node /\ at \in ever
         /\ Once /\ Unread(at) => Once'
         /\ Len(c) = 1 \/ Len(c) > 1
<1>1. Len(c) \in Nat \ {0} /\ 1 \in 1 .. Len(c) /\ c[1] = at /\ at \in Node /\ at \in ever
  BY DEF Chain
<1>2. Len(c) = 1 \/ Len(c) > 1
  <2>1. PICK s : s = Len(c)
    OBVIOUS
  <2>2. s \in Nat \ {0}
    BY <1>1, <2>1
  <2>3. s = 1 \/ s > 1
    BY <2>2
  <2>. QED BY <2>1, <2>3
<1>3. Once /\ Unread(at) => Once'
  BY <1>1, StepOnce
<1>. QED BY <1>1, <1>2, <1>3

\* A walk to the head reads what stayed as it comes to it.
LEMMA StepOutward ==
  ASSUME Guest, Steps, walkpc' \in {"walk", "done"}, NEW c, Chain(c), Once, Outward(c),
         at # ListHead
  PROVE  /\ Once'
         /\ \E d : /\ Chain(d)' /\ Outward(d)'
                   /\ Begun(c) => Begun(d)' /\ at' # first
<1>0. UNCHANGED <<first, stayed, after>>
  BY DEF Steps
<1>1. Unread(at) /\ Once'
  <2>1. Unread(at)
    BY StepHand DEF Outward
  <2>. QED BY <2>1, StepHand
<1>2. /\ Linked' = Linked /\ (\A a, b : Prec(a, b)' <=> Prec(a, b)) /\ Linked \subseteq Node
      /\ \A m \in Node : m # at => reads'[m] = reads[m]
      /\ reads'[at] = 1
  BY <1>1, StepHand, StepGuest, AtPlaces DEF Guest
<1>3. CASE Len(c) > 1
  <2>. PICK d : d = Tail(c)
    OBVIOUS
  <2>1. /\ Chain(d)' /\ End(d)' = End(c) /\ Len(d) = Len(c) - 1
        /\ \A u \in 1 .. Len(c) - 1 : d[u] = c[u + 1]
        /\ at \notin Linked /\ at' = c[2]
    BY <1>3, StepChain
  <2>2. \A u \in 1 .. Len(d) : d[u] \in Node /\ d[u] # at /\ Unread(d[u])
    <3>1. \A u \in 1 .. Len(d) : u + 1 \in 1 .. Len(c) /\ u + 1 # 1 /\ d[u] = c[u + 1]
      BY <2>1, StepHand
    <3>2. 1 \in 1 .. Len(c) /\ c[1] = at
      BY StepHand
    <3>. QED BY <3>1, <3>2 DEF Outward, Chain
  <2>3. Outward(d)'
    <3>1. \A u \in 1 .. Len(d) : reads'[d[u]] = 0
      BY <1>2, <2>2 DEF Unread
    <3>2. ASSUME NEW m \in Linked'
          PROVE  IF Prec(m, End(c))' THEN m \in stayed' => reads'[m] = 1 ELSE reads'[m] = 0
      <4>1. m \in Linked /\ m # at /\ reads'[m] = reads[m]
        BY <1>2, <2>1
      <4>. QED BY <1>0, <1>2, <4>1 DEF Outward, Unread
    <3>. QED BY <2>1, <3>1, <3>2 DEF Outward, Unread
  <2>4. Begun(c) => Begun(d)' /\ at' # first
    <3>. SUFFICES ASSUME Begun(c) PROVE Begun(d)' /\ at' # first
      OBVIOUS
    <3>1. first \in Linked /\ End(c) # first
      BY <1>3 DEF Begun
    <3>2. at' # first
      <4>1. CASE Len(c) = 2
        BY <2>1, <3>1, <4>1 DEF End
      <4>2. CASE Len(c) # 2
        <5>1. 2 \in 1 .. Len(c) - 1
          <6>1. PICK s : s = Len(c)
            OBVIOUS
          <6>2. s \in Nat /\ s > 1 /\ s # 2
            BY <1>3, <4>2, <6>1, StepHand
          <6>3. 2 \in 1 .. s - 1
            BY <6>2
          <6>. QED BY <6>1, <6>3
        <5>. QED BY <2>1, <3>1, <5>1 DEF Chain, Guest
      <4>. QED BY <4>1, <4>2
    <3>3. ASSUME NEW m \in Linked', Prec(m, first)' PROVE reads'[m] = 0
      <4>1. m \in Linked /\ m # at /\ reads'[m] = reads[m]
        BY <1>2, <2>1
      <4>. QED BY <1>0, <1>2, <3>3, <4>1 DEF Begun, Unread
    <3>. QED BY <1>0, <1>2, <2>1, <3>1, <3>2, <3>3 DEF Begun, Unread
  <2>. QED BY <1>1, <2>1, <2>3, <2>4
<1>4. CASE Len(c) = 1
  <2>1. /\ at = End(c) /\ at \in Linked /\ at' \in Linked /\ \A b : Prec(b, at') <=> b = at \/ Prec(b, at)
    BY <1>4, StepLinked
  <2>2. PICK d : Chain(d)' /\ End(d)' = at' /\ Len(d) = 1 /\ d[1] = at'
    BY <1>4, StepLinked
  <2>3. at' # at /\ ~Prec(at', at) /\ ~Prec(at, at) /\ Prec(at, at')
    BY <2>1, Order DEF Guest
  <2>4. Outward(d)'
    <3>1. \A u \in 1 .. Len(d) : d[u] = at'
      BY <2>2
    <3>2. reads'[at'] = 0
      BY <1>2, <2>1, <2>3 DEF Outward, Unread
    <3>3. ASSUME NEW m \in Linked
          PROVE  IF Prec(m, at') THEN m \in stayed => reads'[m] = 1 ELSE reads'[m] = 0
      <4>1. CASE m = at
        BY <1>2, <2>3, <4>1
      <4>2. CASE m # at
        BY <1>2, <2>1, <4>2 DEF Outward, Unread
      <4>. QED BY <4>1, <4>2
    <3>4. ASSUME NEW m \in Linked PROVE Prec(m, at') <=> Prec(m, End(d))'
      BY <1>2, <2>2
    <3>. QED BY <1>0, <1>2, <2>2, <3>1, <3>2, <3>3, <3>4 DEF Outward, Unread
  <2>5. Begun(c) => Begun(d)' /\ at' # first
    <3>. SUFFICES ASSUME Begun(c) PROVE Begun(d)' /\ at' # first
      OBVIOUS
    <3>1. first \in Linked /\ ~Prec(at, first) /\ \A m \in Linked : Prec(m, first) => Unread(m)
      BY <2>1 DEF Begun
    <3>2. at' # first /\ ~Prec(at', first)
      BY <2>3, <3>1, Order DEF Guest
    <3>3. ASSUME NEW m \in Linked', Prec(m, first)' PROVE reads'[m] = 0
      BY <1>0, <1>2, <3>1, <3>3 DEF Unread
    <3>4. ~Prec(End(d), first)'
      BY <1>0, <1>2, <2>2, <3>2
    <3>. QED BY <1>0, <1>2, <2>2, <3>1, <3>2, <3>3, <3>4 DEF Begun, Unread
  <2>. QED BY <1>1, <2>2, <2>4, <2>5
<1>. QED BY <1>3, <1>4, StepHand

\* At the head everything that stayed has been read once.
LEMMA StepHome ==
  ASSUME Guest, Steps, walkpc' \in {"walk", "done"}, NEW c, Chain(c), Once, Outward(c), Begun(c),
         at = ListHead
  PROVE  Once' /\ ReadAll' /\ (at' # first => \E d : Chain(d)' /\ Near(d)')
<1>0. UNCHANGED <<first, stayed, after>> /\ ListHead \in Linked /\ stayed \subseteq Linked
  BY Order DEF Steps, Guest
<1>1. Unread(at) /\ Once'
  <2>1. Unread(at)
    BY StepHand DEF Outward
  <2>. QED BY <2>1, StepHand
<1>2. /\ Linked' = Linked /\ (\A a, b : Prec(a, b)' <=> Prec(a, b)) /\ Linked \subseteq Node
      /\ \A m \in Node : m # at => reads'[m] = reads[m]
      /\ reads'[at] = 1
  BY <1>1, StepHand, StepGuest, AtPlaces DEF Guest
<1>3. Len(c) = 1
  BY <1>0, StepHand, StepChain
<1>4. /\ at = End(c) /\ at' \in Linked /\ \A b : ~Prec(b, at')
  BY <1>3, StepLinked
<1>5. \A m \in Linked : m # ListHead => Prec(m, ListHead)
  BY <1>0, Order DEF Guest
<1>6. \A m \in stayed : m # ListHead => reads[m] = 1
  BY <1>0, <1>4, <1>5 DEF Outward
<1>7. ReadAll'
  BY <1>0, <1>2, <1>6 DEF ReadAll
<1>8. ASSUME at' # first PROVE \E d : Chain(d)' /\ Near(d)'
  <2>1. PICK d : Chain(d)' /\ End(d)' = at' /\ Len(d) = 1
    BY <1>3, StepLinked
  <2>2. first \in Linked' /\ ~Prec(first, End(d))' /\ End(d)' # first'
    BY <1>0, <1>2, <1>4, <1>8, <2>1 DEF Begun
  <2>3. ASSUME NEW m \in Linked', Prec(m, first)'
        PROVE  m \notin stayed' /\ reads'[m] = 0
    <3>1. m \in Linked /\ Prec(m, first) /\ m # ListHead
      BY <1>0, <1>2, <2>3, Order DEF Guest
    <3>2. reads[m] = 0 /\ reads'[m] = reads[m]
      BY <1>2, <3>1 DEF Begun, Unread
    <3>. QED BY <1>0, <1>6, <3>1, <3>2
  <2>4. \A u \in 1 .. Len(d) - 1 : FALSE
    BY <2>1
  <2>5. Near(d)'
    BY <1>0, <2>2, <2>3, <2>4 DEF Near, Unread
  <2>. QED BY <2>1, <2>5
<1>. QED BY <1>1, <1>7, <1>8

\* Beyond the head the walk reads only what did not stay.
LEMMA StepNear ==
  ASSUME Guest, Steps, walkpc' \in {"walk", "done"}, NEW c, Chain(c), Once, ReadAll, Near(c)
  PROVE  Once' /\ ReadAll' /\ (at' # first => \E d : Chain(d)' /\ Near(d)')
<1>0. UNCHANGED <<first, stayed, after>> /\ stayed \subseteq Linked
  BY DEF Steps, Guest
<1>1. Unread(at) /\ at \notin stayed
  <2>1. CASE Len(c) > 1
    <3>1. 1 \in 1 .. Len(c) - 1 /\ c[1] = at
      BY <2>1, StepHand
    <3>2. at \notin Linked
      BY <2>1, StepChain
    <3>. QED BY <1>0, <3>1, <3>2 DEF Near
  <2>2. CASE Len(c) = 1
    <3>1. at = End(c) /\ at \in Linked /\ at # first /\ first \in Linked /\ ~Prec(first, at)
      BY <2>2, StepLinked DEF Near
    <3>2. Prec(at, first) /\ ~Prec(at, at)
      BY <3>1, Order DEF Guest
    <3>. QED BY <3>1, <3>2 DEF Near
  <2>. QED BY <2>1, <2>2, StepHand
<1>2. /\ Linked' = Linked /\ (\A a, b : Prec(a, b)' <=> Prec(a, b)) /\ Linked \subseteq Node
      /\ \A m \in Node : m # at => reads'[m] = reads[m]
  BY StepHand, StepGuest, AtPlaces DEF Guest
<1>3. Once' /\ ReadAll'
  <2>1. Once'
    BY <1>1, StepHand
  <2>2. ReadAll'
    BY <1>0, <1>1, <1>2 DEF ReadAll
  <2>. QED BY <2>1, <2>2
<1>4. ASSUME at' # first, Len(c) > 1 PROVE \E d : Chain(d)' /\ Near(d)'
  <2>. PICK d : d = Tail(c)
    OBVIOUS
  <2>1. /\ Chain(d)' /\ End(d)' = End(c) /\ Len(d) = Len(c) - 1
        /\ \A u \in 1 .. Len(c) - 1 : d[u] = c[u + 1]
        /\ at \notin Linked /\ at' = c[2]
    BY <1>4, StepChain
  <2>2. \A u \in 1 .. Len(d) - 1 : d[u] \in Node /\ d[u] # at /\ Unread(d[u])
    <3>0. Len(c) \in Nat
      BY StepHand
    <3>1. \A u \in 1 .. Len(d) - 1 : u + 1 \in 1 .. Len(c) /\ u + 1 \in 1 .. Len(c) - 1 /\ u + 1 # 1 /\ d[u] = c[u + 1]
      BY <2>1, <3>0
    <3>2. 1 \in 1 .. Len(c) /\ c[1] = at
      BY StepHand
    <3>. QED BY <3>1, <3>2 DEF Near, Chain
  <2>3. first \in Linked' /\ ~Prec(first, End(d))' /\ (End(d)' = first' => Len(d) > 1)
    <3>1. first \in Linked /\ ~Prec(first, End(c))
      BY DEF Near
    <3>2. ASSUME Len(d) = 1 PROVE End(d) # first
      <4>1. Len(c) = 2
        BY <2>1, <3>2, StepHand
      <4>. QED BY <1>4, <2>1, <4>1 DEF End
    <3>3. Len(d) = 1 \/ Len(d) > 1
      <4>1. PICK s : s = Len(c)
        OBVIOUS
      <4>2. s \in Nat /\ s > 1 /\ Len(d) = s - 1
        BY <1>4, <2>1, <4>1, StepHand
      <4>3. s - 1 = 1 \/ s - 1 > 1
        BY <4>2
      <4>. QED BY <4>2, <4>3
    <3>. QED BY <1>0, <1>2, <2>1, <3>1, <3>2, <3>3 DEF End
  <2>4. ASSUME NEW m \in Linked', Prec(m, first)'
        PROVE  m \notin stayed' /\ (Prec(m, End(d))' \/ reads'[m] = 0)
    <3>1. m \in Linked /\ Prec(m, first) /\ m # at /\ reads'[m] = reads[m]
      BY <1>0, <1>2, <2>1, <2>4
    <3>. QED BY <1>0, <1>2, <2>1, <3>1 DEF Near, Unread
  <2>5. \A u \in 1 .. Len(d) - 1 : reads'[d[u]] = 0
    BY <1>2, <2>2 DEF Unread
  <2>6. Near(d)'
    BY <1>0, <2>3, <2>4, <2>5 DEF Near, Unread
  <2>. QED BY <2>1, <2>6
<1>5. ASSUME at' # first, Len(c) = 1 PROVE \E d : Chain(d)' /\ Near(d)'
  <2>1. at = End(c) /\ at \in Linked /\ at # first /\ first \in Linked /\ ~Prec(first, at)
    BY <1>5, StepLinked DEF Near
  <2>2. at # ListHead
    BY <2>1, Order DEF Guest
  <2>3. \A b : Prec(b, at') <=> b = at \/ Prec(b, at)
    BY <1>5, <2>2, StepLinked
  <2>4. PICK d : Chain(d)' /\ End(d)' = at' /\ Len(d) = 1
    BY <1>5, StepLinked
  <2>5. first \in Linked' /\ ~Prec(first, End(d))' /\ End(d)' # first'
    BY <1>0, <1>2, <1>5, <2>1, <2>3, <2>4
  <2>6. ASSUME NEW m \in Linked', Prec(m, first)'
        PROVE  m \notin stayed' /\ (Prec(m, End(d))' \/ reads'[m] = 0)
    <3>1. m \in Linked /\ Prec(m, first) /\ m \notin stayed
      BY <1>0, <1>2, <2>6 DEF Near
    <3>2. Prec(m, End(d))' <=> m = at \/ Prec(m, at)
      BY <1>2, <2>3, <2>4
    <3>. QED BY <1>0, <1>2, <2>1, <3>1, <3>2 DEF Near, Unread
  <2>7. \A u \in 1 .. Len(d) - 1 : FALSE
    BY <2>4
  <2>8. Near(d)'
    BY <1>0, <2>5, <2>6, <2>7 DEF Near, Unread
  <2>. QED BY <2>4, <2>8
<1>. QED BY <1>3, <1>4, <1>5, StepHand

\* The same with first unlinked ahead.
LEMMA StepClosing ==
  ASSUME Guest, Steps, walkpc' \in {"walk", "done"}, NEW c, Chain(c), Once, ReadAll, Closing(c)
  PROVE  Once' /\ ReadAll' /\ (at' # first => \E d : Chain(d)' /\ Closing(d)')
<1>0. UNCHANGED <<first, stayed, after>> /\ stayed \subseteq Linked /\ Len(c) \in Nat \ {0} /\ c[1] = at
  BY StepHand DEF Steps, Guest
<1>1. PICK m \in 2 .. Len(c) : c[m] = first /\ \A u \in 1 .. m - 1 : Unread(c[u])
  BY DEF Closing
<1>2. Len(c) > 1 /\ 1 \in 1 .. m - 1
  BY <1>0, <1>1
<1>. PICK d : d = Tail(c)
  OBVIOUS
<1>3. /\ Chain(d)' /\ Len(d) = Len(c) - 1
      /\ \A u \in 1 .. Len(c) - 1 : d[u] = c[u + 1]
      /\ at \notin Linked /\ at' = c[2]
  BY <1>2, StepChain
<1>4. Unread(at) /\ at \notin stayed
  BY <1>0, <1>1, <1>2, <1>3
<1>5. /\ \A a \in Node : a # at => reads'[a] = reads[a]
      /\ Linked \subseteq Node
  BY StepHand, StepGuest, AtPlaces DEF Guest
<1>6. Once'
  BY <1>4, StepHand
<1>7. ReadAll'
  BY <1>0, <1>4, <1>5 DEF ReadAll
<1>8. ASSUME at' # first PROVE Closing(d)'
  <2>1. m # 2
    BY <1>1, <1>3, <1>8
  <2>2. m - 1 \in 2 .. Len(d) /\ m - 1 \in 1 .. Len(c) - 1 /\ (m - 1) + 1 = m
    BY <1>0, <1>1, <1>3, <2>1
  <2>3. d[m - 1] = first
    BY <1>1, <1>3, <2>2
  <2>4. ASSUME NEW u \in 1 .. (m - 1) - 1 PROVE reads'[d[u]] = 0
    <3>1. u \in 1 .. Len(c) - 1 /\ u + 1 \in 1 .. m - 1 /\ u + 1 \in 1 .. Len(c) /\ u + 1 # 1 /\ 1 \in 1 .. Len(c)
      BY <1>0, <1>1
    <3>2. d[u] = c[u + 1] /\ c[u + 1] # at /\ c[u + 1] \in Node
      BY <1>0, <1>3, <3>1 DEF Chain
    <3>. QED BY <1>1, <1>5, <3>1, <3>2 DEF Unread
  <2>. QED BY <1>0, <2>2, <2>3, <2>4 DEF Closing, Unread
<1>. QED BY <1>3, <1>6, <1>7, <1>8

\* A first that was unlinked behind the walk is not met again.
LEMMA StepLost ==
  ASSUME Guest, Steps, walkpc' \in {"walk", "done"}, NEW c, Chain(c), Lost(c)
  PROVE  at' # first /\ \E d : Chain(d)' /\ Lost(d)'
<1>0. UNCHANGED <<first, after>> /\ Len(c) \in Nat \ {0} /\ c[1] = at
  BY StepHand DEF Steps
<1>1. CASE Len(c) > 1
  <2>. PICK d : d = Tail(c)
    OBVIOUS
  <2>1. /\ Chain(d)' /\ Len(d) = Len(c) - 1
        /\ \A u \in 1 .. Len(c) - 1 : d[u] = c[u + 1] /\ at' = c[2]
    BY <1>1, StepChain
  <2>2. at' # first
    <3>1. 2 \in 2 .. Len(c) /\ 1 \in 1 .. Len(c) - 1
      BY <1>0, <1>1
    <3>. QED BY <2>1, <3>1 DEF Lost
  <2>3. ASSUME NEW u \in 2 .. Len(d) PROVE d[u] # first
    <3>1. u \in 1 .. Len(c) - 1 /\ u + 1 \in 2 .. Len(c)
      BY <1>0, <2>1
    <3>. QED BY <2>1, <3>1 DEF Lost
  <2>4. Lost(d)'
    BY <1>0, <2>3 DEF Lost
  <2>. QED BY <2>1, <2>2, <2>4
<1>2. CASE Len(c) = 1
  <2>1. PICK d : Chain(d)' /\ Len(d) = 1
    BY <1>2, StepLinked
  <2>2. at' \in Linked
    BY <1>2, StepLinked
  <2>3. at' # first /\ \A u \in 2 .. Len(d) : FALSE
    BY <2>1, <2>2 DEF Lost, Guest
  <2>4. Lost(d)'
    BY <1>0, <2>3 DEF Lost
  <2>. QED BY <2>1, <2>3, <2>4
<1>. QED BY <1>1, <1>2, StepHand

\* What Walk does, told of the walks that read on to first and of modulelist.
LEMMA WalkSteps ==
  ASSUME Walks!Walk
  PROVE  /\ walkpc = "walk"
         /\ prog # "modulelist" => Steps /\ walkpc' = IF at' = first THEN "done" ELSE "walk"
         /\ prog = "modulelist" /\ at # ListHead => Steps /\ walkpc' = walkpc
         /\ prog = "modulelist" /\ at = ListHead =>
              walkpc' = "done" /\ UNCHANGED <<prog, list, after, first, at, reads, stayed, ever>>
<1>1. CASE prog # "modulelist"
  <2>1. Walks!ToFirst
    BY <1>1 DEF Walks!Walk, Walks!processes, Walks!printps, Walks!processelist, Walks!get_vm_port_list,
         Walks!modules, Walks!modulelist
  <2>. QED BY <1>1, <2>1 DEF Walks!ToFirst, Walks!Read, Walks!guest, Steps, To
<1>2. CASE prog = "modulelist"
  <2>1. Walks!modulelist
    BY <1>2 DEF Walks!Walk, Walks!processes, Walks!printps, Walks!processelist, Walks!get_vm_port_list,
         Walks!modules
  <2>. QED BY <1>2, <2>1 DEF Walks!modulelist, Walks!Read, Walks!guest, Steps, To
<1>. QED BY <1>1, <1>2

\* A step of a walk that reads on to first: out to the head, home, and on to first.
LEMMA CircleWalk ==
  ASSUME WalkInv, walkpc = "walk", prog # "modulelist", Steps,
         walkpc' = IF at' = first THEN "done" ELSE "walk"
  PROVE  WalkInv'
<1>1. Guest /\ walkpc' \in {"walk", "done"} /\ prog' = prog /\ first' = first
  BY DEF WalkInv, Steps
<1>2. PICK c : Chain(c) /\ Circling(c)
  BY DEF WalkInv, Walking
<1>3. Guest'
  BY <1>1, <1>2, StepHand, StepGuest
<1>4. /\ at' # first => \E d : Chain(d)' /\ Circling(d)'
      /\ at' = first => Once' /\ ReadAll'
  <2>1. CASE Once /\ Outward(c) /\ Begun(c) /\ at # ListHead
    <3>1. Once' /\ at' # first /\ \E d : Chain(d)' /\ Outward(d)' /\ Begun(d)'
      BY <1>1, <1>2, <2>1, StepOutward
    <3>. QED BY <3>1 DEF Circling
  <2>2. CASE Once /\ Outward(c) /\ Begun(c) /\ at = ListHead
    <3>1. Once' /\ ReadAll' /\ (at' # first => \E d : Chain(d)' /\ Near(d)')
      BY <1>1, <1>2, <2>2, StepHome
    <3>. QED BY <3>1 DEF Circling
  <2>3. CASE Once /\ ReadAll /\ Near(c)
    <3>1. Once' /\ ReadAll' /\ (at' # first => \E d : Chain(d)' /\ Near(d)')
      BY <1>1, <1>2, <2>3, StepNear
    <3>. QED BY <3>1 DEF Circling
  <2>4. CASE Once /\ ReadAll /\ Closing(c)
    <3>1. Once' /\ ReadAll' /\ (at' # first => \E d : Chain(d)' /\ Closing(d)')
      BY <1>1, <1>2, <2>4, StepClosing
    <3>. QED BY <3>1 DEF Circling
  <2>5. CASE Lost(c)
    <3>1. at' # first /\ \E d : Chain(d)' /\ Lost(d)'
      BY <1>1, <1>2, <2>5, StepLost
    <3>. QED BY <3>1 DEF Circling
  <2>. QED BY <1>2, <2>1, <2>2, <2>3, <2>4, <2>5 DEF Circling
<1>5. Walking'
  BY <1>1, <1>4 DEF Walking
<1>6. Returned'
  BY <1>1, <1>4 DEF Returned
<1>. QED BY <1>3, <1>5, <1>6 DEF WalkInv

\* A step of modulelist: it ends before it reads the head.
LEMMA HeadWalk ==
  ASSUME WalkInv, walkpc = "walk", prog = "modulelist",
         \/ at # ListHead /\ Steps /\ walkpc' = walkpc
         \/ /\ at = ListHead /\ walkpc' = "done"
            /\ UNCHANGED <<prog, list, after, first, at, reads, stayed, ever>>
  PROVE  WalkInv'
<1>1. Guest /\ prog' = prog
  BY DEF WalkInv, Steps
<1>2. PICK c : Chain(c) /\ Once /\ Outward(c)
  BY DEF WalkInv, Walking
<1>3. CASE at # ListHead
  <2>1. Steps /\ walkpc' = "walk"
    BY <1>3
  <2>2. Guest'
    BY <1>1, <1>2, <2>1, StepHand, StepGuest
  <2>3. Once' /\ \E d : Chain(d)' /\ Outward(d)'
    BY <1>1, <1>2, <1>3, <2>1, StepOutward
  <2>4. Walking' /\ Returned'
    BY <1>1, <2>1, <2>3 DEF Walking, Returned
  <2>. QED BY <2>2, <2>4 DEF WalkInv
<1>4. CASE at = ListHead
  <2>1. walkpc' = "done" /\ UNCHANGED <<prog, list, after, first, at, reads, stayed, ever>>
    BY <1>4
  <2>2. ListOk' /\ Linked' = Linked
    BY <1>1, <2>1 DEF Guest, ListOk, Linked, Walks!Linked
  <2>3. Guest'
    BY <1>1, <2>1, <2>2 DEF Guest
  <2>4. Len(c) \in Nat /\ 1 \in 1 .. Len(c) /\ c[1] = ListHead /\ ListHead \in Linked
    BY <1>1, <1>2, <1>4, Order DEF Chain, Guest
  <2>5. Len(c) = 1
    <3>1. PICK s : s = Len(c)
      OBVIOUS
    <3>2. s \in Nat /\ 1 \in 1 .. s
      BY <2>4, <3>1
    <3>3. s > 1 => 1 \in 1 .. s - 1
      BY <3>2
    <3>4. ~(s > 1)
      BY <1>1, <1>2, <2>4, <3>1, <3>3 DEF Chain, Guest
    <3>. QED BY <3>1, <3>2, <3>4
  <2>6. Unread(ListHead) /\ End(c) = ListHead
    BY <1>2, <2>4, <2>5 DEF Outward, End
  <2>7. ASSUME NEW m \in stayed \ {ListHead} PROVE reads[m] = 1
    <3>1. m \in Linked /\ Prec(m, ListHead)
      BY <1>1, <2>4, Order DEF Guest
    <3>. QED BY <1>2, <2>6, <3>1 DEF Outward
  <2>8. Once'
    BY <1>2, <2>1 DEF Once
  <2>9. Returned' /\ Walking'
    BY <1>1, <2>1, <2>6, <2>7, <2>8 DEF Returned, Walking, Unread
  <2>. QED BY <2>3, <2>9 DEF WalkInv
<1>. QED BY <1>3, <1>4

\* The invariant is kept by every step, and by those of the other algorithms.
LEMMA NextWalk == WalkInv /\ (Walks!Step \/ UNCHANGED Walks!vars) => WalkInv'
<1>. SUFFICES ASSUME WalkInv, Walks!Step \/ UNCHANGED Walks!vars PROVE WalkInv'
  OBVIOUS
<1>1. CASE Walks!Walk
  <2>1. CASE prog # "modulelist"
    BY <1>1, <2>1, WalkSteps, CircleWalk
  <2>2. CASE prog = "modulelist"
    BY <1>1, <2>2, WalkSteps, HeadWalk
  <2>. QED BY <2>1, <2>2
<1>2. CASE UNCHANGED Walks!vars
  <2>1. UNCHANGED <<prog, list, after, walkpc, first, at, reads, stayed, ever>>
    BY <1>2 DEF Walks!vars
  <2>2. ListOk' = ListOk /\ Linked' = Linked /\ (\A a, b : Prec(a, b)' <=> Prec(a, b))
    BY <2>1 DEF ListOk, Linked, Walks!Linked, Prec, Ring
  <2>3. Guest' /\ Returned'
    BY <2>1, <2>2 DEF WalkInv, Guest, Returned, Once, ReadAll, Unread
  <2>4. Walking'
    <3>1. Walking
      BY DEF WalkInv
    <3>. QED BY <2>1, <2>2, <3>1 DEF Walking, Circling, Chain, End, Outward, Begun, Near, Closing, Lost, Once, ReadAll, Unread
  <2>. QED BY <2>3, <2>4 DEF WalkInv
<1>. QED BY <1>1, <1>2, LinkWalk, UnlinkWalk, BeginWalk DEF Walks!Step

\* What is read once at the end is in between what stayed and what was ever there.
LEMMA InBounds == WalkInv => WalkReadsStayers
<1>. SUFFICES ASSUME WalkInv, walkpc = "done" PROVE WalkReadsStayers
  BY DEF WalkReadsStayers, Walks!StayersReadOnce, Walks!CountInBounds
<1>0. \A X : Walks!Cardinality(X) = Cardinality(X)
  BY DEF Walks!Cardinality, Cardinality
<1>1. Once /\ Guest /\ DOMAIN reads = Node
  BY DEF WalkInv, Returned, Guest
<1>2. Walks!StayersReadOnce
  BY DEF WalkInv, Returned, ReadAll, Walks!StayersReadOnce
<1>3. Walks!ReadMore(1) = {}
  <2>1. ASSUME NEW m \in Node PROVE ~(reads[m] > 1)
    <3>1. PICK x : x = reads[m]
      OBVIOUS
    <3>2. x \in 0 .. 2 /\ x <= 1
      BY <1>1, <3>1 DEF Guest, Once
    <3>. QED BY <3>1, <3>2
  <2>. QED BY <1>1, <2>1 DEF Walks!ReadMore
<1>. DEFINE R == Walks!ReadMore(0)
<1>4. \A m : m \in R <=> m \in Node /\ reads[m] = 1
  <2>1. ASSUME NEW m \in Node PROVE reads[m] > 0 <=> reads[m] = 1
    <3>1. PICK x : x = reads[m]
      OBVIOUS
    <3>2. x \in 0 .. 2 /\ x <= 1
      BY <1>1, <3>1 DEF Guest, Once
    <3>3. x > 0 <=> x = 1
      BY <3>2
    <3>. QED BY <3>1, <3>3
  <2>. QED BY <1>1, <2>1 DEF Walks!ReadMore
<1>. HIDE DEF R
<1>5. R \subseteq ever /\ IsFiniteSet(ever) /\ stayed \subseteq Linked /\ Linked \subseteq Node
  BY <1>1, <1>4, AtPlaces DEF Once, Guest
<1>6. \A m \in stayed \ {ListHead} : m \in R
  BY <1>4, <1>5 DEF WalkInv, Returned, ReadAll
<1>. DEFINE S == stayed \ {ListHead}
            E == ever \ {ListHead}
            H == R \ {ListHead}
<1>7. S \subseteq H /\ H \subseteq E
  BY <1>5, <1>6
<1>8. IsFiniteSet(E) /\ IsFiniteSet(H) /\ IsFiniteSet(S) /\ IsFiniteSet(R)
      /\ Cardinality(S) <= Cardinality(H) /\ Cardinality(H) <= Cardinality(E)
      /\ Cardinality(S) \in Nat /\ Cardinality(H) \in Nat /\ Cardinality(E) \in Nat
  <2>1. IsFiniteSet(E)
    BY <1>5, FS_RemoveElement
  <2>2. IsFiniteSet(H) /\ Cardinality(H) <= Cardinality(E)
    BY <1>7, <2>1, FS_Subset
  <2>3. IsFiniteSet(S) /\ Cardinality(S) <= Cardinality(H)
    BY <1>7, <2>2, FS_Subset
  <2>4. IsFiniteSet(R)
    BY <1>5, FS_Subset
  <2>. QED BY <2>1, <2>2, <2>3, <2>4, FS_CardinalityType
<1>9. prog \in Walks!OfModules => Walks!Counted = Cardinality(H)
  <2>. SUFFICES ASSUME prog \in Walks!OfModules PROVE Walks!Counted = Cardinality(H)
    OBVIOUS
  <2>1. Cardinality(R) \in Nat /\ Walks!nump = Cardinality(R)
    <3>1. Cardinality(R) \in Nat /\ Cardinality(Walks!ReadMore(1)) = 0
      BY <1>3, <1>8, FS_EmptySet, FS_CardinalityType
    <3>2. Walks!nump = Cardinality(R) + Cardinality(Walks!ReadMore(1))
      BY <1>0 DEF Walks!nump, R
    <3>. QED BY <3>1, <3>2
  <2>2. CASE prog = "modules"
    <3>1. ListHead \in R
      BY <1>1, <1>4, <1>5, <2>2 DEF WalkInv, Returned, ReadAll, Guest
    <3>2. Cardinality(H) = Cardinality(R) - 1
      BY <1>8, <3>1, FS_RemoveElement
    <3>. QED BY <2>1, <2>2, <3>2 DEF Walks!Counted, Walks!numm
  <2>3. CASE prog = "modulelist"
    <3>1. ListHead \notin R
      BY <1>4, <2>3 DEF WalkInv, Returned, Unread
    <3>2. H = R
      BY <3>1
    <3>. QED BY <2>1, <2>3, <3>2 DEF Walks!Counted
  <2>. QED BY <2>2, <2>3 DEF Walks!OfModules
<1>. HIDE DEF S, E, H
<1>10. Walks!CountInBounds
  <2>1. Cardinality(H) \in Cardinality(S) .. Cardinality(E)
    BY <1>8
  <2>. QED BY <1>0, <1>9, <2>1 DEF Walks!CountInBounds, S, E
<1>. QED BY <1>2, <1>10 DEF WalkReadsStayers

\* In the module's own specification, with any number of nodes and changes, a
\* function that returns has read every node that stayed exactly once, and the
\* number of modules it returns is in bounds.
THEOREM WalksReadStayers == Walks!Spec => []WalkReadsStayers
<1>1. WalkInv /\ [Walks!Step]_Walks!vars => WalkInv'
  BY NextWalk
<1>. QED BY InitWalk, InBounds, <1>1, PTL DEF Walks!Spec

-----------------------------------------------------------------------------
(***************************************************************************)
(* ParentLayer.                                                            *)
(***************************************************************************)
Pids == LayerPid \union {Missing}

\* Pids are once in the queue, and every chain of parents ends.
Forest ==
  /\ forest \in Seq([tspid : LayerPid, tsparent : Pids])
  /\ Len(forest) <= MaxLength
  /\ \A a, b \in Layer!Pos : forest[a].tspid = forest[b].tspid => a = b
  /\ Layer!Grounded

Parent(a) == forest[a].tsparent
Upward(a) == Layer!Ancestors(forest[a].tspid)
ChainEnds(a) == Layer!IsRoot(a) \/ Layer!At(Parent(a)) = {}

\* A layer that is set is the depth, and those of all ancestors are set.
LayersRight(L) ==
  /\ L \in [Layer!Pos -> Int]
  /\ \A a \in Layer!Pos : L[a] # Layer!Unset =>
       L[a] = Layer!Depth(a) /\ \A b \in Upward(a) : L[b] # Layer!Unset

\* What getParentLayer returns for a pid, and what it leaves in the nodes.
LayerOf(pid) == IF Layer!At(pid) = {} THEN 49 ELSE Layer!Depth(CHOOSE a \in Layer!At(pid) : TRUE)
Filled(pid, L) == [a \in Layer!Pos |-> IF a \in Layer!Ancestors(pid) THEN Layer!Depth(a) ELSE L[a]]

\* The ancestors are the least set that has every parent.
LEMMA LeastUpward ==
  ASSUME NEW pid, NEW S \in SUBSET Layer!Pos, Layer!At(pid) \subseteq S,
         \A a \in S : Layer!At(Parent(a)) \subseteq S
  PROVE  Layer!Ancestors(pid) \subseteq S
BY DEF Layer!Ancestors, Parent

\* They do have every parent.
LEMMA HasParents ==
  ASSUME NEW pid
  PROVE  /\ Layer!Ancestors(pid) \subseteq Layer!Pos
         /\ Layer!At(pid) \subseteq Layer!Ancestors(pid)
         /\ \A a \in Layer!Ancestors(pid) : Layer!At(Parent(a)) \subseteq Layer!Ancestors(pid)
<1>1. Layer!Ancestors(pid) \subseteq Layer!Pos
  BY DEF Layer!Ancestors
<1>2. Layer!At(pid) \subseteq Layer!Ancestors(pid)
  BY DEF Layer!Ancestors, Layer!At
<1>3. ASSUME NEW a \in Layer!Ancestors(pid), NEW b \in Layer!At(Parent(a))
      PROVE  b \in Layer!Ancestors(pid)
  <2>1. a \in Layer!Pos /\ b \in Layer!Pos
    BY <1>1, <1>3 DEF Layer!At
  <2>2. ASSUME NEW S \in SUBSET Layer!Pos, Layer!At(pid) \subseteq S,
               \A d \in S : Layer!At(Parent(d)) \subseteq S
        PROVE  b \in S
    <3>1. a \in S
      BY <1>3, <2>2, LeastUpward
    <3>. QED BY <1>3, <2>2, <3>1
  <2>. QED BY <2>1, <2>2 DEF Layer!Ancestors, Parent
<1>. QED BY <1>1, <1>2, <1>3

\* Nobody is above a pid that is missing.
LEMMA NobodyAbove == ASSUME NEW pid, Layer!At(pid) = {} PROVE Layer!Ancestors(pid) = {}
BY LeastUpward

\* A process and who is above its parent.
LEMMA OneUp ==
  ASSUME NEW pid, NEW a, Layer!At(pid) = {a}
  PROVE  Layer!Ancestors(pid) = {a} \union Layer!Ancestors(Parent(a))
<1>1. a \in Layer!Pos /\ a \in Layer!Ancestors(pid)
  BY HasParents DEF Layer!At
<1>2. Layer!Ancestors(pid) \subseteq {a} \union Layer!Ancestors(Parent(a))
  <2>1. PICK S : S = {a} \union Layer!Ancestors(Parent(a))
    OBVIOUS
  <2>2. S \in SUBSET Layer!Pos /\ Layer!At(pid) \subseteq S
    BY <1>1, <2>1, HasParents
  <2>3. \A d \in S : Layer!At(Parent(d)) \subseteq S
    BY <2>1, HasParents
  <2>. QED BY <2>1, <2>2, <2>3, LeastUpward
<1>3. Layer!Ancestors(Parent(a)) \subseteq Layer!Ancestors(pid)
  <2>1. PICK S : S = Layer!Ancestors(pid)
    OBVIOUS
  <2>2. S \in SUBSET Layer!Pos /\ Layer!At(Parent(a)) \subseteq S /\ \A d \in S : Layer!At(Parent(d)) \subseteq S
    BY <1>1, <2>1, HasParents
  <2>. QED BY <2>1, <2>2, LeastUpward
<1>. QED BY <1>1, <1>2, <1>3

\* A pid is at one place at most.
LEMMA OnePlace ==
  ASSUME Forest
  PROVE  /\ \A a \in Layer!Pos : Layer!At(forest[a].tspid) = {a}
         /\ \A pid : Layer!At(pid) # {} => \E a \in Layer!Pos : forest[a].tspid = pid /\ Layer!At(pid) = {a}
BY DEF Forest, Layer!At

\* Who is above somebody who is above it is above it.
LEMMA UpAgain ==
  ASSUME Forest, NEW pid, NEW a \in Layer!Ancestors(pid)
  PROVE  Upward(a) \subseteq Layer!Ancestors(pid)
<1>1. PICK S : S = Layer!Ancestors(pid)
  OBVIOUS
<1>2. a \in Layer!Pos /\ S \in SUBSET Layer!Pos /\ \A d \in S : Layer!At(Parent(d)) \subseteq S
  BY <1>1, HasParents
<1>3. Layer!At(forest[a].tspid) \subseteq S
  BY <1>1, <1>2, OnePlace
<1>. QED BY <1>1, <1>2, <1>3, LeastUpward DEF Upward

\* Nobody is above the end of a chain.
LEMMA AtTheEnd ==
  ASSUME Forest, NEW a \in Layer!Pos, ChainEnds(a)
  PROVE  Upward(a) = {a}
<1>1. PICK S : S = {a}
  OBVIOUS
<1>2. S \in SUBSET Layer!Pos /\ Layer!At(forest[a].tspid) = S
  BY <1>1, OnePlace
<1>3. \A d \in S : Layer!At(Parent(d)) \subseteq S
  BY <1>1, <1>2 DEF ChainEnds, Layer!IsRoot, Parent
<1>4. Upward(a) \subseteq S
  BY <1>2, <1>3, LeastUpward DEF Upward
<1>5. a \in Upward(a)
  BY <1>1, <1>2, HasParents DEF Upward
<1>. QED BY <1>1, <1>4, <1>5

\* Nobody is above itself, since a chain ends.
LEMMA NoCycle ==
  ASSUME Forest, NEW a \in Layer!Pos, ~ChainEnds(a)
  PROVE  a \notin Layer!Ancestors(Parent(a))
<1>. SUFFICES ASSUME a \in Layer!Ancestors(Parent(a)) PROVE FALSE
  OBVIOUS
<1>1. PICK S : S = {b \in Layer!Ancestors(Parent(a)) : a \in Upward(b)}
  OBVIOUS
<1>2. S \in SUBSET Layer!Pos
  BY <1>1, HasParents
<1>3. ASSUME NEW b \in Layer!At(Parent(a)) PROVE b \in S
  <2>1. b \in Layer!Pos /\ forest[b].tspid = Parent(a)
    BY <1>3 DEF Layer!At
  <2>. QED BY <1>1, <1>3, <2>1, HasParents DEF Upward
<1>4. ASSUME NEW b \in S, NEW c \in Layer!At(Parent(b)) PROVE c \in S
  <2>1. b \in Layer!Ancestors(Parent(a)) /\ a \in Upward(b)
    BY <1>1, <1>4
  <2>2. c \in Layer!Ancestors(Parent(a))
    BY <1>4, <2>1, HasParents
  <2>3. b \in Layer!Pos /\ c \in Layer!Pos /\ forest[c].tspid = Parent(b)
    BY <1>2, <1>4 DEF Layer!At
  <2>4. Upward(b) = {b} \union Layer!Ancestors(Parent(b))
    BY <2>3, OnePlace, OneUp DEF Upward
  <2>5. a = b \/ a \in Upward(c)
    BY <2>1, <2>3, <2>4 DEF Upward
  <2>6. a \in Upward(c)
    BY <2>3, <2>5 DEF Upward
  <2>. QED BY <1>1, <2>2, <2>6
<1>5. Layer!Ancestors(Parent(a)) \subseteq S
  BY <1>2, <1>3, <1>4, LeastUpward
<1>6. Upward(a) = {a} \union Layer!Ancestors(Parent(a))
  BY OnePlace, OneUp DEF Upward
<1>7. PICK e \in Upward(a) : ChainEnds(e)
  BY DEF Forest, Layer!Grounded, Upward, ChainEnds, Parent
<1>8. e \in S /\ e \in Layer!Pos
  BY <1>2, <1>5, <1>6, <1>7
<1>9. a \in Upward(e)
  BY <1>1, <1>8
<1>10. Upward(e) = {e}
  BY <1>7, <1>8, AtTheEnd
<1>. QED BY <1>7, <1>9, <1>10

\* The number of a forest's processes is finite.
LEMMA UpIsFinite ==
  ASSUME Forest, NEW pid
  PROVE  /\ IsFiniteSet(Layer!Ancestors(pid)) /\ Cardinality(Layer!Ancestors(pid)) \in 0 .. Len(forest)
         /\ Len(forest) \in Nat /\ Layer!Pos = 1 .. Len(forest)
<1>1. Len(forest) \in Nat /\ Layer!Pos = 1 .. Len(forest)
  BY DEF Forest, Layer!Pos
<1>2. IsFiniteSet(1 .. Len(forest)) /\ Cardinality(1 .. Len(forest)) = Len(forest)
  BY <1>1, FS_Interval
<1>3. IsFiniteSet(Layer!Ancestors(pid)) /\ Cardinality(Layer!Ancestors(pid)) <= Len(forest)
  BY <1>1, <1>2, HasParents, FS_Subset
<1>. QED BY <1>1, <1>3, FS_CardinalityType

\* A parent is a pid.
LEMMA ParentIsPid == ASSUME Forest, NEW a \in Layer!Pos PROVE Parent(a) \in Pids
<1>1. PICK R : R = [tspid : LayerPid, tsparent : Pids]
  OBVIOUS
<1>2. forest \in Seq(R) /\ a \in 1 .. Len(forest)
  BY <1>1, UpIsFinite DEF Forest, Pids
<1>3. forest[a] \in R
  BY <1>2
<1>. QED BY <1>1, <1>3 DEF Parent

\* The depth of a process: its parent's and one more, with 49 for a parent that
\* is missing.
LEMMA DepthSteps ==
  ASSUME Forest, NEW a \in Layer!Pos
  PROVE  /\ Layer!Depth(a) \in 0 .. 49 + MaxLength
         /\ Layer!IsRoot(a) => Layer!Depth(a) = 0
         /\ ~Layer!IsRoot(a) => Layer!Depth(a) = LayerOf(Parent(a)) + 1
<1>. DEFINE up == Upward(a)
            Root(S) == \E b \in S : Layer!IsRoot(b)
<1>1. Layer!Depth(a) = Cardinality(up) - 1 + (IF Root(up) THEN 0 ELSE 50)
  BY DEF Layer!Depth, Upward, Layer!Cardinality, Cardinality
<1>2. a \in up /\ IsFiniteSet(up) /\ Cardinality(up) \in 0 .. Len(forest)
  BY OnePlace, HasParents, UpIsFinite DEF Upward
<1>3. Cardinality(up) >= 1
  BY <1>2, FS_EmptySet
<1>4. Len(forest) \in Nat /\ Len(forest) <= MaxLength /\ MaxLength \in Nat
  BY UpIsFinite, LayerAssumed DEF Forest, Layer!ParentAssumption
<1>5. Layer!Depth(a) \in 0 .. 49 + MaxLength
  BY <1>1, <1>2, <1>3, <1>4
<1>6. ChainEnds(a) => up = {a} /\ Cardinality(up) = 1
  BY AtTheEnd, FS_Singleton
<1>7. Layer!IsRoot(a) => Layer!Depth(a) = 0
  BY <1>1, <1>6 DEF ChainEnds
<1>8. ASSUME ~Layer!IsRoot(a) PROVE Layer!Depth(a) = LayerOf(Parent(a)) + 1
  <2>1. CASE Layer!At(Parent(a)) = {}
    <3>1. up = {a} /\ Cardinality(up) = 1
      BY <1>6, <2>1 DEF ChainEnds
    <3>2. ~Root(up)
      BY <1>8, <3>1
    <3>. QED BY <1>1, <2>1, <3>1, <3>2 DEF LayerOf
  <2>2. CASE Layer!At(Parent(a)) # {}
    <3>1. PICK b \in Layer!Pos : forest[b].tspid = Parent(a) /\ Layer!At(Parent(a)) = {b}
      BY <2>2, OnePlace
    <3>2. LayerOf(Parent(a)) = Layer!Depth(b)
      BY <2>2, <3>1 DEF LayerOf
    <3>3. Upward(b) = Layer!Ancestors(Parent(a))
      BY <3>1 DEF Upward
    <3>4. up = {a} \union Upward(b) /\ a \notin Upward(b)
      BY <1>8, <2>2, <3>3, OnePlace, OneUp, NoCycle DEF Upward, ChainEnds
    <3>5. IsFiniteSet(Upward(b)) /\ Cardinality(Upward(b)) \in Nat
      BY <3>3, UpIsFinite
    <3>6. Cardinality(up) = Cardinality(Upward(b)) + 1
      <4>1. Cardinality(Upward(b) \union {a}) = Cardinality(Upward(b)) + 1
        BY <3>4, <3>5, FS_AddElement
      <4>2. up = Upward(b) \union {a}
        BY <3>4
      <4>. QED BY <4>1, <4>2
    <3>7. Root(up) <=> Root(Upward(b))
      BY <1>8, <3>4
    <3>8. Layer!Depth(b) = Cardinality(Upward(b)) - 1 + (IF Root(Upward(b)) THEN 0 ELSE 50)
      BY DEF Layer!Depth, Upward, Layer!Cardinality, Cardinality
    <3>. QED BY <1>1, <3>2, <3>5, <3>6, <3>7, <3>8
  <2>. QED BY <2>1, <2>2
<1>. QED BY <1>5, <1>7, <1>8

\* A turn of getParentLayer's recursion: what it returns for pid when it returns
\* f[pid2] for another.
Turn(L, f, pid) ==
  IF Layer!At(pid) = {} THEN [layer |-> 49, layers |-> L]
  ELSE LET a == CHOOSE a \in Layer!At(pid) : TRUE IN
       IF L[a] > -1 THEN [layer |-> L[a], layers |-> L]
       ELSE IF Layer!IsRoot(a) THEN [layer |-> 0, layers |-> [L EXCEPT ![a] = 0]]
       ELSE LET next == f[forest[a].tsparent]
            IN  [layer |-> next.layer + 1, layers |-> [next.layers EXCEPT ![a] = next.layer + 1]]
Answer(L) == [pid \in Pids |-> [layer |-> LayerOf(pid), layers |-> Filled(pid, L)]]

\* The answer, after a turn that recurs to it.
LEMMA TurnAnswers ==
  ASSUME Forest, NEW L, LayersRight(L), NEW pid \in Pids
  PROVE  Turn(L, Answer(L), pid) = Answer(L)[pid]
<1>0. Answer(L)[pid] = [layer |-> LayerOf(pid), layers |-> Filled(pid, L)]
  BY DEF Answer
<1>1. CASE Layer!At(pid) = {}
  <2>1. LayerOf(pid) = 49
    BY <1>1 DEF LayerOf
  <2>2. Layer!Ancestors(pid) = {}
    BY <1>1, NobodyAbove
  <2>3. Filled(pid, L) = L
    BY <2>2 DEF Filled, LayersRight
  <2>. QED BY <1>0, <1>1, <2>1, <2>3 DEF Turn
<1>2. CASE Layer!At(pid) # {}
  <2>1. PICK a \in Layer!Pos : forest[a].tspid = pid /\ Layer!At(pid) = {a}
    BY <1>2, OnePlace
  <2>2. (CHOOSE b \in Layer!At(pid) : TRUE) = a
    BY <2>1
  <2>3. LayerOf(pid) = Layer!Depth(a)
    BY <1>2, <2>2 DEF LayerOf
  <2>4. Layer!Ancestors(pid) = Upward(a) /\ a \in Upward(a) /\ Upward(a) \subseteq Layer!Pos
    BY <2>1, HasParents DEF Upward
  <2>5. L \in [Layer!Pos -> Int] /\ Layer!Depth(a) \in 0 .. 49 + MaxLength
    BY <2>1, DepthSteps DEF LayersRight
  <2>6. CASE L[a] > -1
    <3>1. L[a] = Layer!Depth(a) /\ \A b \in Upward(a) : L[b] # Layer!Unset
      BY <2>1, <2>5, <2>6 DEF LayersRight, Layer!Unset
    <3>2. \A b \in Upward(a) : L[b] = Layer!Depth(b)
      BY <2>4, <3>1 DEF LayersRight
    <3>3. Filled(pid, L) = L
      BY <2>4, <2>5, <3>2 DEF Filled
    <3>. QED BY <1>0, <1>2, <2>2, <2>3, <2>6, <3>1, <3>3 DEF Turn
  <2>7. CASE ~(L[a] > -1) /\ Layer!IsRoot(a)
    <3>1. Layer!Depth(a) = 0 /\ Upward(a) = {a}
      BY <2>1, <2>7, DepthSteps, AtTheEnd DEF ChainEnds
    <3>2. Filled(pid, L) = [L EXCEPT ![a] = 0]
      BY <2>4, <2>5, <3>1 DEF Filled
    <3>. QED BY <1>0, <1>2, <2>2, <2>3, <2>7, <3>1, <3>2 DEF Turn
  <2>8. CASE ~(L[a] > -1) /\ ~Layer!IsRoot(a)
    <3>1. Parent(a) \in Pids
      BY ParentIsPid
    <3>2. Answer(L)[Parent(a)] = [layer |-> LayerOf(Parent(a)), layers |-> Filled(Parent(a), L)]
      BY <3>1 DEF Answer
    <3>3. Layer!Depth(a) = LayerOf(Parent(a)) + 1
      BY <2>1, <2>8, DepthSteps
    <3>4. Layer!Ancestors(pid) = {a} \union Layer!Ancestors(Parent(a))
      BY <2>1, OneUp
    <3>5. Filled(pid, L) = [Filled(Parent(a), L) EXCEPT ![a] = Layer!Depth(a)]
      BY <2>1, <3>4 DEF Filled
    <3>6. Turn(L, Answer(L), pid) = [layer |-> LayerOf(Parent(a)) + 1, layers |-> [Filled(Parent(a), L) EXCEPT ![a] = LayerOf(Parent(a)) + 1]]
      <4>1. PICK g : g = Answer(L)
        OBVIOUS
      <4>2. Turn(L, g, pid) = [layer |-> g[Parent(a)].layer + 1, layers |-> [g[Parent(a)].layers EXCEPT ![a] = g[Parent(a)].layer + 1]]
        BY <1>2, <2>2, <2>8, Zenon DEF Turn, Parent
      <4>3. g[Parent(a)].layer = LayerOf(Parent(a)) /\ g[Parent(a)].layers = Filled(Parent(a), L)
        BY <3>2, <4>1
      <4>. QED BY <4>1, <4>2, <4>3
    <3>. QED BY <1>0, <2>3, <3>3, <3>5, <3>6
  <2>. QED BY <2>6, <2>7, <2>8
<1>. QED BY <1>1, <1>2

\* The order of the natural numbers, by which a set of them has a least element.
Less == {ss \in Nat \X Nat : ss[1] < ss[2]}
LEMMA LeastElement ==
  ASSUME NEW T, T \subseteq Nat, T # {}
  PROVE  \E x \in T : \A y \in T : x <= y
<1>1. IsWellFoundedOn(Less, Nat)
  BY NatLessThanWellFounded DEF OpToRel, Less
<1>2. PICK x \in T : \A y \in T : ~ (<<y, x>> \in Less)
  BY <1>1, WFMin, Zenon
<1>3. ASSUME NEW y \in T PROVE ~ (y < x)
  BY <1>2 DEF Less
<1>4. \A y \in T : x \in Nat /\ y \in Nat
  OBVIOUS
<1>. QED BY <1>3, <1>4

\* The recursion has one answer, since each turn recurs to fewer ancestors.
LEMMA OneAnswer ==
  ASSUME Forest, NEW L, LayersRight(L), NEW f, f = [pid \in Pids |-> Turn(L, f, pid)]
  PROVE  f = Answer(L)
<1>. DEFINE Above(pid) == Cardinality(Layer!Ancestors(pid))
<1>1. PICK g : g = Answer(L)
  OBVIOUS
<1>2. PICK T : T = {pid \in Pids : f[pid] # g[pid]}
  OBVIOUS
<1>3. T = {}
  <2>. SUFFICES ASSUME T # {} PROVE FALSE
    OBVIOUS
  <2>1. \A pid : Above(pid) \in Nat
    BY UpIsFinite
  <2>2. PICK heights : heights = {Above(pid) : pid \in T}
    OBVIOUS
  <2>3. PICK n \in heights : \A m \in heights : n <= m
    BY <2>1, <2>2, LeastElement
  <2>4. PICK pid \in T : n = Above(pid)
    BY <2>2, <2>3
  <2>5. pid \in Pids /\ f[pid] # g[pid]
    BY <1>2, <2>4
  <2>6. f[pid] = Turn(L, f, pid) /\ g[pid] = Turn(L, g, pid)
    <3>1. \A h : f = [x \in Pids |-> h[x]] => f[pid] = h[pid]
      BY <2>5
    <3>. QED BY <1>1, <2>5, TurnAnswers
  <2>7. Turn(L, f, pid) = Turn(L, g, pid)
    <3>1. CASE Layer!At(pid) = {}
      BY <3>1 DEF Turn
    <3>2. CASE Layer!At(pid) # {}
      <4>1. PICK a \in Layer!Pos : forest[a].tspid = pid /\ Layer!At(pid) = {a}
        BY <3>2, OnePlace
      <4>2. (CHOOSE b \in Layer!At(pid) : TRUE) = a
        BY <4>1
      <4>3. L[a] > -1 \/ Layer!IsRoot(a) => Turn(L, f, pid) = Turn(L, g, pid)
        BY <4>2, Zenon DEF Turn
      <4>4. ASSUME ~Layer!IsRoot(a) PROVE f[Parent(a)] = g[Parent(a)]
        <5>1. Parent(a) \in Pids
          BY <4>1, ParentIsPid
        <5>2. Layer!Ancestors(pid) = {a} \union Layer!Ancestors(Parent(a))
          BY <4>1, OneUp
        <5>3. a \notin Layer!Ancestors(Parent(a))
          BY <4>4, NoCycle, NobodyAbove DEF ChainEnds
        <5>4. Above(pid) = Above(Parent(a)) + 1
          <6>1. Cardinality(Layer!Ancestors(Parent(a)) \union {a}) = Above(Parent(a)) + 1
            BY <5>3, UpIsFinite, FS_AddElement
          <6>2. Layer!Ancestors(pid) = Layer!Ancestors(Parent(a)) \union {a}
            BY <5>2
          <6>. QED BY <6>1, <6>2
        <5>5. Parent(a) \notin T
          BY <2>1, <2>2, <2>3, <2>4, <5>4
        <5>. QED BY <1>2, <5>1, <5>5
      <4>5. ~(L[a] > -1) /\ ~Layer!IsRoot(a) => Turn(L, f, pid) = Turn(L, g, pid)
        BY <3>2, <4>2, <4>4, Zenon DEF Turn, Parent
      <4>. QED BY <4>3, <4>5
    <3>. QED BY <3>1, <3>2
  <2>. QED BY <2>5, <2>6, <2>7
<1>4. \A pid \in Pids : f[pid] = g[pid]
  BY <1>2, <1>3
<1>5. f = [pid \in Pids |-> f[pid]]
  OBVIOUS
<1>6. g = [pid \in Pids |-> g[pid]]
  BY <1>1 DEF Answer
<1>7. [pid \in Pids |-> f[pid]] = [pid \in Pids |-> g[pid]]
  BY <1>4
<1>. QED BY <1>1, <1>5, <1>6, <1>7

\* getParentLayer returns the depth of the pid, and leaves that of all its
\* ancestors in the nodes.
LEMMA GetParentLayerIs ==
  ASSUME Forest, NEW L, LayersRight(L), NEW pid \in Pids
  PROVE  Layer!getParentLayer(pid, L) = [layer |-> LayerOf(pid), layers |-> Filled(pid, L)]
<1>1. Answer(L) = [x \in Pids |-> Turn(L, Answer(L), x)]
  <2>1. \A x \in Pids : Answer(L)[x] = Turn(L, Answer(L), x)
    BY TurnAnswers
  <2>2. [x \in Pids |-> Answer(L)[x]] = [x \in Pids |-> Turn(L, Answer(L), x)]
    BY <2>1
  <2>3. Answer(L) = [x \in Pids |-> Answer(L)[x]]
    BY DEF Answer
  <2>. QED BY <2>2, <2>3
<1>2. PICK f : f = CHOOSE h : h = [x \in Pids |-> Turn(L, h, x)]
  OBVIOUS
<1>3. f = [x \in Pids |-> Turn(L, f, x)]
  BY <1>1, <1>2
<1>4. f = Answer(L)
  BY <1>3, OneAnswer
<1>5. Layer!getParentLayer(pid, L) = f[pid]
  BY <1>2, Zenon DEF Layer!getParentLayer, Turn, Pids
<1>. QED BY <1>4, <1>5 DEF Answer

LayerInv == Forest /\ LayersRight(tslayer) /\ setter \in 1 .. Len(forest) + 1

\* Nothing is set at the start.
LEMMA InitLayers == Layer!Init => LayerInv
<1>. SUFFICES ASSUME Layer!Init PROVE LayerInv
  OBVIOUS
<1>1. PICK R : R = [tspid : LayerPid, tsparent : Pids]
  OBVIOUS
<1>2. PICK n \in 1 .. MaxLength : forest \in [1 .. n -> R]
  BY <1>1 DEF Layer!Init, Pids
<1>3. n \in Nat /\ n >= 1
  BY <1>2, LayerAssumed DEF Layer!ParentAssumption
<1>4. forest \in Seq(R) /\ Len(forest) = n
  BY <1>2, <1>3
<1>5. Forest
  BY <1>1, <1>2, <1>4 DEF Layer!Init, Forest
<1>6. LayersRight(tslayer)
  BY DEF Layer!Init, LayersRight, Layer!Unset
<1>7. setter \in 1 .. Len(forest) + 1
  BY <1>3, <1>4 DEF Layer!Init
<1>. QED BY <1>5, <1>6, <1>7 DEF LayerInv

\* A turn of setParentLayer sets the process's layer and those of all above it.
LEMMA TurnSets ==
  ASSUME LayerInv, Layer!setParentLayer
  PROVE  tslayer' = Filled(forest[setter].tspid, tslayer)
<1>. DEFINE L == tslayer
            pid == forest[setter].tspid
<1>1. Forest /\ LayersRight(L) /\ setter \in Layer!Pos
  BY DEF LayerInv, Layer!setParentLayer
<1>2. Layer!Ancestors(pid) = {setter} \union Layer!Ancestors(Parent(setter))
  BY <1>1, OnePlace, OneUp
<1>3. L \in [Layer!Pos -> Int]
  BY <1>1 DEF LayersRight
<1>4. CASE Layer!IsRoot(setter)
  <2>1. Layer!Depth(setter) = 0 /\ Layer!Ancestors(pid) = {setter}
    BY <1>1, <1>4, DepthSteps, AtTheEnd DEF ChainEnds, Upward
  <2>2. tslayer' = [L EXCEPT ![setter] = 0]
    BY <1>4 DEF Layer!setParentLayer
  <2>. QED BY <1>1, <1>3, <2>1, <2>2 DEF Filled
<1>5. CASE ~Layer!IsRoot(setter)
  <2>1. Layer!getParentLayer(Parent(setter), L) = [layer |-> LayerOf(Parent(setter)), layers |-> Filled(Parent(setter), L)]
    BY <1>1, ParentIsPid, GetParentLayerIs
  <2>2. Layer!Depth(setter) = LayerOf(Parent(setter)) + 1
    BY <1>1, <1>5, DepthSteps
  <2>3. PICK up : up = Layer!getParentLayer(forest[setter].tsparent, L)
    OBVIOUS
  <2>4. tslayer' = [up.layers EXCEPT ![setter] = up.layer + 1]
    BY <1>5, <2>3 DEF Layer!setParentLayer
  <2>5. tslayer' = [Filled(Parent(setter), L) EXCEPT ![setter] = Layer!Depth(setter)]
    BY <2>1, <2>2, <2>3, <2>4 DEF Parent
  <2>. QED BY <1>1, <1>2, <2>5 DEF Filled
<1>. QED BY <1>4, <1>5

\* What is said of a forest stays while it is the same.
LEMMA ForestStays ==
  ASSUME forest' = forest
  PROVE  /\ Layer!Pos' = Layer!Pos
         /\ Forest => Forest'
         /\ \A a \in Layer!Pos : Upward(a)' = Upward(a) /\ Layer!Depth(a)' = Layer!Depth(a)
<1>1. Layer!Pos' = Layer!Pos
  BY DEF Layer!Pos
<1>2. ASSUME NEW pid PROVE Layer!At(pid)' = Layer!At(pid)
  BY <1>1 DEF Layer!At
<1>3. ASSUME NEW pid PROVE Layer!Ancestors(pid)' = Layer!Ancestors(pid)
  BY <1>1, <1>2, Zenon DEF Layer!Ancestors
<1>4. ASSUME NEW a PROVE Layer!IsRoot(a)' = Layer!IsRoot(a)
  BY Zenon DEF Layer!IsRoot
<1>5. ASSUME NEW a PROVE Upward(a)' = Upward(a)
  BY <1>3, Zenon DEF Upward
<1>6. ASSUME NEW a PROVE Layer!Depth(a)' = Layer!Depth(a)
  BY <1>3, <1>4, Zenon DEF Layer!Depth
<1>7. Layer!Grounded => Layer!Grounded'
  BY <1>1, <1>2, <1>3, <1>4, Zenon DEF Layer!Grounded
<1>8. Forest => Forest'
  BY <1>1, <1>7, Zenon DEF Forest
<1>. QED BY <1>1, <1>5, <1>6, <1>8

\* It keeps the layers right.
LEMMA NextLayers == LayerInv /\ [Layer!Next]_(Layer!vars) => LayerInv'
<1>1. ASSUME LayerInv, Layer!setParentLayer PROVE LayerInv'
  <2>1. Forest /\ LayersRight(tslayer) /\ setter \in Layer!Pos /\ forest' = forest /\ setter' = setter + 1
    BY <1>1 DEF LayerInv, Layer!setParentLayer
  <2>2. Len(forest) \in Nat /\ Layer!Pos = 1 .. Len(forest)
    BY <2>1, UpIsFinite
  <2>3. PICK L : L = Filled(forest[setter].tspid, tslayer)
    OBVIOUS
  <2>4. tslayer' = L
    BY <1>1, <2>3, TurnSets
  <2>5. L \in [Layer!Pos -> Int]
    BY <2>1, <2>3, DepthSteps DEF Filled, LayersRight
  <2>6. ASSUME NEW a \in Layer!Pos, L[a] # Layer!Unset
        PROVE  L[a] = Layer!Depth(a) /\ \A b \in Upward(a) : L[b] # Layer!Unset
    <3>1. ASSUME NEW b \in Layer!Pos, b \in Upward(setter) \/ tslayer[b] # Layer!Unset
          PROVE  L[b] # Layer!Unset
      BY <2>1, <2>3, <3>1, DepthSteps DEF Filled, Upward, Layer!Unset
    <3>2. Upward(a) \subseteq Layer!Pos
      BY HasParents DEF Upward
    <3>3. CASE a \in Upward(setter)
      <4>1. Upward(a) \subseteq Upward(setter)
        BY <2>1, <3>3, UpAgain DEF Upward
      <4>. QED BY <2>3, <3>1, <3>2, <3>3, <4>1 DEF Filled, Upward
    <3>4. CASE a \notin Upward(setter)
      <4>1. L[a] = tslayer[a]
        BY <2>3, <3>4 DEF Filled, Upward
      <4>. QED BY <2>1, <2>6, <3>1, <3>2, <4>1 DEF LayersRight
    <3>. QED BY <3>3, <3>4
  <2>7. LayersRight(L)
    BY <2>5, <2>6 DEF LayersRight
  <2>8. LayersRight(tslayer)'
    BY <2>1, <2>4, <2>7, ForestStays DEF LayersRight, Layer!Unset
  <2>9. Forest'
    BY <2>1, ForestStays
  <2>. QED BY <2>1, <2>2, <2>8, <2>9 DEF LayerInv
<1>2. ASSUME LayerInv, UNCHANGED Layer!vars PROVE LayerInv'
  <2>1. forest' = forest /\ tslayer' = tslayer /\ setter' = setter
    BY <1>2 DEF Layer!vars
  <2>2. LayersRight(tslayer)'
    BY <1>2, <2>1, ForestStays DEF LayerInv, LayersRight, Layer!Unset
  <2>. QED BY <1>2, <2>1, <2>2, ForestStays DEF LayerInv
<1>. QED BY <1>1, <1>2 DEF Layer!Next

\* setParentLayer's: whatever the order of the queue, a layer that has been set
\* is the depth in the tree of parents, 50 for a child of a parent that is
\* missing, also one that the recursion left behind before the loop comes to it.
THEOREM LayersAreDepths == Layer!Spec => []LayerIsDepth
<1>1. LayerInv => LayerIsDepth
  <2>. SUFFICES ASSUME LayerInv PROVE LayerIsDepth
    OBVIOUS
  <2>1. Forest /\ LayersRight(tslayer) /\ setter \in 1 .. Len(forest) + 1
    BY DEF LayerInv
  <2>2. \A a \in Layer!Pos : tslayer[a] = Layer!Unset \/ (tslayer[a] = Layer!Depth(a) /\ Layer!Depth(a) \in 0 .. 49 + MaxLength)
    BY <2>1, DepthSteps DEF LayersRight
  <2>3. MaxLength \in Nat
    BY LayerAssumed DEF Layer!ParentAssumption
  <2>4. \A a \in Layer!Pos : tslayer[a] \in Layer!Unset .. 49 + MaxLength
    BY <2>2, <2>3 DEF Layer!Unset
  <2>5. tslayer \in [Layer!Pos -> Layer!Unset .. 49 + MaxLength]
    BY <2>1, <2>4 DEF LayersRight
  <2>6. Layer!LayerIsDepth
    BY <2>2 DEF Layer!LayerIsDepth
  <2>. QED BY <2>1, <2>5, <2>6 DEF LayerIsDepth, Layer!TypeOK
<1>. QED BY <1>1, InitLayers, NextLayers, PTL DEF Layer!Spec

-----------------------------------------------------------------------------
(***************************************************************************)
(* Lof: the scores.                                                        *)
(***************************************************************************)
\* The queue of near before each row of the loop.
IsQueues(h, d, self, m) ==
  h = [n \in 0 .. m |->
         IF n = 0 THEN {}
         ELSE IF n - 1 = self THEN h[n - 1] ELSE Scores!Q!offer(h[n - 1], d, K, n - 1)]

\* It is the queue of NearestQueue.
LEMMA SameOffer == \A u, d, n, a : Scores!Q!offer(u, d, n, a) = offer(u, d, n, a)
BY DEF Scores!Q!offer, offer, Scores!Q!get, get, Scores!Q!Before, Before, Scores!Q!Cardinality, Cardinality

\* The loop has an end.
LEMMA QueuesExist == ASSUME NEW d, NEW self, NEW m \in Nat PROVE \E h : IsQueues(h, d, self, m)
<1>1. PICK T : T = {n \in Nat : ~\E h : IsQueues(h, d, self, n)}
  OBVIOUS
<1>2. ASSUME T # {} PROVE FALSE
  <2>1. T \subseteq Nat
    BY <1>1
  <2>2. PICK n \in T : \A l \in T : n <= l
    BY <1>2, <2>1, LeastElement
  <2>3. n \in Nat /\ ~\E h : IsQueues(h, d, self, n)
    BY <1>1
  <2>4. CASE n = 0
    <3>1. PICK h : h = [l \in 0 .. 0 |-> {}]
      OBVIOUS
    <3>2. h = [l \in 0 .. 0 |-> IF l = 0 THEN {} ELSE IF l - 1 = self THEN h[l - 1] ELSE Scores!Q!offer(h[l - 1], d, K, l - 1)]
      BY <3>1
    <3>. QED BY <2>3, <2>4, <3>2 DEF IsQueues
  <2>5. CASE n # 0
    <3>1. n - 1 \in Nat /\ n - 1 \notin T
      BY <2>2, <2>3, <2>5
    <3>2. PICK g : IsQueues(g, d, self, n - 1)
      BY <1>1, <3>1
    <3>3. PICK h : h = [l \in 0 .. n |->
                          IF l = 0 THEN {}
                          ELSE IF l - 1 = self THEN g[l - 1] ELSE Scores!Q!offer(g[l - 1], d, K, l - 1)]
      OBVIOUS
    <3>4. ASSUME NEW l \in 0 .. (n - 1) PROVE h[l] = g[l]
      <4>1. l \in 0 .. n
        BY <2>3
      <4>2. h[l] = IF l = 0 THEN {}
                   ELSE IF l - 1 = self THEN g[l - 1] ELSE Scores!Q!offer(g[l - 1], d, K, l - 1)
        BY <3>3, <4>1
      <4>3. \A x : g = [z \in 0 .. (n - 1) |-> x[z]] => g[l] = x[l]
        OBVIOUS
      <4>4. g[l] = IF l = 0 THEN {}
                   ELSE IF l - 1 = self THEN g[l - 1] ELSE Scores!Q!offer(g[l - 1], d, K, l - 1)
        BY <3>2 DEF IsQueues
      <4>. QED BY <4>2, <4>4
    <3>5. \A l \in 0 .. n : l # 0 => h[l - 1] = g[l - 1]
      BY <2>3, <3>4
    <3>6. h = [l \in 0 .. n |->
                 IF l = 0 THEN {}
                 ELSE IF l - 1 = self THEN h[l - 1] ELSE Scores!Q!offer(h[l - 1], d, K, l - 1)]
      <4>1. \A l \in 0 .. n :
              (IF l = 0 THEN {} ELSE IF l - 1 = self THEN g[l - 1] ELSE Scores!Q!offer(g[l - 1], d, K, l - 1)) =
              (IF l = 0 THEN {} ELSE IF l - 1 = self THEN h[l - 1] ELSE Scores!Q!offer(h[l - 1], d, K, l - 1))
        BY <3>5, Zenon
      <4>. QED BY <3>3, <4>1, Zenon
    <3>. QED BY <2>3, <3>6 DEF IsQueues
  <2>. QED BY <2>4, <2>5
<1>. QED BY <1>1, <1>2

\* near gives the K nearest rows other than self.
LEMMA NearIs ==
  ASSUME NEW d, \A a \in Scores!Row : d[a] \in Int, NEW self \in Scores!Row \union {Scores!Nobody}
  PROVE  /\ Scores!near(d, self) \in Scores!NearestSets(d, Scores!Row \ {self})
         /\ NearestOf(Scores!near(d, self), d, K, Scores!Row \ {self})
<1>0. N \in Nat /\ K \in Nat \ {0} /\ K <= N - 1
  BY LofAssumed DEF Scores!LofAssumption
<1>1. N \in Nat /\ K \in Nat \ {0} /\ K <= N - 1 /\ Scores!Row = 0 .. N - 1
  BY <1>0 DEF Scores!Row
<1>2. PICK h : h = CHOOSE x : IsQueues(x, d, self, N)
  OBVIOUS
<1>3. Scores!near(d, self) = h[N]
  BY <1>2, Zenon DEF Scores!near, IsQueues
<1>4. IsQueues(h, d, self, N)
  BY <1>1, <1>2, QueuesExist
<1>. DEFINE Past(n) == (0 .. n - 1) \ {self}
<1>5. ASSUME NEW n \in 0 .. N
      PROVE  h[n] = IF n = 0 THEN {}
                    ELSE IF n - 1 = self THEN h[n - 1] ELSE offer(h[n - 1], d, K, n - 1)
  BY <1>4, SameOffer DEF IsQueues
<1>6. PICK T : T = {n \in 0 .. N : ~NearestOf(h[n], d, K, Past(n))}
  OBVIOUS
<1>7. ASSUME T # {} PROVE FALSE
  <2>1. T \subseteq Nat
    BY <1>1, <1>6
  <2>2. PICK n \in T : \A l \in T : n <= l
    BY <1>7, <2>1, LeastElement
  <2>3. n \in 0 .. N /\ ~NearestOf(h[n], d, K, Past(n))
    BY <1>6
  <2>4. CASE n = 0
    <3>1. h[n] = {} /\ Past(n) = {}
      BY <1>1, <1>5, <2>3, <2>4
    <3>. QED BY <1>1, <2>3, <3>1, FS_EmptySet DEF NearestOf
  <2>5. CASE n # 0
    <3>1. n - 1 \in 0 .. N /\ n - 1 \notin T /\ n - 1 \in Scores!Row
      BY <1>1, <2>2, <2>3, <2>5
    <3>2. NearestOf(h[n - 1], d, K, Past(n - 1))
      BY <1>6, <3>1
    <3>3. CASE n - 1 = self
      <4>1. h[n] = h[n - 1] /\ Past(n) = Past(n - 1)
        BY <1>1, <1>5, <2>3, <2>5, <3>3
      <4>. QED BY <2>3, <3>2, <4>1
    <3>4. CASE n - 1 # self
      <4>1. h[n] = offer(h[n - 1], d, K, n - 1)
        BY <1>5, <2>3, <2>5, <3>4
      <4>2. Past(n) = Past(n - 1) \union {n - 1} /\ n - 1 \notin Past(n - 1)
        BY <1>1, <2>3, <2>5, <3>4
      <4>3. \A a \in Past(n - 1) \union {n - 1} : a \in Int /\ d[a] \in Int
        BY <1>1, <3>1
      <4>4. NearestOf(offer(h[n - 1], d, K, n - 1), d, K, Past(n - 1) \union {n - 1})
        BY <1>1, <3>2, <4>2, <4>3, OfferKeeps
      <4>. QED BY <2>3, <4>1, <4>2, <4>4
    <3>. QED BY <3>3, <3>4
  <2>. QED BY <2>4, <2>5
<1>8. Past(N) = Scores!Row \ {self}
  BY <1>1
<1>9. NearestOf(h[N], d, K, Scores!Row \ {self})
  <2>1. N \in 0 .. N /\ N \notin T
    BY <1>0, <1>7
  <2>2. NearestOf(h[N], d, K, Past(N))
    BY <1>6, <2>1
  <2>. QED BY <1>8, <2>2
<1>10. Cardinality(h[N]) = K
  <2>1. PICK R : R = Scores!Row \ {self}
    OBVIOUS
  <2>2. IsFiniteSet(Scores!Row) /\ Cardinality(Scores!Row) = N
    BY <1>1, FS_Interval
  <2>3. Cardinality(R) = IF self \in Scores!Row THEN N - 1 ELSE N
    BY <2>1, <2>2, FS_RemoveElement
  <2>4. IsFiniteSet(h[N]) /\ Cardinality(h[N]) <= K /\ (h[N] = R \/ Cardinality(h[N]) = K)
    BY <1>9, <2>1 DEF NearestOf
  <2>. QED BY <1>0, <2>3, <2>4
<1>11. h[N] \in Scores!NearestSets(d, Scores!Row \ {self})
  BY <1>9, <1>10, Zenon DEF NearestOf, Scores!NearestSets, Scores!kSubset, Scores!Cardinality, Cardinality
<1>. QED BY <1>3, <1>9, <1>11

\* A sum counts the cells of its columns, so it does not depend on an order.
Cells(f, S) == UNION {{a} \X (1 .. f[a]) : a \in S}

\* They are finitely many.
LEMMA CellsFinite ==
  ASSUME NEW f, NEW R, IsFiniteSet(R), \A a \in R : f[a] \in Nat
  PROVE  IsFiniteSet(Cells(f, R)) /\ Cardinality(Cells(f, R)) \in Nat
<1>1. PICK D : D = {{a} \X (1 .. f[a]) : a \in R}
  OBVIOUS
<1>2. IsFiniteSet(D)
  <2>1. PICK column : column = [a \in R |-> {a} \X (1 .. f[a])]
    OBVIOUS
  <2>2. column \in Surjection(R, D)
    BY <1>1, <2>1 DEF Surjection
  <2>. QED BY <2>2, FS_Surjection
<1>3. ASSUME NEW a \in R PROVE IsFiniteSet({a} \X (1 .. f[a]))
  <2>1. PICK m \in Nat : m = f[a]
    OBVIOUS
  <2>2. IsFiniteSet(1 .. m)
    BY FS_Interval
  <2>3. IsFiniteSet({a})
    BY FS_Singleton
  <2>. QED BY <2>1, <2>2, <2>3, FS_Product
<1>4. IsFiniteSet(UNION D)
  BY <1>1, <1>2, <1>3, FS_UNION
<1>. QED BY <1>1, <1>4, FS_CardinalityType DEF Cells

\* The columns have no cell in common.
LEMMA CellsJoin ==
  ASSUME NEW f, NEW S, IsFiniteSet(S), NEW T, IsFiniteSet(T), S \intersect T = {},
         \A a \in S \union T : f[a] \in Nat
  PROVE  Cardinality(Cells(f, S \union T)) = Cardinality(Cells(f, S)) + Cardinality(Cells(f, T))
<1>. DEFINE cs == Cells(f, S)
            ct == Cells(f, T)
<1>1. IsFiniteSet(cs) /\ IsFiniteSet(ct) /\ Cardinality(cs) \in Nat /\ Cardinality(ct) \in Nat
  BY CellsFinite
<1>2. cs \intersect ct = {}
  BY DEF Cells
<1>3. Cells(f, S \union T) = cs \union ct
  BY DEF Cells
<1>. HIDE DEF cs, ct
<1>4. Cardinality(cs \union ct) = Cardinality(cs) + Cardinality(ct) - Cardinality(cs \intersect ct)
  BY <1>1, FS_Union
<1>5. Cardinality(cs \intersect ct) = 0
  BY <1>2, FS_EmptySet, Zenon
<1>6. Cardinality(cs \union ct) = Cardinality(cs) + Cardinality(ct)
  BY <1>1, <1>4, <1>5
<1>. QED BY <1>3, <1>6 DEF cs, ct

\* A column's height.
LEMMA OneColumn ==
  ASSUME NEW f, NEW S, IsFiniteSet(S), NEW r \in Nat, \A a \in S : f[a] = r
  PROVE  Cardinality(Cells(f, S)) = Cardinality(S) * r
<1>1. Cells(f, S) = S \X (1 .. r)
  BY DEF Cells
<1>2. IsFiniteSet(1 .. r) /\ Cardinality(1 .. r) = r
  BY FS_Interval
<1>. QED BY <1>1, <1>2, FS_Product

\* A turn of the sum's fold, as it is when the fold of less is g.
SumTurn(f, g, s) == IF s = {} THEN 0 ELSE LET x == CHOOSE x \in s : TRUE IN f[x] + g[s \ {x}]

\* Plus gives the number of the cells.
LEMMA SumIs ==
  ASSUME NEW f, NEW S, IsFiniteSet(S), \A a \in S : f[a] \in Nat
  PROVE  Scores!Plus(f, S) = Cardinality(Cells(f, S)) /\ Scores!Plus(f, S) \in Nat
<1>1. PICK g : g = [s \in SUBSET S |-> Cardinality(Cells(f, s))]
  OBVIOUS
<1>2. PICK h : h = CHOOSE x : x = [s \in SUBSET S |-> SumTurn(f, x, s)]
  OBVIOUS
<1>3. Scores!Plus(f, S) = h[S]
  BY <1>2, Zenon DEF Scores!Plus, Scores!SumFunctionOnSet, Scores!FoldFunctionOnSet, Scores!MapThenFoldSet, SumTurn
<1>4. ASSUME NEW s \in SUBSET S PROVE g[s] = SumTurn(f, g, s) /\ g[s] \in Nat
  <2>1. g[s] = Cardinality(Cells(f, s))
    BY <1>1
  <2>2. IsFiniteSet(s) /\ IsFiniteSet({})
    BY <1>4, FS_Subset, FS_EmptySet
  <2>3. g[s] \in Nat
    BY <2>1, <2>2, CellsFinite
  <2>4. CASE s = {}
    <3>1. Cells(f, s) = {}
      BY <2>4 DEF Cells
    <3>. QED BY <2>1, <2>3, <2>4, <3>1, FS_EmptySet DEF SumTurn
  <2>5. CASE s # {}
    <3>1. PICK x : x = CHOOSE y \in s : TRUE
      OBVIOUS
    <3>2. x \in s
      BY <2>5, <3>1
    <3>3. PICK t : t = s \ {x}
      OBVIOUS
    <3>4. t \in SUBSET S /\ IsFiniteSet(t) /\ IsFiniteSet({x}) /\ t \intersect {x} = {} /\ t \union {x} = s
      <4>1. IsFiniteSet(t)
        BY <2>2, <3>3, FS_RemoveElement
      <4>2. IsFiniteSet({x})
        BY FS_Singleton
      <4>. QED BY <3>2, <3>3, <4>1, <4>2
    <3>5. /\ Cardinality(Cells(f, t)) \in Nat
          /\ Cardinality(Cells(f, s)) = Cardinality(Cells(f, t)) + Cardinality(Cells(f, {x}))
      <4>1. \A a \in t \union {x} : f[a] \in Nat
        BY <3>4
      <4>2. Cardinality(Cells(f, t)) \in Nat
        BY <3>4, CellsFinite
      <4>3. Cardinality(Cells(f, t \union {x})) = Cardinality(Cells(f, t)) + Cardinality(Cells(f, {x}))
        BY <3>4, <4>1, CellsJoin
      <4>. QED BY <3>4, <4>2, <4>3
    <3>6. f[x] \in Nat
      BY <3>2
    <3>7. Cardinality(Cells(f, {x})) = f[x]
      <4>1. Cardinality({x}) = 1 /\ IsFiniteSet({x}) /\ \A a \in {x} : f[a] = f[x]
        BY FS_Singleton
      <4>2. Cardinality(Cells(f, {x})) = Cardinality({x}) * f[x]
        BY <3>6, <4>1, OneColumn
      <4>. QED BY <3>6, <4>1, <4>2
    <3>8. g[t] = Cardinality(Cells(f, t))
      BY <1>1, <3>4
    <3>9. SumTurn(f, g, s) = f[x] + g[t]
      BY <2>5, <3>1, <3>3 DEF SumTurn
    <3>. QED BY <2>1, <2>3, <3>5, <3>6, <3>7, <3>8, <3>9
  <2>. QED BY <2>4, <2>5
<1>5. h = [s \in SUBSET S |-> SumTurn(f, h, s)]
  <2>1. [s \in SUBSET S |-> g[s]] = [s \in SUBSET S |-> SumTurn(f, g, s)]
    BY <1>4
  <2>2. g = [s \in SUBSET S |-> SumTurn(f, g, s)]
    BY <1>1, <2>1
  <2>. QED BY <1>2, <2>2
<1>6. PICK T : T = {s \in SUBSET S : h[s] # g[s]}
  OBVIOUS
<1>7. ASSUME T # {} PROVE FALSE
  <2>1. \A s \in SUBSET S : IsFiniteSet(s) /\ Cardinality(s) \in Nat
    BY FS_Subset, FS_CardinalityType
  <2>2. PICK sizes : sizes = {Cardinality(s) : s \in T}
    OBVIOUS
  <2>3. PICK n \in sizes : \A m \in sizes : n <= m
    BY <1>6, <1>7, <2>1, <2>2, LeastElement
  <2>4. PICK s \in T : n = Cardinality(s)
    BY <2>2, <2>3
  <2>5. s \in SUBSET S /\ h[s] # g[s] /\ IsFiniteSet(s)
    BY <1>6, <2>1, <2>4
  <2>6. h[s] = SumTurn(f, h, s)
    BY <1>5, <2>5
  <2>7. g[s] = SumTurn(f, g, s)
    BY <1>4, <2>5
  <2>8. CASE s = {}
    BY <2>5, <2>6, <2>7, <2>8 DEF SumTurn
  <2>9. CASE s # {}
    <3>1. PICK x : x = CHOOSE y \in s : TRUE
      OBVIOUS
    <3>2. x \in s
      BY <2>9, <3>1
    <3>3. PICK t : t = s \ {x}
      OBVIOUS
    <3>4. t \in SUBSET S /\ Cardinality(t) = Cardinality(s) - 1
      BY <2>5, <3>2, <3>3, FS_RemoveElement
    <3>5. t \notin T
      BY <2>1, <2>2, <2>3, <2>4, <2>5, <3>4
    <3>6. h[t] = g[t]
      BY <1>6, <3>4, <3>5
    <3>7. SumTurn(f, h, s) = f[x] + h[t] /\ SumTurn(f, g, s) = f[x] + g[t]
      BY <2>9, <3>1, <3>3 DEF SumTurn
    <3>. QED BY <2>5, <2>6, <2>7, <3>6, <3>7
  <2>. QED BY <2>8, <2>9
<1>8. h[S] = g[S] /\ g[S] \in Nat /\ g[S] = Cardinality(Cells(f, S))
  BY <1>1, <1>4, <1>6, <1>7
<1>. QED BY <1>3, <1>8

LEMMA NearestSetIs ==
  ASSUME NEW d, NEW rows, NEW S \in Scores!NearestSets(d, rows)
  PROVE  S \subseteq rows /\ Cardinality(S) = K /\ \A a \in S, b \in rows \ S : d[a] <= d[b]
BY Zenon DEF Scores!NearestSets, Scores!kSubset, Scores!Cardinality, Cardinality

\* Two choices among rows that are equally far differ in rows of one distance.
LEMMA OneDistance ==
  ASSUME NEW d, NEW rows, \A a \in rows : d[a] \in Nat,
         NEW S \in Scores!NearestSets(d, rows), NEW T \in Scores!NearestSets(d, rows)
  PROVE  \A a \in S \ T, b \in T \ S : d[a] = d[b]
<1>1. TAKE a \in S \ T, b \in T \ S
<1>2. a \in rows /\ b \in rows /\ d[a] <= d[b] /\ d[b] <= d[a]
  BY NearestSetIs
<1>. QED BY <1>2

\* They have one sum.
LEMMA SumsAgree ==
  ASSUME NEW d, NEW rows, IsFiniteSet(rows), \A a \in rows : d[a] \in Nat,
         NEW S \in Scores!NearestSets(d, rows), NEW T \in Scores!NearestSets(d, rows)
  PROVE  Scores!Plus(d, S) = Scores!Plus(d, T)
<1>1. S \subseteq rows /\ T \subseteq rows /\ Cardinality(S) = K /\ Cardinality(T) = K
  BY NearestSetIs
<1>2. IsFiniteSet(S) /\ IsFiniteSet(T)
  BY <1>1, FS_Subset
<1>3. PICK A : A = S \intersect T
  OBVIOUS
<1>4. PICK B : B = S \ T
  OBVIOUS
<1>5. PICK C : C = T \ S
  OBVIOUS
<1>6. IsFiniteSet(A) /\ IsFiniteSet(B) /\ IsFiniteSet(C)
  BY <1>2, <1>3, <1>4, <1>5, FS_Subset
<1>7. A \union B = S /\ A \union C = T /\ A \intersect B = {} /\ A \intersect C = {}
  BY <1>3, <1>4, <1>5
<1>8. Cardinality(A) \in Nat /\ Cardinality(B) \in Nat /\ Cardinality(C) \in Nat /\ Cardinality({}) = 0
  BY <1>6, FS_CardinalityType, FS_EmptySet
<1>9. Cardinality(A \union B) = Cardinality(A) + Cardinality(B) - Cardinality(A \intersect B)
  BY <1>6, FS_Union
<1>10. Cardinality(A \union C) = Cardinality(A) + Cardinality(C) - Cardinality(A \intersect C)
  BY <1>6, FS_Union
<1>11. K = Cardinality(A) + Cardinality(B) /\ K = Cardinality(A) + Cardinality(C)
  <2>1. Cardinality(A \intersect B) = 0 /\ Cardinality(A \intersect C) = 0
    BY <1>7, <1>8, Zenon
  <2>2. Cardinality(A \union B) = K /\ Cardinality(A \union C) = K
    BY <1>1, <1>7, Zenon
  <2>. QED BY <1>8, <1>9, <1>10, <2>1, <2>2
<1>12. Cardinality(B) = Cardinality(C)
  BY <1>8, <1>11
<1>13. CASE B = {}
  <2>1. Cardinality(C) = 0
    BY <1>8, <1>12, <1>13, Zenon
  <2>2. C = {}
    BY <1>6, <2>1, FS_EmptySet
  <2>3. S = T
    BY <1>4, <1>5, <1>13, <2>2
  <2>. QED BY <2>3
<1>14. CASE B # {}
  <2>1. C # {}
    <3>1. Cardinality(B) # 0
      BY <1>6, <1>14, FS_EmptySet
    <3>. QED BY <1>8, <1>12, <3>1, Zenon
  <2>2. PICK c : c \in C
    BY <2>1
  <2>3. PICK r : r = d[c]
    OBVIOUS
  <2>4. r \in Nat
    BY <1>1, <1>5, <2>2, <2>3
  <2>5. \A a \in B, b \in C : d[a] = d[b]
    BY <1>4, <1>5, OneDistance
  <2>6. \A a \in B : d[a] = r
    BY <2>2, <2>3, <2>5
  <2>7. \A b \in C : d[b] = r
    BY <1>14, <2>2, <2>3, <2>5
  <2>8. Cardinality(Cells(d, B)) = Cardinality(B) * r
    BY <1>6, <2>4, <2>6, OneColumn
  <2>9. Cardinality(Cells(d, C)) = Cardinality(C) * r
    BY <1>6, <2>4, <2>7, OneColumn
  <2>10. \A a \in A \union B : d[a] \in Nat
    BY <1>1, <1>7
  <2>11. \A a \in A \union C : d[a] \in Nat
    BY <1>1, <1>7
  <2>12. Cardinality(Cells(d, A \union B)) = Cardinality(Cells(d, A)) + Cardinality(Cells(d, B))
    BY <1>6, <1>7, <2>10, CellsJoin
  <2>13. Cardinality(Cells(d, A \union C)) = Cardinality(Cells(d, A)) + Cardinality(Cells(d, C))
    BY <1>6, <1>7, <2>11, CellsJoin
  <2>14. Cardinality(Cells(d, S)) = Cardinality(Cells(d, T))
    <3>1. Cardinality(Cells(d, B)) = Cardinality(Cells(d, C))
      BY <1>12, <2>8, <2>9, Zenon
    <3>. QED BY <1>7, <2>12, <2>13, <3>1, Zenon
  <2>15. Scores!Plus(d, S) = Cardinality(Cells(d, S))
    BY <1>1, <1>2, SumIs
  <2>16. Scores!Plus(d, T) = Cardinality(Cells(d, T))
    BY <1>1, <1>2, SumIs
  <2>. QED BY <2>14, <2>15, <2>16
<1>. QED BY <1>13, <1>14

\* What a full queue gives back first is at the distance of the Kth nearest row.
LEMMA KthIs ==
  ASSUME NEW d, \A a \in Scores!Row : d[a] \in Int, NEW self \in Scores!Row \union {Scores!Nobody}
  PROVE  /\ Scores!Q!get(Scores!near(d, self), d) \in Scores!Row
         /\ d[Scores!Q!get(Scores!near(d, self), d)] = Scores!KthDistance(d, Scores!Row \ {self})
<1>1. PICK rows : rows = Scores!Row \ {self}
  OBVIOUS
<1>2. PICK S : S = Scores!near(d, self)
  OBVIOUS
<1>3. PICK t : t = get(S, d)
  OBVIOUS
<1>4. K \in Nat \ {0} /\ N \in Nat
  BY LofAssumed DEF Scores!LofAssumption
<1>5. /\ IsFiniteSet(S) /\ S \subseteq rows /\ Cardinality(S) = K
      /\ \A a \in S, b \in rows \ S : d[a] <= d[b]
  <2>1. S \in Scores!NearestSets(d, rows) /\ NearestOf(S, d, K, rows)
    BY <1>1, <1>2, NearIs
  <2>. QED BY <2>1, NearestSetIs DEF NearestOf
<1>6. /\ IsFiniteSet(rows) /\ \A a \in rows : a \in Int /\ d[a] \in Int
  <2>1. IsFiniteSet(Scores!Row) /\ \A a \in Scores!Row : a \in Int
    BY <1>4, FS_Interval DEF Scores!Row
  <2>. QED BY <1>1, <2>1, FS_Subset
<1>7. t \in S /\ \A b \in S : d[b] <= d[t]
  <2>1. S # {}
    BY <1>4, <1>5, FS_EmptySet
  <2>2. t \in S /\ \A b \in S : Before(d, t, b)
    BY <1>3, <1>5, <1>6, <2>1, GetExists
  <2>. QED BY <1>5, <1>6, <2>2 DEF Before
<1>. DEFINE Nearer(r) == {a \in rows : d[a] < r}
            Within(r) == {a \in rows : d[a] <= r}
            Kth(r) == Cardinality(Nearer(r)) < K /\ K <= Cardinality(Within(r))
<1>8. \A r : /\ IsFiniteSet(Nearer(r)) /\ Cardinality(Nearer(r)) \in Nat
             /\ IsFiniteSet(Within(r)) /\ Cardinality(Within(r)) \in Nat
  <2>1. \A r : Nearer(r) \subseteq rows /\ Within(r) \subseteq rows
    OBVIOUS
  <2>. QED BY <1>6, <2>1, FS_Subset, FS_CardinalityType
<1>. HIDE DEF Nearer, Within
<1>9. Kth(d[t]) /\ d[t] \in {d[a] : a \in rows}
  <2>1. S \subseteq Within(d[t])
    BY <1>5, <1>7 DEF Within
  <2>2. Cardinality(S) <= Cardinality(Within(d[t]))
    BY <1>8, <2>1, FS_Subset
  <2>3. ASSUME NEW a \in Nearer(d[t]) PROVE a \in S \ {t}
    BY <1>5, <1>6, <1>7 DEF Nearer
  <2>4. IsFiniteSet(S \ {t}) /\ Cardinality(S \ {t}) = K - 1
    BY <1>5, <1>7, FS_RemoveElement
  <2>5. Cardinality(Nearer(d[t])) <= Cardinality(S \ {t})
    <3>1. Nearer(d[t]) \subseteq S \ {t}
      BY <2>3
    <3>. QED BY <2>4, <3>1, FS_Subset
  <2>6. Cardinality(Nearer(d[t])) < K
    BY <1>4, <1>8, <2>4, <2>5
  <2>. QED BY <1>5, <1>7, <2>2, <2>6
<1>10. ASSUME NEW r \in {d[a] : a \in rows}, NEW s \in {d[a] : a \in rows}, Kth(r), Kth(s), r < s PROVE FALSE
  <2>1. r \in Int /\ s \in Int
    BY <1>6
  <2>2. Within(r) \subseteq Nearer(s)
    BY <1>6, <1>10, <2>1 DEF Nearer, Within
  <2>3. Cardinality(Within(r)) <= Cardinality(Nearer(s))
    BY <1>8, <2>2, FS_Subset
  <2>. QED BY <1>4, <1>8, <1>10, <2>3
<1>11. ASSUME NEW r \in {d[a] : a \in rows}, Kth(r) PROVE r = d[t]
  <2>1. r \in Int /\ d[t] \in Int
    BY <1>5, <1>6, <1>7
  <2>2. ~(r < d[t]) /\ ~(d[t] < r)
    BY <1>9, <1>10, <1>11
  <2>. QED BY <2>1, <2>2
<1>12. Scores!KthDistance(d, rows) = CHOOSE r \in {d[a] : a \in rows} : Kth(r)
  BY Zenon DEF Nearer, Within, Scores!KthDistance, Scores!Cardinality, Cardinality
<1>13. Scores!KthDistance(d, rows) = d[t]
  BY <1>9, <1>11, <1>12
<1>14. Scores!Q!get(S, d) = t
  BY <1>3, Zenon DEF Scores!Q!get, get, Scores!Q!Before, Before
<1>15. t \in Scores!Row
  BY <1>1, <1>5, <1>7
<1>. QED BY <1>1, <1>2, <1>13, <1>14, <1>15

\* A square has a root.
LEMMA SquareRoots == ASSUME NEW x \in Int PROVE \E r \in 0 .. x * x : r * r = x * x
<1>1. CASE x >= 0
  <2>1. x <= x * x
    BY <1>1
  <2>. QED BY <1>1, <2>1
<1>2. CASE x < 0
  <2>1. PICK y \in Nat : y = -x
    BY <1>2
  <2>2. y * y = x * x /\ y <= y * y
    BY <2>1
  <2>. QED BY <2>1, <2>2
<1>. QED BY <1>1, <1>2

\* Distances are natural numbers.
LEMMA DistancesAre ==
  ASSUME NEW u \in Point, NEW v \in Point
  PROVE  Scores!LofDistance(u, v) \in Nat /\ Scores!Distance(u, v) \in Nat
<1>1. u[1] \in Nat /\ u[2] \in Nat /\ v[1] \in Nat /\ v[2] \in Nat
  BY LofAssumed DEF Scores!LofAssumption
<1>2. PICK x \in Int : x = u[2] - v[2]
  BY <1>1
<1>3. PICK y \in Int : y = u[1] - v[1]
  BY <1>1
<1>4. \E r \in 0 .. y * y + x * x : r * r = y * y + x * x
  <2>1. LET n == Scores!Square(u[1] - v[1]) + Scores!Square(u[2] - v[2]) IN \E r \in 0 .. n : r * r = n
    BY LofAssumed, Zenon DEF Scores!LofAssumption
  <2>2. Scores!Square(u[1] - v[1]) = y * y /\ Scores!Square(u[2] - v[2]) = x * x
    BY <1>2, <1>3, Zenon DEF Scores!Square
  <2>. QED BY <2>1, <2>2, Zenon
<1>5. \E r \in 0 .. x * x : r * r = x * x
  BY SquareRoots
<1>6. ASSUME NEW n \in Int, \E r \in 0 .. n : r * r = n PROVE Scores!Root(n) \in Nat
  <2>1. PICK c : c = CHOOSE r \in 0 .. n : r * r = n
    OBVIOUS
  <2>2. c \in 0 .. n
    BY <1>6, <2>1, Zenon
  <2>3. c \in Nat
    BY <2>2
  <2>. QED BY <2>1, <2>3, Zenon DEF Scores!Root
<1>7. x * x \in Int /\ y * y + x * x \in Int
  OBVIOUS
<1>8. Scores!LofDistance(u, v) = Scores!Root(x * x)
  BY <1>2, Zenon DEF Scores!LofDistance, Scores!Square
<1>9. Scores!Distance(u, v) = Scores!Root(y * y + x * x)
  BY <1>2, <1>3, Zenon DEF Scores!Distance, Scores!Square
<1>. QED BY <1>4, <1>5, <1>6, <1>7, <1>8, <1>9

\* What the scores are made from, and the scores.
Trained ==
  /\ kdis = Scores!getk_distance(Scores!getdisance)
  /\ lrd = Scores!getlrd(Scores!getdisance, kdis)
  /\ knn = Scores!getknn
Scored ==
  \/ score = [a \in {Scores!Nobody} |-> Scores!oplof] /\ knnscore = [a \in {Scores!Nobody} |-> Scores!getopknn]
  \/ score = Scores!getlof(Scores!getdisance, lrd) /\ knnscore = Scores!getknnpro(knn)

ScoresInv ==
  /\ data \in [Scores!Row -> Point] /\ onepoint \in Point
  /\ lofpc \in {"train", "score", "done"}
  /\ lofpc # "train" => Trained
  /\ IF lofpc = "done" THEN Scored ELSE score = <<>> /\ knnscore = <<>>

\* There are none at the start.
LEMMA InitScores == Scores!Init => ScoresInv
BY DEF Scores!Init, ScoresInv

\* What they are computed from stays.
LEMMA ScoresStay ==
  ASSUME data' = data, onepoint' = onepoint
  PROVE  /\ Scores!getdisance' = Scores!getdisance /\ Scores!getknn' = Scores!getknn
         /\ \A f : Scores!getknnpro(f)' = Scores!getknnpro(f)
BY Zenon DEF Scores!getdisance, Scores!getknn, Scores!knndismatrix, Scores!getknnpro

\* Training and scoring keep ScoresInv.
LEMMA NextScores == ScoresInv /\ [Scores!Next]_(Scores!vars) => ScoresInv'
<1>. SUFFICES ASSUME ScoresInv, [Scores!Next]_(Scores!vars) PROVE ScoresInv'
  OBVIOUS
<1>1. CASE Scores!trainNormaiData
  <2>1. /\ kdis' = Scores!getk_distance(Scores!getdisance) /\ lrd' = Scores!getlrd(Scores!getdisance, kdis')
        /\ knn' = Scores!getknn /\ data' = data /\ onepoint' = onepoint /\ score' = score /\ knnscore' = knnscore
        /\ lofpc = "train" /\ lofpc' = "score"
    BY <1>1, Zenon DEF Scores!trainNormaiData
  <2>2. Trained'
    BY <2>1, ScoresStay, Zenon DEF Trained
  <2>. QED BY <2>1, <2>2 DEF ScoresInv
<1>2. CASE Scores!getoplof
  <2>1. /\ score' = [a \in {Scores!Nobody} |-> Scores!oplof]
        /\ knnscore' = [a \in {Scores!Nobody} |-> Scores!getopknn]
        /\ data' = data /\ onepoint' = onepoint /\ kdis' = kdis /\ lrd' = lrd /\ knn' = knn
        /\ lofpc = "score" /\ lofpc' = "done"
    BY <1>2, Zenon DEF Scores!getoplof
  <2>2. Trained'
    BY <2>1, ScoresStay, Zenon DEF ScoresInv, Trained
  <2>3. Scores!oplof' = Scores!oplof /\ Scores!getopknn' = Scores!getopknn
    BY <2>1, Zenon DEF Scores!oplof, Scores!getopknn, Scores!OpDistance
  <2>4. Scored'
    BY <2>1, <2>3, Zenon DEF Scored
  <2>. QED BY <2>1, <2>2, <2>4 DEF ScoresInv
<1>3. CASE Scores!ScoreRows
  <2>1. /\ kdis' = Scores!getk_distance(Scores!getdisance) /\ lrd' = Scores!getlrd(Scores!getdisance, kdis')
        /\ knn' = Scores!getknn /\ data' = data /\ onepoint' = onepoint
        /\ score' = Scores!getlof(Scores!getdisance, lrd') /\ knnscore' = Scores!getknnpro(knn')
        /\ lofpc = "train" /\ lofpc' = "done"
    BY <1>3, Zenon DEF Scores!ScoreRows
  <2>2. Trained'
    BY <2>1, ScoresStay, Zenon DEF Trained
  <2>3. Scored'
    BY <2>1, ScoresStay, Zenon DEF Scored
  <2>. QED BY <2>1, <2>2, <2>3 DEF ScoresInv
<1>4. CASE UNCHANGED Scores!vars
  <2>1. /\ data' = data /\ onepoint' = onepoint /\ kdis' = kdis /\ lrd' = lrd /\ knn' = knn
        /\ score' = score /\ knnscore' = knnscore /\ lofpc' = lofpc
    BY <1>4 DEF Scores!vars
  <2>2. Scores!oplof' = Scores!oplof /\ Scores!getopknn' = Scores!getopknn
    BY <2>1, Zenon DEF Scores!oplof, Scores!getopknn, Scores!OpDistance
  <2>3. (Trained => Trained') /\ (Scored => Scored')
    BY <2>1, <2>2, ScoresStay, Zenon DEF Trained, Scored
  <2>. QED BY <2>1, <2>3 DEF ScoresInv
<1>. QED BY <1>1, <1>2, <1>3, <1>4 DEF Scores!Next

\* The matrices are of natural numbers.
LEMMA MatricesAre ==
  ASSUME data \in [Scores!Row -> Point], onepoint \in Point, NEW a \in Scores!Row
  PROVE  /\ Scores!getdisance[a] \in [Scores!Row -> Nat] /\ Scores!knndismatrix[a] \in [Scores!Row -> Nat]
         /\ Scores!OpDistance \in [Scores!Row -> Nat]
<1>1. ASSUME NEW b \in Scores!Row
      PROVE  /\ Scores!LofDistance(data[a], data[b]) \in Nat /\ Scores!Distance(data[a], data[b]) \in Nat
             /\ Scores!Distance(data[b], onepoint) \in Nat
  BY DistancesAre
<1>. QED BY <1>1 DEF Scores!getdisance, Scores!knndismatrix, Scores!OpDistance

\* The greater of two.
LEMMA MaxOfTwo ==
  ASSUME NEW x \in Nat, NEW y \in Nat
  PROVE  Scores!Max({x, y}) = IF x > y THEN x ELSE y
BY DEF Scores!Max

\* A density's divisor, from either loop.
LEMMA FartherIs ==
  ASSUME kdis \in [Scores!Row -> Nat], NEW d \in [Scores!Row -> Nat], NEW S \in SUBSET Scores!Row
  PROVE  /\ Scores!Farther(d, S) = Scores!Plus([b \in Scores!Row |-> IF d[b] > kdis[b] THEN d[b] ELSE kdis[b]], S) + 1
         /\ Scores!Farther(d, S) = 1 + Scores!Plus([b \in Scores!Row |-> IF kdis[b] > d[b] THEN kdis[b] ELSE d[b]], S)
<1>1. PICK f : f = [b \in Scores!Row |-> Scores!Max({d[b], kdis[b]})]
  OBVIOUS
<1>2. ASSUME NEW b \in Scores!Row
      PROVE  /\ f[b] \in Nat /\ f[b] = IF d[b] > kdis[b] THEN d[b] ELSE kdis[b]
             /\ f[b] = IF kdis[b] > d[b] THEN kdis[b] ELSE d[b]
  <2>1. f[b] = IF d[b] > kdis[b] THEN d[b] ELSE kdis[b]
    BY <1>1, MaxOfTwo
  <2>. QED BY <2>1
<1>3. /\ f = [b \in Scores!Row |-> IF d[b] > kdis[b] THEN d[b] ELSE kdis[b]]
      /\ f = [b \in Scores!Row |-> IF kdis[b] > d[b] THEN kdis[b] ELSE d[b]]
  BY <1>1, <1>2
<1>4. IsFiniteSet(S)
  <2>1. N \in Nat
    BY LofAssumed DEF Scores!LofAssumption
  <2>2. IsFiniteSet(Scores!Row)
    BY <2>1, FS_Interval DEF Scores!Row
  <2>. QED BY <2>2, FS_Subset
<1>5. Scores!Plus(f, S) \in Nat
  BY <1>2, <1>4, SumIs
<1>6. Scores!Farther(d, S) = 1 + Scores!Plus(f, S)
  BY <1>1, Zenon DEF Scores!Farther
<1>7. 1 + Scores!Plus(f, S) = Scores!Plus(f, S) + 1
  BY <1>5
<1>. QED BY <1>3, <1>6, <1>7, Zenon

\* The nearest rows of a row, and of the point.
LEMMA NearestRows ==
  ASSUME NEW d \in [Scores!Row -> Nat], NEW self \in Scores!Row \union {Scores!Nobody}
  PROVE  /\ Scores!near(d, self) \in Scores!NearestSets(d, Scores!Row \ {self})
         /\ Scores!near(d, self) \in SUBSET Scores!Row
<1>1. \A a \in Scores!Row : d[a] \in Int
  OBVIOUS
<1>2. Scores!near(d, self) \in Scores!NearestSets(d, Scores!Row \ {self})
  BY <1>1, NearIs
<1>3. Scores!near(d, self) \subseteq Scores!Row \ {self}
  BY <1>2, NearestSetIs
<1>. QED BY <1>2, <1>3

\* Training makes what the scores are defined from.
LEMMA TrainedIs ==
  ASSUME data \in [Scores!Row -> Point], onepoint \in Point, Trained
  PROVE  /\ kdis \in [Scores!Row -> Nat]
         /\ \A a \in Scores!Row : /\ kdis[a] = Scores!KthDistance(Scores!getdisance[a], Scores!Row \ {a})
                                  /\ lrd[a] = Scores!Farther(Scores!getdisance[a], Scores!near(Scores!getdisance[a], a))
                                  /\ knn[a] = Scores!Plus(Scores!knndismatrix[a], Scores!near(Scores!knndismatrix[a], a))
<1>. DEFINE matrix == Scores!getdisance
<1>1. \A a \in Scores!Row : matrix[a] \in [Scores!Row -> Nat]
  BY MatricesAre
<1>. HIDE DEF matrix
<1>2. kdis = Scores!getk_distance(matrix) /\ lrd = Scores!getlrd(matrix, kdis) /\ knn = Scores!getknn
  BY Zenon DEF Trained, matrix
<1>3. kdis = [a \in Scores!Row |-> matrix[a][Scores!Q!get(Scores!near(matrix[a], a), matrix[a])]]
  BY <1>2, Zenon DEF Scores!getk_distance
<1>4. ASSUME NEW a \in Scores!Row
      PROVE  kdis[a] = Scores!KthDistance(matrix[a], Scores!Row \ {a}) /\ kdis[a] \in Nat
  <2>1. \A b \in Scores!Row : matrix[a][b] \in Nat
    BY <1>1
  <2>2. kdis[a] = matrix[a][Scores!Q!get(Scores!near(matrix[a], a), matrix[a])]
    BY <1>3, Zenon
  <2>3. \A b \in Scores!Row : matrix[a][b] \in Int
    BY <2>1
  <2>4. /\ Scores!Q!get(Scores!near(matrix[a], a), matrix[a]) \in Scores!Row
        /\ matrix[a][Scores!Q!get(Scores!near(matrix[a], a), matrix[a])] = Scores!KthDistance(matrix[a], Scores!Row \ {a})
    BY <2>3, KthIs
  <2>. QED BY <2>1, <2>2, <2>4
<1>5. kdis \in [Scores!Row -> Nat]
  BY <1>3, <1>4
<1>6. ASSUME NEW a \in Scores!Row PROVE lrd[a] = Scores!Farther(matrix[a], Scores!near(matrix[a], a))
  <2>1. PICK d : d = matrix[a]
    OBVIOUS
  <2>2. d \in [Scores!Row -> Nat]
    BY <1>1, <2>1
  <2>3. lrd[a] = Scores!Plus([b \in Scores!Row |-> IF d[b] > kdis[b] THEN d[b] ELSE kdis[b]], Scores!near(d, a)) + 1
    BY <1>2, <2>1, Zenon DEF Scores!getlrd, Scores!reach
  <2>4. Scores!near(d, a) \in SUBSET Scores!Row
    BY <2>2, NearestRows
  <2>. QED BY <1>5, <2>1, <2>2, <2>3, <2>4, FartherIs
<1>7. ASSUME NEW a \in Scores!Row
      PROVE  knn[a] = Scores!Plus(Scores!knndismatrix[a], Scores!near(Scores!knndismatrix[a], a))
  BY <1>2, Zenon DEF Scores!getknn
<1>. QED BY <1>4, <1>5, <1>6, <1>7, Zenon DEF matrix

\* The point's scores.
LEMMA PointScores ==
  ASSUME data \in [Scores!Row -> Point], onepoint \in Point, Trained
  PROVE  LET d == Scores!OpDistance
             S == Scores!near(d, Scores!Nobody)
         IN  /\ S \in Scores!NearestSets(d, Scores!Row \ {Scores!Nobody})
             /\ Scores!oplof = Scores!Ratio(S, Scores!Farther(d, S), lrd)
             /\ Scores!getopknn = [num |-> K * Scores!Plus(d, S), den |-> K + Scores!Plus(knn, S)]
<1>1. PICK d : d = Scores!OpDistance
  OBVIOUS
<1>2. PICK S : S = Scores!near(d, Scores!Nobody)
  OBVIOUS
<1>3. d \in [Scores!Row -> Nat]
  <2>0. N \in Nat /\ K \in 1 .. N - 1
    BY LofAssumed DEF Scores!LofAssumption
  <2>1. 0 \in Scores!Row
    BY <2>0 DEF Scores!Row
  <2>. QED BY <1>1, <2>1, MatricesAre, Zenon
<1>4. S \in Scores!NearestSets(d, Scores!Row \ {Scores!Nobody}) /\ S \in SUBSET Scores!Row
  BY <1>2, <1>3, NearestRows
<1>5. Scores!oplof = Scores!Ratio(S, Scores!Farther(d, S), lrd)
  <2>1. Scores!oplof = Scores!Ratio(S, 1 + Scores!Plus([b \in Scores!Row |-> IF kdis[b] > d[b] THEN kdis[b] ELSE d[b]], S), lrd)
    BY <1>1, <1>2, Zenon DEF Scores!oplof
  <2>2. kdis \in [Scores!Row -> Nat]
    BY TrainedIs
  <2>. QED BY <1>3, <1>4, <2>1, <2>2, FartherIs
<1>6. Scores!getopknn = [num |-> K * Scores!Plus(d, S), den |-> K + Scores!Plus(knn, S)]
  BY <1>1, <1>2, Zenon DEF Scores!getopknn
<1>. QED BY <1>1, <1>2, <1>4, <1>5, <1>6

\* The scores of Scored are the scores defined.
LEMMA ScoredAreRight == ScoresInv => ScoresAreRight
<1>. SUFFICES ASSUME ScoresInv, lofpc # "train" PROVE ScoresAreRight
  BY Zenon DEF ScoresAreRight, Scores!ScoreIsLof, Scores!KnnIsRatio
<1>1. data \in [Scores!Row -> Point] /\ onepoint \in Point /\ Trained
  BY DEF ScoresInv
<1>. DEFINE matrix == Scores!getdisance
            knnmatrix == Scores!knndismatrix
            neighbours(a) == Scores!near(matrix[a], a)
            knnneighbours(a) == Scores!near(knnmatrix[a], a)
<1>2. ASSUME NEW a \in Scores!Row
      PROVE  /\ matrix[a] \in [Scores!Row -> Nat] /\ knnmatrix[a] \in [Scores!Row -> Nat]
             /\ neighbours(a) \in Scores!NearestSets(matrix[a], Scores!Row \ {a})
             /\ knnneighbours(a) \in Scores!NearestSets(knnmatrix[a], Scores!Row \ {a})
  <2>1. matrix[a] \in [Scores!Row -> Nat] /\ knnmatrix[a] \in [Scores!Row -> Nat]
    BY <1>1, MatricesAre
  <2>. QED BY <2>1, NearestRows
<1>3. \A a \in Scores!Row : kdis[a] = Scores!KthDistance(matrix[a], Scores!Row \ {a})
  BY <1>1, TrainedIs
<1>4. \A a \in Scores!Row : lrd[a] = Scores!Farther(matrix[a], neighbours(a))
  BY <1>1, TrainedIs
<1>5. ASSUME NEW a \in Scores!Row, NEW S \in Scores!NearestSets(knnmatrix[a], Scores!Row \ {a})
      PROVE  knn[a] = Scores!Plus(knnmatrix[a], S)
  <2>1. N \in Nat
    BY LofAssumed DEF Scores!LofAssumption
  <2>2. IsFiniteSet(Scores!Row)
    BY <2>1, FS_Interval DEF Scores!Row
  <2>3. IsFiniteSet(Scores!Row \ {a})
    BY <2>2, FS_RemoveElement
  <2>4. knn[a] = Scores!Plus(knnmatrix[a], knnneighbours(a))
    BY <1>1, TrainedIs
  <2>5. \A b \in Scores!Row \ {a} : knnmatrix[a][b] \in Nat
    BY <1>2
  <2>6. Scores!Plus(knnmatrix[a], S) = Scores!Plus(knnmatrix[a], knnneighbours(a))
    BY <1>2, <2>3, <2>5, SumsAgree
  <2>. QED BY <2>4, <2>6
<1>6. \A a \in Scores!Row : a # Scores!Nobody
  BY DEF Scores!Row, Scores!Nobody
<1>. DEFINE From(a) == IF a = Scores!Nobody THEN Scores!OpDistance ELSE matrix[a]
            KnnFrom(a) == IF a = Scores!Nobody THEN Scores!OpDistance ELSE knnmatrix[a]
            LofOf(a, S) == Scores!Ratio(S, IF a = Scores!Nobody THEN Scores!Farther(From(a), S) ELSE lrd[a], lrd)
            KnnOf(a, S) == [num |-> K * Scores!Plus(KnnFrom(a), S), den |-> K + Scores!Plus(knn, S)]
<1>7. /\ \A a \in DOMAIN score : \E S \in Scores!NearestSets(From(a), Scores!Row \ {a}) : score[a] = LofOf(a, S)
      /\ \A a \in DOMAIN knnscore :
           \E S \in Scores!NearestSets(KnnFrom(a), Scores!Row \ {a}) : knnscore[a] = KnnOf(a, S)
  <2>1. CASE lofpc # "done"
    <3>1. DOMAIN score = {} /\ DOMAIN knnscore = {}
      BY <2>1 DEF ScoresInv
    <3>. QED BY <3>1, Zenon
  <2>2. CASE lofpc = "done" /\ score = [a \in {Scores!Nobody} |-> Scores!oplof]
                            /\ knnscore = [a \in {Scores!Nobody} |-> Scores!getopknn]
    <3>1. DOMAIN score = {Scores!Nobody} /\ DOMAIN knnscore = {Scores!Nobody}
      BY <2>2, Zenon
    <3>2. score[Scores!Nobody] = Scores!oplof /\ knnscore[Scores!Nobody] = Scores!getopknn
      BY <2>2, Zenon
    <3>3. PICK S : S = Scores!near(Scores!OpDistance, Scores!Nobody)
      OBVIOUS
    <3>4. /\ S \in Scores!NearestSets(From(Scores!Nobody), Scores!Row \ {Scores!Nobody})
          /\ S \in Scores!NearestSets(KnnFrom(Scores!Nobody), Scores!Row \ {Scores!Nobody})
          /\ Scores!oplof = LofOf(Scores!Nobody, S) /\ Scores!getopknn = KnnOf(Scores!Nobody, S)
      BY <1>1, <3>3, PointScores, Zenon
    <3>. QED BY <3>1, <3>2, <3>4, Zenon
  <2>3. CASE lofpc = "done" /\ score = Scores!getlof(matrix, lrd) /\ knnscore = Scores!getknnpro(knn)
    <3>1. /\ score = [a \in Scores!Row |-> Scores!Ratio(neighbours(a), lrd[a], lrd)]
          /\ knnscore = [a \in Scores!Row |-> [num |-> K * knn[a], den |-> K + Scores!Plus(knn, knnneighbours(a))]]
      BY <2>3, Zenon DEF Scores!getlof, Scores!getknnpro
    <3>2. ASSUME NEW a \in Scores!Row
          PROVE  score[a] = LofOf(a, neighbours(a)) /\ From(a) = matrix[a] /\ KnnFrom(a) = knnmatrix[a]
      BY <1>6, <3>1, Zenon
    <3>3. ASSUME NEW a \in Scores!Row PROVE knnscore[a] = KnnOf(a, knnneighbours(a))
      <4>1. knnscore[a] = [num |-> K * knn[a], den |-> K + Scores!Plus(knn, knnneighbours(a))]
        BY <3>1, Zenon
      <4>2. knn[a] = Scores!Plus(knnmatrix[a], knnneighbours(a))
        BY <1>2, <1>5, Zenon
      <4>. QED BY <3>2, <4>1, <4>2, Zenon
    <3>4. DOMAIN score = Scores!Row /\ DOMAIN knnscore = Scores!Row
      BY <3>1, Zenon
    <3>. QED BY <1>2, <3>2, <3>3, <3>4, Zenon
  <2>. QED BY <2>1, <2>2, <2>3, Zenon DEF ScoresInv, Scored
<1>8. Scores!ScoreIsLof
  BY <1>2, <1>3, <1>4, <1>7, Zenon DEF Scores!ScoreIsLof
<1>9. Scores!KnnIsRatio
  BY <1>5, <1>7, Zenon DEF Scores!KnnIsRatio
<1>. QED BY <1>8, <1>9, Zenon DEF ScoresAreRight

\* The anomaly scores of calcul_lof.py and calcul_knn.py are those that are
\* defined, for every table of rows whose distances are whole, of every length
\* and for every k: none is another one for the queue's order, for what a full
\* queue gives back, or for ties.
THEOREM ScoresAreFactors == Scores!Spec => []ScoresAreRight
<1>1. Scores!Spec => []ScoresInv
  BY InitScores, NextScores, PTL DEF Scores!Spec
<1>. QED BY <1>1, ScoredAreRight, PTL
=============================================================================
