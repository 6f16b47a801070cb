---------------------------- MODULE NearestQueue ----------------------------
(***************************************************************************)
(* The scan with which calcul_lof.py and calcul_knn.py choose neighbours:  *)
(* a PriorityQueue of k places goes past the rows j = 0 .. N - 1.  It      *)
(* gives back its farthest row when it is full, the first of equals, and   *)
(* takes the new row instead only if that is strictly nearer.              *)
(*                                                                         *)
(* getk_distance keeps only the distances in the queue, the others the     *)
(* rows with them; getoplof and getopknn leave no row out.                 *)
(***************************************************************************)
EXTENDS Integers, FiniteSets

CONSTANTS
  N,      \* datalen
  Places, \* values of k
  Dist    \* values of a distance

QueueAssumption == N \in Nat /\ Places \subseteq Nat \ {0} /\ Dist \subseteq Int

VARIABLES
  dis, i, k,  \* distances from the point, the row it is itself or Nobody
  j, pq

scan == <<dis, i, k, j, pq>>

Row == 0 .. N - 1
Nobody == -1

ScanInit ==
  /\ dis \in [Row -> Dist] /\ i \in Row \union {Nobody} /\ k \in Places
  /\ j = 0 /\ pq = {}

\* Of two rows in the queue with distances d, a comes out before b.
Before(d, a, b) == d[a] > d[b] \/ (d[a] = d[b] /\ a <= b)

get(q, d) == CHOOSE a \in q : \A b \in q : Before(d, a, b)

\* Mutant of offer: the queue gives back its nearest row.
OfferForNearest(q, d, n, a) ==
  IF Cardinality(q) < n THEN q \union {a}
  ELSE LET temp == CHOOSE b \in q : \A c \in q : d[b] <= d[c]
       IN  IF d[a] < d[temp] THEN (q \ {temp}) \union {a} ELSE q

offer(q, d, n, a) ==
  IF Cardinality(q) < n THEN q \union {a}
  ELSE LET temp == get(q, d)
       IN  IF d[a] < d[temp] THEN (q \ {temp}) \union {a} ELSE q

Self == /\ j < N /\ j = i
        /\ j' = j + 1 /\ UNCHANGED <<dis, i, k, pq>>

Offer == /\ j < N /\ j # i
         /\ pq' = offer(pq, dis, k, j)
         /\ j' = j + 1 /\ UNCHANGED <<dis, i, k>>

ScanNext == Self \/ Offer
ScanSpec == ScanInit /\ [][ScanNext]_scan

-----------------------------------------------------------------------------
Seen == (0 .. j - 1) \ {i}

\* After every row: k rows, or all there were, none farther than any other.
KNearest ==
  /\ pq \subseteq Seen /\ Cardinality(pq) <= k
  /\ pq = Seen \/ Cardinality(pq) = k
  /\ \A a \in pq, b \in Seen \ pq : dis[a] <= dis[b]
=============================================================================
