-------------------------------- MODULE Lof --------------------------------
(***************************************************************************)
(* The scores of calcul_lof.py and calcul_knn.py: trainNormaiData on the   *)
(* rows of data, then getoplof and getopknn of one point.                  *)
(*                                                                         *)
(* A row is a pair of columns, and every distance between the rows below   *)
(* is an integer.  A score is a fraction [num, den]; the densities lrd are *)
(* kept as what minpts is divided by, an integer as well.                  *)
(***************************************************************************)
EXTENDS Integers, FiniteSets, FiniteSetsExt, Functions

CONSTANTS
  N,            \* datalen
  K,            \* k and minpts, which the callers give one value
  Point         \* rows, pairs of columns

Square(x) == x * x

\* Every distance is an integer.
LofAssumption ==
  /\ N \in Nat /\ K \in 1 .. N - 1 /\ Point \subseteq Nat \X Nat
  /\ \A u, v \in Point :
       LET n == Square(u[1] - v[1]) + Square(u[2] - v[2]) IN \E r \in 0 .. n : r * r = n

VARIABLES
  data, onepoint,
  kdis, lrd,    \* trained; kdis of calcul_knn.py as well, times k
  knn,
  score, knnscore,  \* of the point, or of every row when there is none
  pc

vars == <<data, onepoint, kdis, lrd, knn, score, knnscore, pc>>

Row == 0 .. N - 1
Untrained == [a \in Row |-> 0]
Nobody == -1

(***************************************************************************)
(* The neighbours are those of the scan of NearestQueue, which leaves out  *)
(* the row itself.                                                         *)
(***************************************************************************)
Q == INSTANCE NearestQueue
       WITH Places <- {K}, Dist <- Nat, dis <- 0, i <- 0, k <- K, j <- 0, pq <- {}

near(d, self) ==
  LET queue[n \in 0 .. N] ==
        IF n = 0 THEN {}
        ELSE IF n - 1 = self THEN queue[n - 1] ELSE Q!offer(queue[n - 1], d, K, n - 1)
  IN  queue[N]

Root(n) == CHOOSE r \in 0 .. n : r * r = n

\* calcul_lof.py leaves out column 0, which of the table psinfo is the id.
LofDistance(a, b) == Root(Square(a[2] - b[2]))
Distance(a, b) == Root(Square(a[1] - b[1]) + Square(a[2] - b[2]))

Plus(f, S) == SumFunctionOnSet(f, S)
Times(f, S) == FoldFunctionOnSet(LAMBDA m, n : m * n, 1, f, S)

(***************************************************************************)
(* calcul_lof.py                                                           *)
(***************************************************************************)
getdisance == [a \in Row |-> [b \in Row |-> LofDistance(data[a], data[b])]]

\* Mutant of getk_distance: the row itself is one of its neighbours.
KDistanceOfAll(matrix) == [a \in Row |-> matrix[a][Q!get(near(matrix[a], Nobody), matrix[a])]]

getk_distance(matrix) == [a \in Row |-> matrix[a][Q!get(near(matrix[a], a), matrix[a])]]

reach(matrix, kd, a, b) == IF matrix[a][b] > kd[b] THEN matrix[a][b] ELSE kd[b]

\* lrd[a] is minpts divided by this.
getlrd(matrix, kd) ==
  [a \in Row |-> Plus([b \in Row |-> reach(matrix, kd, a, b)], near(matrix[a], a)) + 1]

\* The mean of the neighbours' densities, divided by minpts/opreadis.
Ratio(neighbours, opreadis, density) ==
  [num |-> opreadis * Plus([b \in Row |-> Times(density, neighbours \ {b})], neighbours),
   den |-> K * Times(density, neighbours)]

getlof(matrix, density) ==
  [a \in Row |-> Ratio(near(matrix[a], a), density[a], density)]

OpDistance == [a \in Row |-> Distance(data[a], onepoint)]

oplof ==
  LET d == OpDistance
      neighbours == near(d, Nobody)
      opreadis == 1 + Plus([b \in Row |-> IF kdis[b] > d[b] THEN kdis[b] ELSE d[b]], neighbours)
  IN  Ratio(neighbours, opreadis, lrd)

(***************************************************************************)
(* calcul_knn.py, whose getdisance is of all columns.                      *)
(***************************************************************************)
knndismatrix == [a \in Row |-> [b \in Row |-> Distance(data[a], data[b])]]

\* Times k.
getknn == LET matrix == knndismatrix IN [a \in Row |-> Plus(matrix[a], near(matrix[a], a))]

getknnpro(kd) ==
  LET matrix == knndismatrix
  IN  [a \in Row |-> [num |-> K * kd[a], den |-> K + Plus(kd, near(matrix[a], a))]]

getopknn ==
  LET d == OpDistance
      neighbours == near(d, Nobody)
  IN  [num |-> K * Plus(d, neighbours), den |-> K + Plus(knn, neighbours)]

-----------------------------------------------------------------------------
Init ==
  /\ data \in [Row -> Point] /\ onepoint \in Point
  /\ kdis = Untrained /\ lrd = Untrained /\ knn = Untrained
  /\ score = <<>> /\ knnscore = <<>> /\ pc = "train"

trainNormaiData ==
  /\ pc = "train" /\ pc' = "score"
  /\ LET matrix == getdisance IN kdis' = getk_distance(matrix) /\ lrd' = getlrd(matrix, kdis')
  /\ knn' = getknn
  /\ UNCHANGED <<data, onepoint, score, knnscore>>

getoplof ==
  /\ pc = "score" /\ pc' = "done"
  /\ score' = [a \in {Nobody} |-> oplof] /\ knnscore' = [a \in {Nobody} |-> getopknn]
  /\ UNCHANGED <<data, onepoint, kdis, lrd, knn>>

\* getlof and getknnpro, of the rows among themselves.
ScoreRows ==
  /\ pc = "train" /\ pc' = "done"
  /\ LET matrix == getdisance
     IN  kdis' = getk_distance(matrix) /\ lrd' = getlrd(matrix, kdis') /\ score' = getlof(matrix, lrd')
  /\ knn' = getknn /\ knnscore' = getknnpro(knn')
  /\ UNCHANGED <<data, onepoint>>

Next == trainNormaiData \/ getoplof \/ ScoreRows
Spec == Init /\ [][Next]_vars

-----------------------------------------------------------------------------
(***************************************************************************)
(* The scores as they are defined, from any K nearest rows.                *)
(***************************************************************************)
NearestSets(d, rows) ==
  {S \in kSubset(K, rows) : \A a \in S, b \in rows \ S : d[a] <= d[b]}

KthDistance(d, rows) ==
  CHOOSE r \in {d[a] : a \in rows} : Cardinality({a \in rows : d[a] < r}) < K /\ K <= Cardinality({a \in rows : d[a] <= r})

Farther(d, S) == 1 + Plus([b \in Row |-> Max({d[b], kdis[b]})], S)

\* Every score is the local outlier factor for some choice among rows that are
\* equally far; the queues, which are filled in the order of the rows and only
\* give back their first, never make it another one.
ScoreIsLof ==
  pc # "train" =>
    LET matrix == getdisance IN
    /\ \A a \in Row : kdis[a] = KthDistance(matrix[a], Row \ {a})
    /\ \A a \in Row : \E S \in NearestSets(matrix[a], Row \ {a}) : lrd[a] = Farther(matrix[a], S)
    /\ \A a \in DOMAIN score :
         LET d == IF a = Nobody THEN OpDistance ELSE matrix[a]
         IN  \E S \in NearestSets(d, Row \ {a}) :
               score[a] = Ratio(S, IF a = Nobody THEN Farther(d, S) ELSE lrd[a], lrd)

\* calcul_knn.py's score is the sum of the K least distances by one more than
\* the sum of the neighbours' means, for some choice among rows equally far.
KnnIsRatio ==
  pc # "train" =>
    LET matrix == knndismatrix IN
    /\ \A a \in Row, S \in SUBSET Row :
         S \in NearestSets(matrix[a], Row \ {a}) => knn[a] = Plus(matrix[a], S)
    /\ \A a \in DOMAIN knnscore :
         LET d == IF a = Nobody THEN OpDistance ELSE matrix[a]
         IN  \E S \in NearestSets(d, Row \ {a}) :
               knnscore[a] = [num |-> K * Plus(d, S), den |-> K + Plus(knn, S)]
=============================================================================
