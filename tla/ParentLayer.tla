---------------------------- MODULE ParentLayer ----------------------------
(***************************************************************************)
(* setParentLayer and getParentLayer of myqueue.c: the depth of every      *)
(* process of the queue in the tree of parents, found by recursion up the  *)
(* parents, which leaves the depths it finds on the way in the nodes.      *)
(*                                                                         *)
(* The VM runs while the queue is filled, so that a parent may be missing  *)
(* from it.  A cycle of parents (a pid used again during the walk) is      *)
(* excluded: the recursion has no end on it.                               *)
(***************************************************************************)
EXTENDS Integers, Sequences, FiniteSets

CONSTANTS
  Pid,       \* pids of the queue
  Missing,   \* a parent that is not on the queue
  MaxLength  \* bound on the length of the queue

ParentAssumption ==
  Pid \subseteq Nat /\ Missing \in Nat \ Pid /\ MaxLength \in Nat

Unset == -1

VARIABLES
  queue,    \* [tspid, tsparent] in the order of the walk
  tslayer,  \* by position
  q         \* setParentLayer's pointer, as a position

vars == <<queue, tslayer, q>>

Pos == DOMAIN queue

At(p) == {i \in Pos : queue[i].tspid = p}

\* The least set with p's position that has every parent: p and its ancestors.
Ancestors(p) ==
  {i \in Pos : \A S \in SUBSET Pos :
     At(p) \subseteq S /\ (\A j \in S : At(queue[j].tsparent) \subseteq S) => i \in S}

IsRoot(i) == queue[i].tsparent = queue[i].tspid

\* Every chain of parents ends, at a root or at a parent that is missing.
Grounded ==
  \A i \in Pos : \E j \in Ancestors(queue[i].tspid) : IsRoot(j) \/ At(queue[j].tsparent) = {}

TypeOK ==
  /\ tslayer \in [Pos -> Unset .. 49 + MaxLength]
  /\ q \in 1 .. Len(queue) + 1

Init ==
  /\ queue \in UNION {[1 .. n -> [tspid : Pid, tsparent : Pid \union {Missing}]] : n \in 1 .. MaxLength}
  /\ \A i, j \in Pos : queue[i].tspid = queue[j].tspid => i = j
  /\ Grounded
  /\ tslayer = [i \in Pos |-> Unset]
  /\ q = 1

\* Mutant of getParentLayer: the depth of a node on the way is not counted.
NoStep(parentid, layers) ==
  LET Up[pid \in Pid \union {Missing}] ==
        IF At(pid) = {} THEN [layer |-> 49, layers |-> layers]
        ELSE LET i == CHOOSE i \in At(pid) : TRUE IN
             IF layers[i] > -1 THEN [layer |-> layers[i], layers |-> layers]
             ELSE IF IsRoot(i) THEN [layer |-> 0, layers |-> [layers EXCEPT ![i] = 0]]
             ELSE Up[queue[i].tsparent]
  IN  Up[parentid]

\* The layer of parentid, and the layers with those found on the way.
getParentLayer(parentid, layers) ==
  LET Up[pid \in Pid \union {Missing}] ==
        IF At(pid) = {} THEN [layer |-> 49, layers |-> layers]
        ELSE LET i == CHOOSE i \in At(pid) : TRUE IN
             IF layers[i] > -1 THEN [layer |-> layers[i], layers |-> layers]
             ELSE IF IsRoot(i) THEN [layer |-> 0, layers |-> [layers EXCEPT ![i] = 0]]
             ELSE LET next == Up[queue[i].tsparent]
                  IN  [layer |-> next.layer + 1, layers |-> [next.layers EXCEPT ![i] = next.layer + 1]]
  IN  Up[parentid]

\* One turn of the loop of setParentLayer.
setParentLayer ==
  /\ q \in Pos
  /\ tslayer' = IF IsRoot(q) THEN [tslayer EXCEPT ![q] = 0]
                ELSE LET up == getParentLayer(queue[q].tsparent, tslayer)
                     IN  [up.layers EXCEPT ![q] = up.layer + 1]
  /\ q' = q + 1
  /\ UNCHANGED queue

Next == setParentLayer

Spec == Init /\ [][Next]_vars

-----------------------------------------------------------------------------
\* The depth as one would define it: the number of steps up to the root; a chain
\* that ends at a missing parent counts as hanging at layer 50.
Depth(i) ==
  LET up == Ancestors(queue[i].tspid)
  IN  Cardinality(up) - 1 + (IF \E j \in up : IsRoot(j) THEN 0 ELSE 50)

\* Whatever the order of the queue, a layer that has been set is the depth: also
\* those the recursion left behind, before the loop comes to their node.
LayerIsDepth == \A i \in Pos : tslayer[i] # Unset => tslayer[i] = Depth(i)
=============================================================================
