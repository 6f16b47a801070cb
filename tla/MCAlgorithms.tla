---------------------------- MODULE MCAlgorithms ----------------------------
(***************************************************************************)
(* The algorithms that stand by themselves, on small inputs: the merge of  *)
(* HidePs on every pair of ascending lists, ParentLayer on every forest,   *)
(* NearestQueue and Lof on every few rows, and the walks of ListWalk.      *)
(* They share no state: `on' says which one runs, the others rest.         *)
(***************************************************************************)
EXTENDS HidePs, NearestQueue, FiniteSets, SequencesExt
CONSTANTS MaxPid, LayerPid, Missing, MaxLength, K, Point,
          Slot, Oldest, ListHead, MaxChanges
VARIABLES on,
  forest, tslayer, setter,
  data, onepoint, kdis, lrd, knn, score, knnscore, lofpc,
  prog, list, after, changes, walkpc, first, at, reads, stayed, ever, behind
Layer == INSTANCE ParentLayer WITH Pid <- LayerPid, queue <- forest, q <- setter
Scores == INSTANCE Lof WITH pc <- lofpc
Walks == INSTANCE ListWalk WITH pc <- walkpc
ASSUME LayerAssumed == Layer!ParentAssumption
ASSUME QueueAssumed == QueueAssumption
ASSUME LofAssumed == Scores!LofAssumption
ASSUME WalkAssumed == Walks!WalkAssumption
layer == <<forest, tslayer, setter>>
lof == <<data, onepoint, kdis, lrd, knn, score, knnscore, lofpc>>
walks == <<prog, list, after, changes, walkpc, first, at, reads, stayed, ever, behind>>

MCPid == 0 .. MaxPid
MCPoint == {0, 3} \X {0, 4}
Lists == {SetToSortSeq(S, <) : S \in SUBSET MCPid}
Merges ==
  /\ IF on = "merge"
     THEN queue \in Lists /\ known \in Lists /\ pc = "merge"
     ELSE queue = <<>> /\ known = <<>> /\ pc = "done"
  /\ kworker \in SUBSET (1 .. Len(known))
  /\ q = 1 /\ p = 1 /\ logged = {} /\ warned = {}
OneProcess == <<[tspid |-> 1, tsparent |-> 1]>>
MCInit ==
  /\ on \in {"merge", "layer", "nearest", "lof", "walk"}
  /\ Merges
  /\ IF on = "layer" THEN Layer!Init ELSE forest = OneProcess /\ tslayer = <<-1>> /\ setter = 1
  /\ (IF on = "nearest" THEN TRUE ELSE dis = [a \in Row |-> 1] /\ i = 0 /\ k = 1)
  /\ ScanInit
  /\ (IF on = "lof" THEN TRUE ELSE data = [a \in Row |-> <<0, 0>>] /\ onepoint = <<0, 0>>)
  /\ Scores!Init
  /\ (IF on = "walk" THEN TRUE ELSE prog = "modulelist") /\ Walks!Init

MCNext ==
  \/ on = "merge" /\ Next /\ UNCHANGED <<on, layer, scan, lof, walks>>
  \/ on = "layer" /\ Layer!Next /\ UNCHANGED <<on, vars, scan, lof, walks>>
  \/ on = "nearest" /\ ScanNext /\ UNCHANGED <<on, vars, layer, lof, walks>>
  \/ on = "lof" /\ Scores!Next /\ UNCHANGED <<on, vars, layer, scan, walks>>
  \/ on = "walk" /\ Walks!Step /\ UNCHANGED <<on, vars, layer, scan, lof>>
\* A merge or a walk that rests has no step of its own to be fair to.
MCSpec ==
  /\ MCInit /\ [][MCNext]_<<on, vars, layer, scan, lof, walks>>
  /\ WF_vars(Next) /\ Walks!Fairness

\* ParentLayer's: a layer that has been set is the depth in the tree of parents.
LayerIsDepth == Layer!TypeOK /\ Layer!LayerIsDepth

\* Lof's: calcul_lof.py's scores are local outlier factors, calcul_knn.py's the
\* ratios they are meant to be, for some choice among rows that are equally far.
ScoresAreRight == Scores!ScoreIsLof /\ Scores!KnnIsRatio

\* ListWalk's: a walk that ends has read every node that stayed exactly once, and
\* the number of modules lies between those that stayed and those ever there.
WalkReadsStayers == Walks!StayersReadOnce /\ Walks!CountInBounds

\* ListWalk's: a walk ends unless the node it began with is unlinked.
WalkEnds == Walks!WalkEnds
=============================================================================
