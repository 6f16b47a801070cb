---------------------------- MODULE RoundsProofs ----------------------------
(***************************************************************************)
(* Proofs about what the host compares round after round: the samples the  *)
(* father of host/processinfo stores, the modules it reports, and the      *)
(* hidden processes exdamain of external_data.py warns of.                 *)
(***************************************************************************)
EXTENDS MCRounds, FiniteSetTheorems, TLAPS

-----------------------------------------------------------------------------
(***************************************************************************)
(* Searches that end at the first match.                                   *)
(***************************************************************************)
\* The order of the natural numbers.
Less == {ss \in Nat \X Nat : ss[1] < ss[2]}

\* A set of natural numbers has a least element.
LEMMA LeastElement ==
  ASSUME NEW T, T \subseteq Nat, T # {}
  PROVE  \E x \in T : \A y \in T : x <= y
<1>1. IsWellFoundedOn(Less, Nat)
  BY NatLessThanWellFounded DEF OpToRel, Less
<1>2. PICK x \in T : \A y \in T : ~ (<<y, x>> \in Less)
  BY <1>1, WFMin, Zenon
<1>3. ASSUME NEW y \in T PROVE ~ (y < x)
  BY <1>2 DEF Less
<1>4. \A y \in T : x \in Nat /\ y \in Nat
  OBVIOUS
<1>. QED BY <1>3, <1>4

\* The least index in a set of them.
LEMMA LeastIndex ==
  ASSUME NEW T, T \subseteq Nat, T # {}
  PROVE  Min(T) \in T /\ \A y \in T : Min(T) <= y
BY LeastElement DEF Min

-----------------------------------------------------------------------------
(***************************************************************************)
(* The counts of a queue.                                                  *)
(***************************************************************************)
\* The records of exitps_list.
Exit == [pid : Pid, name : Name, calls : Nat]

\* One more call changes nothing else of a node or an exit record.
LEMMA OneCall ==
  ASSUME NEW R, R = Node \/ R = Exit, NEW n \in R, NEW m, m = [n EXCEPT !.calls = @ + 1]
  PROVE  m \in R /\ m.calls = n.calls + 1 /\ m.pid = n.pid /\ (n \in Node => m.inc = n.inc /\ m.flt = n.flt)
<1>1. CASE R = Node
  <2>1. n \in Node
    BY <1>1
  <2>. QED BY <1>1, <2>1 DEF Node
<1>2. CASE R = Exit
  <2>1. n \in Exit
    BY <1>2
  <2>2. n \in Node => m.inc = n.inc /\ m.flt = n.flt
    BY DEF Node
  <2>. QED BY <1>2, <2>1, <2>2 DEF Exit
<1>. QED BY <1>1, <1>2

\* A record of the pipe is credited to one node, the first with its pid, and to
\* none if there is none.
LEMMA Credited ==
  ASSUME NEW R, R = Node \/ R = Exit, NEW s \in Seq(R), NEW pid
  PROVE  /\ Count(s, pid) \in Seq(R) /\ Len(Count(s, pid)) = Len(s)
         /\ \A k \in Pos(s) : Count(s, pid)[k].pid = s[k].pid
         /\ \A k \in Pos(s) : s[k] \in Node => Count(s, pid)[k].inc = s[k].inc /\ Count(s, pid)[k].flt = s[k].flt
         /\ pid \notin Pids(s) => Count(s, pid) = s
         /\ pid \in Pids(s) =>
              \E i \in Pos(s) : /\ Count(s, pid)[i].calls = s[i].calls + 1
                                /\ \A k \in Pos(s) \ {i} : Count(s, pid)[k] = s[k]
<1>1. PICK I : I = {i \in 1 .. Len(s) : s[i].pid = pid}
  OBVIOUS
<1>2. PICK i : i = IF I # {} THEN Min(I) ELSE 0
  OBVIOUS
<1>3. Count(s, pid) = IF i = 0 THEN s ELSE [s EXCEPT ![i].calls = @ + 1]
  BY <1>1, <1>2 DEF Count, SelectInSeq
<1>4. pid \in Pids(s) <=> I # {}
  BY <1>1 DEF Pids, Pos
<1>5. CASE I = {}
  BY <1>2, <1>3, <1>4, <1>5 DEF Pos
<1>6. CASE I # {}
  <2>1. i \in 1 .. Len(s)
    <3>1. I \subseteq Nat
      BY <1>1
    <3>2. i \in I
      BY <1>2, <1>6, <3>1, LeastIndex
    <3>. QED BY <1>1, <3>2
  <2>2. PICK t : t = [s EXCEPT ![i].calls = @ + 1]
    OBVIOUS
  <2>3. PICK n : n = [s[i] EXCEPT !.calls = @ + 1]
    OBVIOUS
  <2>4. s[i] \in R
    BY <2>1
  <2>5. n \in R /\ n.calls = s[i].calls + 1 /\ n.pid = s[i].pid /\ (s[i] \in Node => n.inc = s[i].inc /\ n.flt = s[i].flt)
    BY <2>3, <2>4, OneCall
  <2>6. t = [s EXCEPT ![i] = n]
    BY <2>2, <2>3
  <2>7. t \in Seq(R) /\ Len(t) = Len(s) /\ t[i] = n /\ \A k \in Pos(s) \ {i} : t[k] = s[k]
    BY <2>1, <2>5, <2>6 DEF Pos
  <2>8. Count(s, pid) = t
    BY <1>3, <2>1, <2>2
  <2>9. i \in Pos(s)
    BY <2>1 DEF Pos
  <2>. QED BY <1>4, <1>6, <2>5, <2>7, <2>8, <2>9
<1>. QED BY <1>5, <1>6

\* One more for one node of a queue is one more in all.
LEMMA OneMore ==
  ASSUME NEW s, NEW t, Len(s) \in Nat, Len(t) = Len(s), IsFiniteSet(Counted(s)),
         NEW i \in Pos(s), \A k \in Pos(s) : s[k].calls \in Nat,
         t[i].calls = s[i].calls + 1, \A k \in Pos(s) \ {i} : t[k].calls = s[k].calls
  PROVE  IsFiniteSet(Counted(t)) /\ Cardinality(Counted(t)) = Cardinality(Counted(s)) + 1
<1>1. PICK x : x = <<i, s[i].calls + 1>>
  OBVIOUS
<1>2. Counted(t) = Counted(s) \union {x}
  <2>1. Pos(t) = Pos(s)
    BY DEF Pos
  <2>2. 1 .. t[i].calls = (1 .. s[i].calls) \union {s[i].calls + 1}
    OBVIOUS
  <2>3. {i} \X (1 .. t[i].calls) = ({i} \X (1 .. s[i].calls)) \union {x}
    BY <1>1, <2>2
  <2>. QED BY <2>1, <2>3 DEF Counted
<1>3. x \notin Counted(s)
  BY <1>1 DEF Counted
<1>. QED BY <1>2, <1>3, FS_AddElement

\* What is the same in two queues is counted the same.
LEMMA SameCounted ==
  ASSUME NEW s, NEW t, Len(t) = Len(s), \A k \in Pos(s) : t[k].calls = s[k].calls
  PROVE  Counted(t) = Counted(s)
BY DEF Counted, Pos

\* Nodes that have made no call count nothing.
LEMMA NoneCounted ==
  ASSUME NEW s, \A k \in Pos(s) : s[k].calls = 0
  PROVE  IsFiniteSet(Counted(s)) /\ Cardinality(Counted(s)) = 0
<1>1. Counted(s) = {}
  BY DEF Counted
<1>. QED BY <1>1, FS_EmptySet

\* A call is credited once in all, to a row, to an exit record or to nobody.
LEMMA CreditedOnce ==
  ASSUME NEW q \in Seq(Node), NEW e \in Seq(Exit), NEW pid, NEW qq, NEW ee,
         IsFiniteSet(Counted(q)), IsFiniteSet(Counted(e)),
         qq = Count(q, pid), ee = IF pid \in Pids(q) THEN e ELSE Count(e, pid)
  PROVE  /\ qq \in Seq(Node) /\ ee \in Seq(Exit)
         /\ Len(qq) = Len(q) /\ Len(ee) = Len(e) /\ Pids(qq) = Pids(q) /\ Pids(ee) = Pids(e)
         /\ \A k \in Pos(q) : qq[k].pid = q[k].pid /\ qq[k].inc = q[k].inc /\ qq[k].flt = q[k].flt
         /\ IsFiniteSet(Counted(qq)) /\ IsFiniteSet(Counted(ee))
         /\ Cardinality(Counted(qq)) + Cardinality(Counted(ee))
              = Cardinality(Counted(q)) + Cardinality(Counted(e))
                + (IF pid \in Pids(q) \union Pids(e) THEN 1 ELSE 0)
<1>1. /\ qq \in Seq(Node) /\ Len(qq) = Len(q)
      /\ \A k \in Pos(q) : qq[k].pid = q[k].pid /\ qq[k].inc = q[k].inc /\ qq[k].flt = q[k].flt
      /\ pid \notin Pids(q) => qq = q
      /\ pid \in Pids(q) =>
           \E i \in Pos(q) : qq[i].calls = q[i].calls + 1 /\ \A k \in Pos(q) \ {i} : qq[k] = q[k]
  <2>1. \A k \in Pos(q) : q[k] \in Node
    BY DEF Pos
  <2>. QED BY <2>1, Credited
<1>2. PICK c : c = Count(e, pid)
  OBVIOUS
<1>3. /\ c \in Seq(Exit) /\ Len(c) = Len(e)
      /\ \A k \in Pos(e) : c[k].pid = e[k].pid
      /\ pid \notin Pids(e) => c = e
      /\ pid \in Pids(e) =>
           \E i \in Pos(e) : c[i].calls = e[i].calls + 1 /\ \A k \in Pos(e) \ {i} : c[k] = e[k]
  BY SMTT(20), <1>2, Credited
<1>4. ee = IF pid \in Pids(q) THEN e ELSE c
  BY <1>2
<1>5. Pids(qq) = Pids(q) /\ Pids(c) = Pids(e)
  <2>1. ASSUME NEW s, NEW t, Len(t) = Len(s), \A k \in Pos(s) : t[k].pid = s[k].pid
        PROVE  Pids(t) = Pids(s)
    <3>1. Pos(t) = Pos(s)
      BY <2>1 DEF Pos
    <3>. QED BY <2>1, <3>1 DEF Pids
  <2>. QED BY <1>1, <1>3, <2>1
<1>6. \A k \in Pos(q) : q[k].calls \in Nat
  <2>1. \A k \in Pos(q) : q[k] \in Node
    BY DEF Pos
  <2>. QED BY <2>1 DEF Node
<1>7. \A k \in Pos(e) : e[k].calls \in Nat
  <2>1. \A k \in Pos(e) : e[k] \in Exit
    BY DEF Pos
  <2>. QED BY <2>1 DEF Exit
<1>8. pid \in Pids(q) => IsFiniteSet(Counted(qq)) /\ Cardinality(Counted(qq)) = Cardinality(Counted(q)) + 1
  <2>. SUFFICES ASSUME pid \in Pids(q)
                PROVE  IsFiniteSet(Counted(qq)) /\ Cardinality(Counted(qq)) = Cardinality(Counted(q)) + 1
    OBVIOUS
  <2>1. PICK i \in Pos(q) : qq[i].calls = q[i].calls + 1 /\ \A k \in Pos(q) \ {i} : qq[k] = q[k]
    BY <1>1
  <2>2. \A k \in Pos(q) \ {i} : qq[k].calls = q[k].calls
    BY <2>1
  <2>3. Len(q) \in Nat
    OBVIOUS
  <2>. QED BY <1>1, <1>6, <2>1, <2>2, <2>3, OneMore
<1>9. pid \in Pids(e) => IsFiniteSet(Counted(c)) /\ Cardinality(Counted(c)) = Cardinality(Counted(e)) + 1
  <2>. SUFFICES ASSUME pid \in Pids(e)
                PROVE  IsFiniteSet(Counted(c)) /\ Cardinality(Counted(c)) = Cardinality(Counted(e)) + 1
    OBVIOUS
  <2>1. PICK i \in Pos(e) : c[i].calls = e[i].calls + 1 /\ \A k \in Pos(e) \ {i} : c[k] = e[k]
    BY <1>3
  <2>2. \A k \in Pos(e) \ {i} : c[k].calls = e[k].calls
    BY <2>1
  <2>3. Len(e) \in Nat
    OBVIOUS
  <2>. QED BY <1>3, <1>7, <2>1, <2>2, <2>3, OneMore
<1>10. Cardinality(Counted(q)) \in Nat /\ Cardinality(Counted(e)) \in Nat
  BY FS_CardinalityType
<1>11. ee \in Seq(Exit) /\ Len(ee) = Len(e) /\ Pids(ee) = Pids(e)
  BY <1>3, <1>4, <1>5
<1>12. CASE pid \in Pids(q)
  <2>1. ee = e
    BY <1>4, <1>12
  <2>. QED BY <1>1, <1>5, <1>8, <1>10, <1>11, <1>12, <2>1
<1>13. CASE pid \notin Pids(q)
  <2>1. ee = c /\ qq = q
    BY <1>1, <1>4, <1>13
  <2>. QED BY <1>1, <1>3, <1>5, <1>9, <1>10, <1>11, <1>13, <2>1
<1>. QED BY <1>12, <1>13

-----------------------------------------------------------------------------
(***************************************************************************)
(* Sequences sorted by pid.                                                *)
(***************************************************************************)
\* What is at a position of a sequence is one of its elements.
LEMMA ElementOf ==
  ASSUME NEW R, NEW s \in Seq(R), NEW i \in Pos(s)
  PROVE  s[i] \in R
BY DEF Pos

\* Strictly ascending pids: each is there once.
Ordered(s) == \A i, j \in Pos(s) : i < j => s[i].pid < s[j].pid

\* What a sequence is without its i-th element.
LEMMA Removed ==
  ASSUME NEW R, NEW s \in Seq(R), NEW i \in Pos(s)
  PROVE  /\ RemoveAt(s, i) \in Seq(R) /\ Len(RemoveAt(s, i)) = Len(s) - 1
         /\ \A k \in 1 .. (Len(s) - 1) : RemoveAt(s, i)[k] = s[IF k < i THEN k ELSE k + 1]
<1>1. i \in 1 .. Len(s) /\ Len(s) \in Nat
  BY DEF Pos
<1>2. PICK a : a = SubSeq(s, 1, i - 1)
  OBVIOUS
<1>3. PICK b : b = SubSeq(s, i + 1, Len(s))
  OBVIOUS
<1>4. a \in Seq(R) /\ Len(a) = i - 1 /\ \A k \in 1 .. (i - 1) : a[k] = s[k]
  BY <1>1, <1>2
<1>5. b \in Seq(R) /\ Len(b) = Len(s) - i /\ \A k \in 1 .. (Len(s) - i) : b[k] = s[i + k]
  BY <1>1, <1>3
<1>6. a \o b \in Seq(R) /\ Len(a \o b) = Len(s) - 1
      /\ \A k \in 1 .. (Len(s) - 1) : (a \o b)[k] = IF k < i THEN a[k] ELSE b[k - (i - 1)]
  <2>1. a \o b \in Seq(R) /\ Len(a \o b) = Len(a) + Len(b)
    BY SMTT(20), <1>4, <1>5
  <2>2. Len(a \o b) = Len(s) - 1
    BY <1>1, <1>4, <1>5, <2>1
  <2>3. \A k \in 1 .. (Len(a) + Len(b)) : (a \o b)[k] = IF k <= Len(a) THEN a[k] ELSE b[k - Len(a)]
    <3>1. a \in Seq(R) /\ b \in Seq(R)
      BY <1>4, <1>5
    <3>. QED BY ONLY <3>1
  <2>4. Len(a) + Len(b) = Len(s) - 1 /\ \A k \in 1 .. (Len(s) - 1) : k <= Len(a) <=> k < i
    BY <1>1, <1>4, <1>5
  <2>. QED BY <1>4, <2>1, <2>2, <2>3, <2>4
<1>7. ASSUME NEW k \in 1 .. (Len(s) - 1)
      PROVE  (a \o b)[k] = s[IF k < i THEN k ELSE k + 1]
  <2>1. CASE k < i
    <3>1. k \in 1 .. (i - 1)
      BY <1>1, <2>1
    <3>. QED BY <1>4, <1>6, <2>1, <3>1
  <2>2. CASE ~ (k < i)
    <3>1. k - (i - 1) \in 1 .. (Len(s) - i) /\ i + (k - (i - 1)) = k + 1
      BY <1>1, <2>2
    <3>. QED BY <1>5, <1>6, <2>2, <3>1
  <2>. QED BY <2>1, <2>2
<1>. QED BY <1>2, <1>3, <1>6, <1>7 DEF RemoveAt

\* A task that leaves does not disturb the order of the others.
LEMMA LeaveInOrder ==
  ASSUME NEW s \in Seq([pid : Pid, name : Name, flt : 0 .. MaxFlt]), Ordered(s), NEW i \in Pos(s)
  PROVE  Ordered(RemoveAt(s, i)) /\ Pids(RemoveAt(s, i)) \subseteq Pids(s)
<1>1. PICK r : r = RemoveAt(s, i)
  OBVIOUS
<1>2. Len(s) \in Nat \ {0} /\ i \in 1 .. Len(s)
  BY DEF Pos
<1>3. Len(r) = Len(s) - 1 /\ \A k \in 1 .. (Len(s) - 1) : r[k] = s[IF k < i THEN k ELSE k + 1]
  BY <1>1, Removed
<1>4. Pos(r) = 1 .. (Len(s) - 1) /\ Pos(s) = 1 .. Len(s)
  BY <1>3 DEF Pos
<1>5. \A k \in Pos(r) : (IF k < i THEN k ELSE k + 1) \in Pos(s)
  BY <1>2, <1>4
<1>6. \A k, l \in Pos(r) : k < l => (IF k < i THEN k ELSE k + 1) < (IF l < i THEN l ELSE l + 1)
  BY <1>2, <1>4
<1>7. Ordered(r)
  <2>. SUFFICES ASSUME NEW k \in Pos(r), NEW l \in Pos(r), k < l PROVE r[k].pid < r[l].pid
    BY DEF Ordered
  <2>1. PICK kk : kk = IF k < i THEN k ELSE k + 1
    OBVIOUS
  <2>2. PICK ll : ll = IF l < i THEN l ELSE l + 1
    OBVIOUS
  <2>3. kk \in Pos(s) /\ ll \in Pos(s) /\ kk < ll
    BY <1>5, <1>6, <2>1, <2>2
  <2>4. r[k] = s[kk] /\ r[l] = s[ll]
    BY <1>3, <1>4, <2>1, <2>2
  <2>. QED BY <2>3, <2>4 DEF Ordered
<1>8. Pids(r) \subseteq Pids(s)
  BY <1>3, <1>4, <1>5 DEF Pids
<1>. QED BY <1>1, <1>7, <1>8

\* A task with a pid higher than all there have been goes to the end.
LEMMA ForkInOrder ==
  ASSUME NEW s \in Seq([pid : Pid, name : Name, flt : 0 .. MaxFlt]), Ordered(s),
         NEW t \in [pid : Pid, name : Name, flt : 0 .. MaxFlt], \A q \in Pids(s) : q < t.pid
  PROVE  Ordered(Append(s, t)) /\ Pids(Append(s, t)) = Pids(s) \union {t.pid}
<1>1. PICK r : r = Append(s, t)
  OBVIOUS
<1>2. Len(s) \in Nat /\ Len(r) = Len(s) + 1 /\ r[Len(s) + 1] = t /\ \A k \in 1 .. Len(s) : r[k] = s[k]
  BY <1>1
<1>3. Pos(s) = 1 .. Len(s) /\ Pos(r) = Pos(s) \union {Len(s) + 1}
  BY <1>2 DEF Pos
<1>4. \A k \in Pos(s) : s[k].pid \in Pids(s)
  BY DEF Pids
<1>5. Ordered(r)
  <2>. SUFFICES ASSUME NEW k \in Pos(r), NEW l \in Pos(r), k < l PROVE r[k].pid < r[l].pid
    BY DEF Ordered
  <2>1. k \in Pos(s)
    BY <1>2, <1>3
  <2>2. CASE l \in Pos(s)
    BY <1>2, <1>3, <2>1, <2>2 DEF Ordered
  <2>3. CASE l = Len(s) + 1
    BY <1>2, <1>3, <1>4, <2>1, <2>3
  <2>. QED BY <1>3, <2>2, <2>3
<1>6. Pids(r) = Pids(s) \union {t.pid}
  BY SMTT(20), <1>2, <1>3 DEF Pids
<1>. QED BY <1>1, <1>5, <1>6

\* The pids of nodes are numbers.
LEMMA PidsAreNumbers == \A n \in Node : n.pid \in Int
<1>1. \A p \in Pid : p \in Int
  BY SampleAssumption
<1>. QED BY <1>1 DEF Node

\* In a sorted queue the first node with a pid is the only one.
LEMMA OnlyOne ==
  ASSUME NEW s \in Seq(Node), Ordered(s), NEW i \in Pos(s)
  PROVE  SelectInSeq(s, LAMBDA n : n.pid = s[i].pid) = i
<1>1. PICK I : I = {k \in 1 .. Len(s) : s[k].pid = s[i].pid}
  OBVIOUS
<1>2. \A k \in Pos(s) : s[k].pid \in Int /\ k \in Nat
  <2>1. \A k \in Pos(s) : s[k] \in Node /\ k \in Nat
    BY DEF Pos
  <2>. QED BY <2>1, PidsAreNumbers
<1>3. I = {i}
  <2>1. ASSUME NEW k \in Pos(s), s[k].pid = s[i].pid PROVE k = i
    <3>1. ~ (k < i) /\ ~ (i < k)
      BY <1>2, <2>1 DEF Ordered
    <3>. QED BY <1>2, <3>1
  <2>. QED BY <1>1, <2>1 DEF Pos
<1>4. I \subseteq Nat /\ I # {}
  BY <1>2, <1>3
<1>5. Min(I) = i
  BY <1>3, <1>4, LeastIndex
<1>6. SelectInSeq(s, LAMBDA n : n.pid = s[i].pid) = IF I # {} THEN Min(I) ELSE 0
  BY <1>1 DEF SelectInSeq
<1>. QED BY <1>4, <1>5, <1>6

\* The search in a sorted queue of the round before finds the process when it
\* was there, and nothing else.
LEMMA Found ==
  ASSUME pre_queue \in Seq(Node), Ordered(pre_queue), NEW n \in Node
  PROVE  /\ Met(n) <=> Before(n) # {}
         /\ Met(n) => Before(n) = {Stop(n)} /\ Stop(n) \in Pos(pre_queue)
<1>1. PICK I : I = {k \in 1 .. Len(pre_queue) :
                      (pre_queue[k].pid = n.pid /\ pre_queue[k].name = n.name) \/ n.pid < pre_queue[k].pid}
  OBVIOUS
<1>2. Stop(n) = IF I # {} THEN Min(I) ELSE 0
  BY <1>1 DEF Stop, SelectInSeq
<1>3. n.pid \in Int /\ \A k \in Pos(pre_queue) : pre_queue[k].pid \in Int /\ k \in Nat /\ k # 0
  <2>1. \A k \in Pos(pre_queue) : pre_queue[k] \in Node /\ k \in Nat /\ k # 0
    BY DEF Pos
  <2>. QED BY <2>1, PidsAreNumbers
<1>4. I \subseteq Pos(pre_queue) /\ I \subseteq Nat /\ Before(n) \subseteq I
  BY <1>1, <1>3 DEF Pos, Before
<1>5. I # {} => Stop(n) \in I /\ \A k \in I : Stop(n) <= k
  BY <1>2, <1>4, LeastIndex
<1>6. ASSUME NEW k \in Before(n) PROVE Stop(n) = k
  <2>1. k \in Pos(pre_queue) /\ pre_queue[k].pid = n.pid /\ pre_queue[k].name = n.name
    BY DEF Before
  <2>2. Stop(n) \in I /\ Stop(n) <= k /\ Stop(n) \in Pos(pre_queue)
    BY <1>4, <1>5
  <2>3. Stop(n) < k => pre_queue[Stop(n)].pid < n.pid
    BY <2>1, <2>2 DEF Ordered
  <2>4. ~ (pre_queue[Stop(n)].pid < n.pid)
    BY <1>1, <1>3, <2>2
  <2>. QED BY <1>3, <2>1, <2>2, <2>3, <2>4
<1>7. Met(n) => Stop(n) \in Before(n)
  BY <1>2, <1>4, <1>5 DEF Met, Before
<1>8. Before(n) # {} => Met(n)
  <2>. SUFFICES ASSUME NEW k \in Before(n) PROVE Met(n)
    OBVIOUS
  <2>. QED BY <1>3, <1>6 DEF Met, Before
<1>. QED BY <1>6, <1>7, <1>8 DEF Before

-----------------------------------------------------------------------------
(***************************************************************************)
(* What the father stores of a round.                                      *)
(***************************************************************************)
\* What a place in the round says of what has been done in it.
Begun ==
  /\ pc # "done" => round < Rounds
  /\ pc # "sleep" => stored = {}
  /\ pc = "walk" => queue = <<>>
  /\ pc \in {"walk", "exits"} => exits = <<>> /\ drained = <<>>
  /\ pc = "exits" => \A k \in Pos(queue) : queue[k].calls = 0
  /\ pc \in {"exits", "drain", "store"} => \A k \in Pos(queue) : queue[k].inc = queue[k].flt

\* Pids are given out in ascending order, and the queues keep it.
Sorted == Ordered(tasks) /\ Pids(tasks) \subseteq given /\ Ordered(queue) /\ Ordered(pre_queue)

\* The records read in this round that somebody is credited with.
Mine == {k \in Pos(drained) : drained[k] \in Owner}

\* At every record, what is counted is what was read.
Balanced ==
  /\ IsFiniteSet(Counted(queue)) /\ IsFiniteSet(Counted(exits))
  /\ pc \in {"walk", "exits", "drain"} =>
       Cardinality(Counted(queue)) + Cardinality(Counted(exits)) = Cardinality(Mine)
  /\ pc \in {"store", "sleep"} =>
       Cardinality(Counted(queue)) + Cardinality(Counted(exits))
         = Cardinality(Mine) + (IF got \in Owner THEN 1 ELSE 0)

\* A node of s that would get a row is the newest row of its pid.
Repeats(s) == \A k \in Pos(s) : Wanted(s[k]) => last[s[k].pid] = Sample(s[k])

\* So are those of the queue that the next round compares with.
Repeated == (pc = "sleep" => Repeats(queue)) /\ (pc # "sleep" => Repeats(pre_queue))

\* The invariant of the rounds.
QInv ==
  /\ TypeOK /\ drained \in Seq(Pid)
  /\ Begun /\ Sorted /\ Balanced /\ Repeated /\ IncrementSinceLast

\* Nothing has been read or stored at first, and there is one process.
LEMMA InitQInv == Init => QInv
<1>. SUFFICES ASSUME Init PROVE QInv
  OBVIOUS
<1>1. PICK p \in Pid, n \in Name : tasks = <<[pid |-> p, name |-> n, flt |-> 0]>> /\ given = {p}
  BY DEF Init
<1>2. /\ queue = <<>> /\ pre_queue = <<>> /\ exits = <<>> /\ drained = <<>> /\ pipe = <<>> /\ exitFile = <<>>
      /\ pc = "walk" /\ round = 0 /\ calls = 0 /\ stored = {} /\ frenum = 1 /\ got \in Pid \union {0}
  BY DEF Init
<1>3. [pid |-> p, name |-> n, flt |-> 0] \in [pid : Pid, name : Name, flt : 0 .. MaxFlt]
  BY SampleAssumption
<1>4. TypeOK
  BY <1>1, <1>2, <1>3, SampleAssumption DEF TypeOK
<1>5. Pos(queue) = {} /\ Pos(pre_queue) = {} /\ Pos(exits) = {} /\ Pos(drained) = {}
  BY <1>2 DEF Pos
<1>6. Pos(tasks) = {1} /\ tasks[1].pid = p
  BY <1>1 DEF Pos
<1>7. Sorted
  BY <1>1, <1>5, <1>6 DEF Sorted, Ordered, Pids
<1>8. IsFiniteSet(Counted(queue)) /\ IsFiniteSet(Counted(exits))
      /\ Cardinality(Counted(queue)) = 0 /\ Cardinality(Counted(exits)) = 0
  BY <1>5, NoneCounted
<1>9. Mine = {}
  BY <1>5 DEF Mine
<1>10. Balanced
  BY <1>2, <1>8, <1>9, FS_EmptySet DEF Balanced
<1>11. Begun /\ Repeated /\ IncrementSinceLast /\ drained \in Seq(Pid)
  BY <1>2, <1>5, SampleAssumption DEF Begun, Repeated, Repeats, IncrementSinceLast
<1>. QED BY <1>4, <1>7, <1>10, <1>11 DEF QInv

\* What the guest does leaves what the father has.
LEMMA FatherKeeps ==
  QInv /\ UNCHANGED <<father, drained, last>> =>
    Begun' /\ Balanced' /\ Repeated' /\ IncrementSinceLast' /\ Ordered(queue') /\ Ordered(pre_queue')
    /\ drained' \in Seq(Pid)
<1>. SUFFICES ASSUME QInv, UNCHANGED <<father, drained, last>>
              PROVE  Begun' /\ Balanced' /\ Repeated' /\ IncrementSinceLast' /\ Ordered(queue')
                     /\ Ordered(pre_queue') /\ drained' \in Seq(Pid)
  OBVIOUS
<1>1. /\ pc' = pc /\ round' = round /\ queue' = queue /\ pre_queue' = pre_queue /\ exits' = exits
      /\ got' = got /\ frenum' = frenum /\ stored' = stored /\ drained' = drained /\ last' = last
  BY DEF father
<1>2. Begun'
  BY <1>1 DEF QInv, Begun
<1>3. Balanced'
  BY <1>1 DEF QInv, Balanced, Mine, Owner
<1>4. Repeated'
  BY <1>1 DEF QInv, Repeated, Repeats
<1>5. IncrementSinceLast'
  BY ZenonT(40), <1>1 DEF QInv, IncrementSinceLast, Before
<1>. QED BY <1>1, <1>2, <1>3, <1>4, <1>5 DEF QInv, Sorted

\* Forks, work, system calls and exits keep the invariant.
LEMMA GuestQInv == QInv /\ Guest => QInv'
<1>. SUFFICES ASSUME QInv, Guest PROVE QInv'
  OBVIOUS
<1>1. UNCHANGED <<father, drained, last>>
  BY DEF Guest, Fork, Work, Call, Leave
<1>2. pc' = pc /\ round' = round /\ queue' = queue /\ pre_queue' = pre_queue /\ exits' = exits
      /\ got' = got /\ frenum' = frenum /\ stored' = stored
  BY <1>1 DEF father
<1>3. PICK T : T = [pid : Pid, name : Name, flt : 0 .. MaxFlt]
  OBVIOUS
<1>4. tasks \in Seq(T) /\ \A i \in Pos(tasks) : tasks[i] \in T
  <2>1. tasks \in Seq(T)
    BY <1>3 DEF QInv, TypeOK
  <2>. QED BY <2>1 DEF Pos
<1>5. \A i \in Pos(tasks) : tasks[i].pid \in Pid /\ tasks[i].name \in Name /\ tasks[i].flt \in 0 .. MaxFlt
  BY <1>3, <1>4
<1>6. SUFFICES /\ tasks' \in Seq(T) /\ given' \subseteq Pid /\ calls' \in 0 .. MaxCalls
               /\ pipe' \in Seq(Pid) /\ exitFile' \in Seq([pid : Pid, name : Name])
               /\ Ordered(tasks') /\ Pids(tasks') \subseteq given'
  <2>1. TypeOK'
    BY <1>2, <1>3, <1>6 DEF QInv, TypeOK, Pos, Node
  <2>2. Sorted'
    BY <1>1, <1>6, FatherKeeps DEF Sorted
  <2>. QED BY <1>1, <2>1, <2>2, FatherKeeps DEF QInv
<1>7. ASSUME NEW p \in Pid, NEW n \in Name, Fork(p, n)
      PROVE  /\ tasks' \in Seq(T) /\ given' \subseteq Pid /\ calls' \in 0 .. MaxCalls
             /\ pipe' \in Seq(Pid) /\ exitFile' \in Seq([pid : Pid, name : Name])
             /\ Ordered(tasks') /\ Pids(tasks') \subseteq given'
  <2>1. PICK t : t = [pid |-> p, name |-> n, flt |-> 0]
    OBVIOUS
  <2>2. t \in T /\ t.pid = p
    BY <1>3, <2>1, SampleAssumption
  <2>3. tasks' = Append(tasks, t) /\ given' = given \union {p} /\ (\A q \in given : q < p)
        /\ UNCHANGED <<calls, pipe, exitFile>>
    BY <1>7, <2>1 DEF Fork
  <2>4. Ordered(tasks) /\ \A q \in Pids(tasks) : q < t.pid
    BY <2>2, <2>3 DEF QInv, Sorted
  <2>5. Ordered(Append(tasks, t)) /\ Pids(Append(tasks, t)) = Pids(tasks) \union {t.pid}
    BY <1>3, <1>4, <2>2, <2>4, ForkInOrder
  <2>. QED BY <1>4, <2>2, <2>3, <2>5 DEF QInv, TypeOK, Sorted
<1>8. ASSUME NEW i \in Pos(tasks), Work(i)
      PROVE  /\ tasks' \in Seq(T) /\ given' \subseteq Pid /\ calls' \in 0 .. MaxCalls
             /\ pipe' \in Seq(Pid) /\ exitFile' \in Seq([pid : Pid, name : Name])
             /\ Ordered(tasks') /\ Pids(tasks') \subseteq given'
  <2>1. tasks[i].flt < MaxFlt /\ tasks' = [tasks EXCEPT ![i].flt = @ + 1]
        /\ UNCHANGED <<given, calls, pipe, exitFile>>
    BY <1>8 DEF Work
  <2>2. PICK t : t = [tasks[i] EXCEPT !.flt = @ + 1]
    OBVIOUS
  <2>3. t \in T /\ t.pid = tasks[i].pid
    <3>1. tasks[i].flt + 1 \in 0 .. MaxFlt
      BY <1>5, <2>1, SampleAssumption
    <3>2. tasks[i] \in T
      BY <1>4
    <3>. QED BY ONLY <1>3, <2>2, <3>1, <3>2
  <2>4. tasks' = [tasks EXCEPT ![i] = t]
    BY <2>1, <2>2
  <2>5. tasks' \in Seq(T) /\ Len(tasks') = Len(tasks) /\ \A k \in Pos(tasks) : tasks'[k].pid = tasks[k].pid
    <3>1. i \in 1 .. Len(tasks) /\ t \in T /\ tasks \in Seq(T)
      BY <1>4, <2>3 DEF Pos
    <3>2. tasks' \in Seq(T) /\ Len(tasks') = Len(tasks)
          /\ \A k \in 1 .. Len(tasks) : tasks'[k] = IF k = i THEN t ELSE tasks[k]
      BY <2>4, <3>1
    <3>. QED BY <2>3, <3>2 DEF Pos
  <2>6. Pos(tasks') = Pos(tasks)
    BY <2>5 DEF Pos
  <2>7. Ordered(tasks') /\ Pids(tasks') = Pids(tasks)
    BY <2>5, <2>6 DEF QInv, Sorted, Ordered, Pids
  <2>. QED BY <2>1, <2>5, <2>7 DEF QInv, TypeOK, Sorted
<1>9. ASSUME NEW i \in Pos(tasks), Call(i)
      PROVE  /\ tasks' \in Seq(T) /\ given' \subseteq Pid /\ calls' \in 0 .. MaxCalls
             /\ pipe' \in Seq(Pid) /\ exitFile' \in Seq([pid : Pid, name : Name])
             /\ Ordered(tasks') /\ Pids(tasks') \subseteq given'
  <2>1. calls < MaxCalls /\ calls' = calls + 1 /\ pipe' = Append(pipe, tasks[i].pid)
        /\ UNCHANGED <<tasks, given, exitFile>>
    BY <1>9 DEF Call
  <2>2. calls' \in 0 .. MaxCalls /\ pipe' \in Seq(Pid)
    BY <1>5, <2>1, SampleAssumption DEF QInv, TypeOK
  <2>. QED BY <1>4, <2>1, <2>2 DEF QInv, TypeOK, Sorted
<1>10. ASSUME NEW i \in Pos(tasks), Leave(i)
       PROVE  /\ tasks' \in Seq(T) /\ given' \subseteq Pid /\ calls' \in 0 .. MaxCalls
              /\ pipe' \in Seq(Pid) /\ exitFile' \in Seq([pid : Pid, name : Name])
              /\ Ordered(tasks') /\ Pids(tasks') \subseteq given'
  <2>1. /\ calls < MaxCalls /\ calls' = calls + 1 /\ pipe' = Append(pipe, tasks[i].pid)
        /\ exitFile' = Append(exitFile, [pid |-> tasks[i].pid, name |-> tasks[i].name])
        /\ tasks' = RemoveAt(tasks, i) /\ given' = given
    BY <1>10 DEF Leave
  <2>2. calls' \in 0 .. MaxCalls /\ pipe' \in Seq(Pid)
    BY <1>5, <2>1, SampleAssumption DEF QInv, TypeOK
  <2>3. exitFile' \in Seq([pid : Pid, name : Name])
    <3>1. [pid |-> tasks[i].pid, name |-> tasks[i].name] \in [pid : Pid, name : Name]
      BY <1>5
    <3>. QED BY <2>1, <3>1 DEF QInv, TypeOK
  <2>4. tasks' \in Seq(T)
    BY <1>4, <2>1, Removed
  <2>5. Ordered(tasks') /\ Pids(tasks') \subseteq Pids(tasks)
    BY <1>3, <1>4, <2>1, LeaveInOrder DEF QInv, Sorted
  <2>. QED BY <2>1, <2>2, <2>3, <2>4, <2>5 DEF QInv, TypeOK, Sorted
<1>. QED BY <1>7, <1>8, <1>9, <1>10 DEF Guest

\* The queue of the task list is as sorted as the list, and counts nothing yet.
LEMMA WalkQInv == QInv /\ Walk => QInv'
<1>. SUFFICES ASSUME QInv, Walk PROVE QInv'
  OBVIOUS
<1>1. PICK q : q = [i \in Pos(tasks) |-> NewNode(tasks[i])]
  OBVIOUS
<1>2. /\ pc = "walk" /\ pc' = "exits" /\ queue' = q /\ round' = round /\ pre_queue' = pre_queue
      /\ exits' = exits /\ got' = got /\ frenum' = frenum /\ stored' = stored /\ drained' = drained
      /\ last' = last /\ UNCHANGED <<tasks, given, calls, pipe, exitFile>>
  BY <1>1 DEF Walk, guest
<1>3. tasks \in Seq([pid : Pid, name : Name, flt : 0 .. MaxFlt])
  BY DEF QInv, TypeOK
<1>4. \A i \in Pos(tasks) : tasks[i].pid \in Pid /\ tasks[i].name \in Name /\ tasks[i].flt \in 0 .. MaxFlt
  <2>1. \A i \in Pos(tasks) : tasks[i] \in [pid : Pid, name : Name, flt : 0 .. MaxFlt]
    BY <1>3, ElementOf
  <2>. QED BY <2>1
<1>5. \A i \in Pos(tasks) : NewNode(tasks[i]) \in Node
  BY <1>4 DEF NewNode, Node
<1>6. q \in Seq(Node) /\ Len(q) = Len(tasks) /\ Pos(q) = Pos(tasks)
  <2>1. Len(tasks) \in Nat /\ Pos(tasks) = 1 .. Len(tasks)
    <3>1. Len(tasks) \in Nat
      BY ONLY <1>3
    <3>. QED BY <3>1 DEF Pos
  <2>2. q \in [1 .. Len(tasks) -> Node]
    BY <1>1, <1>5, <2>1
  <2>3. q \in Seq(Node) /\ Len(q) = Len(tasks)
    BY ONLY <2>1, <2>2
  <2>. QED BY <2>3 DEF Pos
<1>7. \A i \in Pos(q) : q[i].pid = tasks[i].pid /\ q[i].inc = q[i].flt /\ q[i].calls = 0
  <2>1. ASSUME NEW i \in Pos(tasks) PROVE q[i].pid = tasks[i].pid /\ q[i].inc = q[i].flt /\ q[i].calls = 0
    <3>1. q[i] = NewNode(tasks[i])
      BY <1>1
    <3>. QED BY <3>1 DEF NewNode
  <2>. QED BY <1>6, <2>1
<1>8. Ordered(q)
  BY <1>6, <1>7 DEF QInv, Sorted, Ordered
<1>9. TypeOK'
  <2>1. stored = {}
    BY <1>2 DEF QInv, Begun
  <2>. QED BY <1>2, <1>6, <2>1 DEF QInv, TypeOK, Pos, Node
<1>10. Begun'
  BY <1>2, <1>7 DEF QInv, Begun
<1>11. Sorted'
  BY <1>2, <1>8 DEF QInv, Sorted
<1>12. Balanced'
  <2>1. IsFiniteSet(Counted(q)) /\ Cardinality(Counted(q)) = 0
    BY <1>7, NoneCounted
  <2>2. exits = <<>> /\ drained = <<>> /\ Pos(exits) = {} /\ Pos(drained) = {}
    BY <1>2 DEF QInv, Begun, Pos
  <2>3. IsFiniteSet(Counted(exits)) /\ Cardinality(Counted(exits)) = 0
    BY <2>2, NoneCounted
  <2>4. Mine' = {}
    BY <1>2, <2>2 DEF Mine
  <2>. QED BY <1>2, <2>1, <2>3, <2>4, FS_EmptySet DEF Balanced
<1>13. Repeated' /\ IncrementSinceLast' /\ drained' \in Seq(Pid)
  BY <1>2 DEF QInv, Repeated, Repeats, IncrementSinceLast
<1>. QED BY <1>9, <1>10, <1>11, <1>12, <1>13 DEF QInv

\* Neither do the exit records.
LEMMA ExitsQInv == QInv /\ read_exitps_from_file => QInv'
<1>. SUFFICES ASSUME QInv, read_exitps_from_file PROVE QInv'
  OBVIOUS
<1>1. PICK e : e = [i \in Pos(exitFile) |-> [pid |-> exitFile[i].pid, name |-> exitFile[i].name, calls |-> 0]]
  OBVIOUS
<1>2. /\ pc = "exits" /\ pc' = "drain" /\ exits' = e /\ exitFile' = <<>> /\ round' = round
      /\ queue' = queue /\ pre_queue' = pre_queue
      /\ got' = got /\ frenum' = frenum /\ stored' = stored /\ drained' = drained
      /\ last' = last /\ UNCHANGED <<tasks, given, calls, pipe>>
  BY <1>1 DEF read_exitps_from_file, guest
<1>3. exitFile \in Seq([pid : Pid, name : Name])
  BY DEF QInv, TypeOK
<1>4. \A i \in Pos(exitFile) : [pid |-> exitFile[i].pid, name |-> exitFile[i].name, calls |-> 0] \in Exit
  <2>1. \A i \in Pos(exitFile) : exitFile[i] \in [pid : Pid, name : Name]
    BY <1>3, ElementOf
  <2>. QED BY <2>1 DEF Exit
<1>5. e \in Seq(Exit) /\ Pos(e) = Pos(exitFile)
  <2>1. Len(exitFile) \in Nat /\ Pos(exitFile) = 1 .. Len(exitFile)
    <3>1. Len(exitFile) \in Nat
      BY ONLY <1>3
    <3>. QED BY <3>1 DEF Pos
  <2>2. e \in [1 .. Len(exitFile) -> Exit]
    BY <1>1, <1>4, <2>1
  <2>3. e \in Seq(Exit) /\ Len(e) = Len(exitFile)
    BY ONLY <2>1, <2>2
  <2>. QED BY <2>3 DEF Pos
<1>6. \A i \in Pos(e) : e[i].calls = 0
  BY <1>1, <1>5
<1>7. TypeOK'
  BY <1>2, <1>5 DEF QInv, TypeOK, Pos, Node, Exit
<1>8. Begun' /\ Sorted'
  BY <1>2 DEF QInv, Begun, Sorted
<1>9. Balanced'
  <2>1. IsFiniteSet(Counted(e)) /\ Cardinality(Counted(e)) = 0
    BY <1>6, NoneCounted
  <2>2. (\A k \in Pos(queue) : queue[k].calls = 0) /\ drained = <<>> /\ Pos(drained) = {}
    BY <1>2 DEF QInv, Begun, Pos
  <2>3. IsFiniteSet(Counted(queue)) /\ Cardinality(Counted(queue)) = 0
    BY <2>2, NoneCounted
  <2>4. Mine' = {}
    BY <1>2, <2>2 DEF Mine
  <2>. QED BY <1>2, <2>1, <2>3, <2>4, FS_EmptySet DEF Balanced
<1>10. Repeated' /\ IncrementSinceLast' /\ drained' \in Seq(Pid)
  BY <1>2 DEF QInv, Repeated, Repeats, IncrementSinceLast
<1>. QED BY <1>7, <1>8, <1>9, <1>10 DEF QInv

\* Each turn of the drain credits one record, the last one the record before it
\* once more.
LEMMA DrainQInv == QInv /\ Drain => QInv'
<1>. SUFFICES ASSUME QInv, Drain PROVE QInv'
  OBVIOUS
<1>1. /\ pc = "drain" /\ round' = round /\ pre_queue' = pre_queue /\ frenum' = frenum /\ stored' = stored
      /\ last' = last /\ UNCHANGED <<tasks, given, calls, exitFile>>
      /\ queue' = Count(queue, got')
      /\ exits' = IF got' \in Pids(queue) THEN exits ELSE Count(exits, got')
  BY DEF Drain, Credit, guest
<1>2. queue \in Seq(Node) /\ exits \in Seq(Exit) /\ IsFiniteSet(Counted(queue)) /\ IsFiniteSet(Counted(exits))
  BY DEF QInv, TypeOK, Balanced, Exit
<1>3. /\ queue' \in Seq(Node) /\ exits' \in Seq(Exit)
      /\ Len(queue') = Len(queue) /\ Len(exits') = Len(exits)
      /\ Pids(queue') = Pids(queue) /\ Pids(exits') = Pids(exits)
      /\ \A k \in Pos(queue) : queue'[k].pid = queue[k].pid /\ queue'[k].inc = queue[k].inc /\ queue'[k].flt = queue[k].flt
      /\ IsFiniteSet(Counted(queue')) /\ IsFiniteSet(Counted(exits'))
      /\ Cardinality(Counted(queue')) + Cardinality(Counted(exits'))
           = Cardinality(Counted(queue)) + Cardinality(Counted(exits))
             + (IF got' \in Pids(queue) \union Pids(exits) THEN 1 ELSE 0)
  BY <1>1, <1>2, CreditedOnce
<1>4. Owner' = Owner /\ Pos(queue') = Pos(queue)
  BY <1>3 DEF Owner, Pos
<1>5. Cardinality(Counted(queue)) + Cardinality(Counted(exits)) = Cardinality(Mine)
  BY <1>1 DEF QInv, Balanced
<1>6. Cardinality(Counted(queue')) + Cardinality(Counted(exits'))
        = Cardinality(Mine) + (IF got' \in Owner THEN 1 ELSE 0)
  BY <1>3, <1>5 DEF Owner
<1>7. Sorted'
  <2>1. Ordered(queue')
    BY <1>3, <1>4 DEF QInv, Sorted, Ordered
  <2>. QED BY <1>1, <2>1 DEF QInv, Sorted
<1>8. \A k \in Pos(queue') : queue'[k].inc = queue'[k].flt
  BY <1>1, <1>3, <1>4 DEF QInv, Begun
<1>9. CASE pipe # <<>>
  <2>1. got' = Head(pipe) /\ pipe' = Tail(pipe) /\ drained' = Append(drained, got') /\ pc' = pc
    BY <1>9 DEF Drain
  <2>2. got' \in Pid /\ pipe' \in Seq(Pid) /\ drained \in Seq(Pid) /\ drained' \in Seq(Pid)
    <3>1. pipe \in Seq(Pid) /\ drained \in Seq(Pid)
      BY DEF QInv, TypeOK
    <3>2. Head(pipe) \in Pid /\ Tail(pipe) \in Seq(Pid)
      BY <1>9, <3>1
    <3>. QED BY <2>1, <3>1, <3>2
  <2>3. TypeOK'
    BY <1>1, <1>3, <1>4, <2>1, <2>2 DEF QInv, TypeOK, Pos, Node, Exit
  <2>4. Begun'
    BY <1>1, <1>8, <2>1 DEF QInv, Begun
  <2>5. Cardinality(Mine') = Cardinality(Mine) + (IF got' \in Owner THEN 1 ELSE 0)
    <3>1. PICK t : t = drained'
      OBVIOUS
    <3>2. PICK g : g = got'
      OBVIOUS
    <3>3. Mine' = {k \in Pos(t) : t[k] \in Owner}
      BY <1>4, <3>1 DEF Mine
    <3>4. g \in Pid /\ t = Append(drained, g)
      BY <2>1, <2>2, <3>1, <3>2
    <3>5. PICK A : A = Mine
      OBVIOUS
    <3>6. PICK B : B = Mine'
      OBVIOUS
    <3>7. PICK m : m = Len(drained)
      OBVIOUS
    <3>8. m \in Nat /\ Len(t) = m + 1 /\ t[m + 1] = g /\ \A k \in 1 .. m : t[k] = drained[k]
      BY ONLY <2>2, <3>4, <3>7
    <3>9. Pos(drained) = 1 .. m /\ Pos(t) = (1 .. m) \union {m + 1}
      BY <3>7, <3>8 DEF Pos
    <3>10. A \subseteq 1 .. m /\ (\A k \in 1 .. m : k \in A <=> drained[k] \in Owner)
           /\ B \subseteq (1 .. m) \union {m + 1} /\ (\A k \in 1 .. m : k \in B <=> t[k] \in Owner)
           /\ (m + 1 \in B <=> t[m + 1] \in Owner)
      BY <3>3, <3>5, <3>6, <3>9 DEF Mine
    <3>11. B = IF g \in Owner THEN A \union {m + 1} ELSE A
      <4>1. \A k \in 1 .. m : k \in A <=> k \in B
        BY <3>8, <3>10
      <4>2. m + 1 \in B <=> g \in Owner
        BY <3>8, <3>10
      <4>3. A \subseteq 1 .. m /\ B \subseteq (1 .. m) \union {m + 1}
        BY <3>10
      <4>4. m + 1 \notin 1 .. m
        BY <3>8
      <4>5. \A x : x \in B <=> x \in A \/ (x = m + 1 /\ g \in Owner)
        BY ONLY <4>1, <4>2, <4>3, <4>4
      <4>. QED BY ONLY <4>5
    <3>12. IsFiniteSet(A) /\ m + 1 \notin A
      <4>1. IsFiniteSet(1 .. m)
        BY <3>8, FS_Interval
      <4>2. A \subseteq 1 .. m
        BY <3>10
      <4>3. m + 1 \notin 1 .. m
        BY <3>8
      <4>4. IsFiniteSet(A)
        BY <4>1, <4>2, FS_Subset
      <4>. QED BY <4>2, <4>3, <4>4
    <3>13. Cardinality(A) \in Nat /\ Cardinality(A \union {m + 1}) = Cardinality(A) + 1
      BY <3>12, FS_CardinalityType, FS_AddElement
    <3>14. Cardinality(B) = Cardinality(A) + (IF g \in Owner THEN 1 ELSE 0)
      BY ONLY <3>11, <3>13
    <3>. QED BY <3>2, <3>5, <3>6, <3>14
  <2>6. Balanced'
    BY <1>1, <1>3, <1>6, <2>1, <2>5 DEF Balanced
  <2>7. Repeated' /\ IncrementSinceLast'
    BY <1>1, <2>1 DEF QInv, Repeated, Repeats, IncrementSinceLast
  <2>. QED BY <1>7, <2>2, <2>3, <2>4, <2>6, <2>7 DEF QInv
<1>10. CASE pipe = <<>>
  <2>1. got' = got /\ pipe' = pipe /\ drained' = drained /\ pc' = "store"
    BY <1>10 DEF Drain
  <2>2. TypeOK'
    BY <1>1, <1>3, <1>4, <2>1 DEF QInv, TypeOK, Pos, Node, Exit
  <2>3. Begun'
    BY <1>1, <1>8, <2>1 DEF QInv, Begun
  <2>4. Mine' = Mine
    BY <1>4, <2>1 DEF Mine
  <2>5. Balanced'
    BY <1>1, <1>3, <1>4, <1>6, <2>1, <2>4 DEF Balanced
  <2>6. Repeated' /\ IncrementSinceLast' /\ drained' \in Seq(Pid)
    BY <1>1, <2>1 DEF QInv, Repeated, Repeats, IncrementSinceLast
  <2>. QED BY <1>7, <2>2, <2>3, <2>5, <2>6 DEF QInv
<1>. QED BY <1>9, <1>10

\* An increment is what the counter grew by, and the rest of the node stays.
LEMMA Incremented ==
  ASSUME pre_queue \in Seq(Node), Ordered(pre_queue), NEW n \in Node, NEW m, m = Increments(n)
  PROVE  /\ m \in Node /\ m.pid = n.pid /\ m.name = n.name /\ m.flt = n.flt /\ m.calls = n.calls
         /\ Before(m) = Before(n) /\ (Wanted(m) <=> Wanted(n))
         /\ m.inc = IF Met(n) THEN n.flt - pre_queue[Stop(n)].flt ELSE n.inc
         /\ Met(n) => pre_queue[Stop(n)] \in Node
<1>1. Met(n) => Stop(n) \in Pos(pre_queue)
  BY Found
<1>2. Met(n) => pre_queue[Stop(n)] \in Node
  BY <1>1, ElementOf
<1>3. CASE Met(n)
  <2>1. PICK d : d = n.flt - pre_queue[Stop(n)].flt
    OBVIOUS
  <2>2. n.flt \in Int /\ pre_queue[Stop(n)].flt \in Int
    <3>1. \A x \in Node : x.flt \in Int
      BY SampleAssumption DEF Node
    <3>. QED BY <1>2, <1>3, <3>1
  <2>3. d \in Int
    BY <2>1, <2>2
  <2>4. m = [n EXCEPT !.inc = d]
    BY <1>3, <2>1 DEF Increments
  <2>5. m \in Node /\ m.pid = n.pid /\ m.name = n.name /\ m.flt = n.flt /\ m.calls = n.calls /\ m.inc = d
    BY <2>3, <2>4 DEF Node
  <2>. QED BY <1>2, <1>3, <2>1, <2>5 DEF Before, Wanted
<1>4. CASE ~Met(n)
  BY <1>2, <1>4 DEF Increments
<1>. QED BY <1>3, <1>4

\* Traversal fills the increments in, and changes nothing else of the queue.
LEMMA StoreKeeps ==
  ASSUME QInv, Store
  PROVE  /\ queue' \in Seq(Node) /\ Len(queue') = Len(queue) /\ Pos(queue') = Pos(queue)
         /\ \A k \in Pos(queue) :
              /\ queue[k] \in Node /\ queue'[k] \in Node
              /\ queue'[k].pid = queue[k].pid /\ queue'[k].name = queue[k].name
              /\ queue'[k].flt = queue[k].flt /\ queue'[k].calls = queue[k].calls
         /\ pre_queue = <<>> => queue' = queue
         /\ pre_queue # <<>> =>
              \A k \in Pos(queue) :
                queue'[k] = IF Wanted(queue[k]) THEN Increments(queue[k]) ELSE queue[k]
         /\ stored' \subseteq Pos(queue)
<1>1. queue \in Seq(Node) /\ pre_queue \in Seq(Node) /\ Ordered(pre_queue)
  BY DEF QInv, TypeOK, Sorted
<1>2. traversal
  BY DEF Store
<1>3. \A k \in Pos(queue) : queue[k] \in Node
  BY <1>1, ElementOf
<1>4. CASE pre_queue = <<>>
  BY <1>1, <1>2, <1>3, <1>4 DEF traversal
<1>5. CASE pre_queue # <<>>
  <2>1. PICK q : q = [i \in Pos(queue) |-> IF Wanted(queue[i]) THEN Increments(queue[i]) ELSE queue[i]]
    OBVIOUS
  <2>2. queue' = q /\ stored' \subseteq Pos(queue)
    BY <1>2, <1>5, <2>1 DEF traversal
  <2>3. ASSUME NEW k \in Pos(queue)
        PROVE  /\ q[k] = IF Wanted(queue[k]) THEN Increments(queue[k]) ELSE queue[k]
               /\ q[k] \in Node /\ q[k].pid = queue[k].pid /\ q[k].name = queue[k].name
               /\ q[k].flt = queue[k].flt /\ q[k].calls = queue[k].calls
    <3>1. PICK m : m = Increments(queue[k])
      OBVIOUS
    <3>2. m \in Node /\ m.pid = queue[k].pid /\ m.name = queue[k].name
          /\ m.flt = queue[k].flt /\ m.calls = queue[k].calls
      BY <1>1, <1>3, <3>1, Incremented
    <3>3. q[k] = IF Wanted(queue[k]) THEN m ELSE queue[k]
      BY <2>1, <3>1
    <3>. QED BY <1>3, <3>1, <3>2, <3>3
  <2>4. q \in Seq(Node) /\ Len(q) = Len(queue)
    <3>1. Len(queue) \in Nat /\ Pos(queue) = 1 .. Len(queue)
      BY <1>1 DEF Pos
    <3>2. q \in [1 .. Len(queue) -> Node]
      BY <2>1, <2>3, <3>1
    <3>. QED BY ONLY <3>1, <3>2
  <2>5. Pos(q) = Pos(queue)
    BY <2>4 DEF Pos
  <2>. QED BY <1>3, <1>5, <2>2, <2>3, <2>4, <2>5
<1>. QED BY <1>4, <1>5

\* Every row is an increment since the last round, and every process that gets
\* none repeats its newest row.
LEMMA StoreQInv == QInv /\ Store => QInv'
<1>. SUFFICES ASSUME QInv, Store PROVE QInv'
  OBVIOUS
<1>1. /\ pc = "store" /\ pc' = "sleep" /\ round' = round /\ pre_queue' = pre_queue
      /\ exits' = exits /\ got' = got /\ drained' = drained
      /\ UNCHANGED <<tasks, given, calls, pipe, exitFile>>
      /\ last' = Newest /\ traversal /\ frenum' = IF frenum > 0 THEN frenum - 1 ELSE 0
  BY DEF Store, guest
<1>2. queue \in Seq(Node) /\ pre_queue \in Seq(Node) /\ Ordered(pre_queue) /\ Ordered(queue) /\ frenum \in 0 .. 1
  BY DEF QInv, TypeOK, Sorted
<1>3. /\ queue' \in Seq(Node) /\ Len(queue') = Len(queue) /\ Pos(queue') = Pos(queue)
      /\ \A k \in Pos(queue) :
           /\ queue[k] \in Node /\ queue'[k] \in Node
           /\ queue'[k].pid = queue[k].pid /\ queue'[k].name = queue[k].name
           /\ queue'[k].flt = queue[k].flt /\ queue'[k].calls = queue[k].calls
      /\ stored' \subseteq Pos(queue)
  BY StoreKeeps
<1>4. Ordered(queue') /\ Pids(queue') = Pids(queue)
  BY <1>2, <1>3 DEF Ordered, Pids
<1>5. TypeOK'
  <2>1. frenum' \in 0 .. 1
    BY <1>1, <1>2
  <2>. QED BY <1>1, <1>3, <2>1 DEF QInv, TypeOK, Pos, Node
<1>6. Begun' /\ Sorted'
  BY <1>1, <1>4 DEF QInv, Begun, Sorted
<1>7. Balanced'
  <2>1. Counted(queue') = Counted(queue)
    BY <1>3, SameCounted
  <2>2. Owner' = Owner
    BY <1>1, <1>4 DEF Owner
  <2>3. Mine' = Mine
    BY <1>1, <2>2 DEF Mine
  <2>. QED BY <1>1, <2>1, <2>2, <2>3 DEF QInv, Balanced
<1>8. \A k \in Pos(queue) : queue[k].inc = queue[k].flt
  BY <1>1 DEF QInv, Begun
<1>9. IncrementSinceLast'
  <2>1. CASE pre_queue = <<>>
    BY <1>1, <2>1 DEF traversal, IncrementSinceLast
  <2>2. CASE pre_queue # <<>>
    <3>. SUFFICES ASSUME NEW i \in stored'
                  PROVE  queue'[i].inc = IF Before(queue'[i]) = {} THEN queue'[i].flt
                                         ELSE queue'[i].flt - pre_queue[CHOOSE k \in Before(queue'[i]) : TRUE].flt
      BY <1>1 DEF IncrementSinceLast, Before
    <3>1. i \in Pos(queue) /\ Wanted(queue[i])
      BY <1>1, <1>3, <2>2 DEF traversal
    <3>2. PICK n : n = queue[i]
      OBVIOUS
    <3>3. PICK m : m = queue'[i]
      OBVIOUS
    <3>4. n \in Node /\ n.inc = n.flt /\ m = Increments(n)
      BY <1>3, <1>8, <2>2, <3>1, <3>2, <3>3, StoreKeeps
    <3>5. m.flt = n.flt /\ Before(m) = Before(n)
          /\ m.inc = IF Met(n) THEN n.flt - pre_queue[Stop(n)].flt ELSE n.flt
      BY <1>2, <3>4, Incremented
    <3>6. (Met(n) <=> Before(n) # {}) /\ (Met(n) => Before(n) = {Stop(n)})
      BY <1>2, <3>4, Found
    <3>7. m.inc = IF Before(m) = {} THEN m.flt
                  ELSE m.flt - pre_queue[CHOOSE k \in Before(m) : TRUE].flt
      BY <3>5, <3>6
    <3>. QED BY <3>3, <3>7
  <2>. QED BY <2>1, <2>2
<1>10. Repeated'
  <2>. SUFFICES ASSUME NEW i \in Pos(queue), Wanted(queue'[i])
                PROVE  last'[queue'[i].pid] = Sample(queue'[i])
    BY <1>1, <1>3 DEF Repeated, Repeats
  <2>1. PICK q : q = queue'
    OBVIOUS
  <2>2. q \in Seq(Node) /\ Ordered(q) /\ i \in Pos(q) /\ q[i].pid \in Pids(queue)
    BY <1>3, <1>4, <2>1 DEF Pids
  <2>3. PICK p : p = q[i].pid
    OBVIOUS
  <2>4. SelectInSeq(q, LAMBDA n : n.pid = p) = i
    <3>1. SelectInSeq(q, LAMBDA n : n.pid = q[i].pid) = i
      BY <2>2, OnlyOne
    <3>. QED BY <2>3, <3>1
  <2>5. last'[p] = IF i \in stored' \/ pre_queue = <<>> THEN Sample(q[i]) ELSE Latest(q[i])
    <3>1. last'[p] = LET j == SelectInSeq(q, LAMBDA n : n.pid = p)
                     IN  IF j \in stored' \/ pre_queue = <<>> THEN Sample(q[j]) ELSE Latest(q[j])
      BY <1>1, <2>1, <2>2, <2>3 DEF Newest
    <3>. QED BY <2>4, <3>1
  <2>6. CASE i \in stored' \/ pre_queue = <<>>
    BY <2>1, <2>3, <2>5, <2>6
  <2>7. CASE i \notin stored' /\ pre_queue # <<>>
    <3>1. PICK n : n = queue[i]
      OBVIOUS
    <3>2. PICK m : m = q[i]
      OBVIOUS
    <3>3. n \in Node /\ Wanted(n) /\ m = Increments(n) /\ Wanted(m)
      BY <1>3, <2>1, <2>7, <3>1, <3>2, StoreKeeps DEF Wanted
    <3>4. findSamePointinQueue(n)
      BY <1>1, <2>7, <3>1, <3>3 DEF traversal
    <3>5. PICK k : k = Stop(n)
      OBVIOUS
    <3>6. Met(n) /\ m.inc = pre_queue[k].inc /\ m.calls = pre_queue[k].calls
      BY <3>3, <3>4, <3>5 DEF findSamePointinQueue, compare2TaskNode
    <3>7. k \in Pos(pre_queue) /\ pre_queue[k].pid = n.pid /\ pre_queue[k].name = n.name
      BY <1>2, <3>3, <3>5, <3>6, Found DEF Met
    <3>8. m.pid = n.pid /\ m.name = n.name
      BY <1>2, <3>3, Incremented
    <3>9. Wanted(pre_queue[k]) /\ Sample(pre_queue[k]) = Sample(m)
      BY <3>3, <3>6, <3>7, <3>8 DEF Wanted, Sample
    <3>10. last[p] = Sample(m)
      BY <1>1, <2>3, <3>2, <3>7, <3>8, <3>9 DEF QInv, Repeated, Repeats
    <3>11. Latest(m) = Sample(m)
      BY <2>3, <3>2, <3>10 DEF Latest
    <3>. QED BY <2>1, <2>3, <2>5, <2>7, <3>2, <3>11
  <2>. QED BY <2>6, <2>7
<1>. QED BY <1>1, <1>5, <1>6, <1>7, <1>9, <1>10 DEF QInv

\* The queue becomes the one to compare with.
LEMMA RoundQInv == QInv /\ NextRound => QInv'
<1>. SUFFICES ASSUME QInv, NextRound PROVE QInv'
  OBVIOUS
<1>1. /\ pc = "sleep" /\ pc' = (IF round + 1 < Rounds THEN "walk" ELSE "done") /\ round' = round + 1
      /\ pre_queue' = queue /\ queue' = <<>> /\ exits' = <<>> /\ stored' = {} /\ drained' = <<>>
      /\ got' = got /\ frenum' = frenum /\ last' = last /\ UNCHANGED <<tasks, given, calls, pipe, exitFile>>
  BY DEF NextRound, guest
<1>2. round < Rounds /\ round \in 0 .. Rounds
  BY <1>1 DEF QInv, TypeOK, Begun
<1>3. TypeOK'
  <2>1. round' \in 0 .. Rounds
    BY <1>1, <1>2, SampleAssumption
  <2>. QED BY <1>1, <2>1 DEF QInv, TypeOK, Pos, Node
<1>4. Begun'
  <2>1. pc' # "done" => round' < Rounds
    BY <1>1
  <2>. QED BY <1>1, <2>1 DEF Begun, Pos
<1>5. Pos(queue') = {} /\ Pos(exits') = {} /\ Pos(drained') = {}
  BY <1>1 DEF Pos
<1>6. Sorted'
  BY <1>1, <1>5 DEF QInv, Sorted, Ordered
<1>7. Balanced'
  <2>1. /\ IsFiniteSet(Counted(queue')) /\ Cardinality(Counted(queue')) = 0
        /\ IsFiniteSet(Counted(exits')) /\ Cardinality(Counted(exits')) = 0
    BY <1>5, NoneCounted
  <2>2. Mine' = {}
    BY <1>5 DEF Mine
  <2>. QED BY <1>1, <2>1, <2>2, FS_EmptySet DEF Balanced
<1>8. Repeated' /\ IncrementSinceLast' /\ drained' \in Seq(Pid)
  BY <1>1 DEF QInv, Repeated, Repeats, IncrementSinceLast
<1>. QED BY <1>3, <1>4, <1>6, <1>7, <1>8 DEF QInv

\* Every step of the guest and of the father keeps the invariant.
LEMMA NextQInv == QInv /\ [Next]_vars => QInv'
<1>. SUFFICES ASSUME QInv, [Next]_vars PROVE QInv'
  OBVIOUS
<1>1. CASE UNCHANGED vars
  <2>1. UNCHANGED <<father, drained, last>> /\ UNCHANGED <<tasks, given, calls, pipe, exitFile>>
    BY <1>1 DEF vars, guest
  <2>2. TypeOK' /\ Sorted'
    BY <2>1 DEF QInv, TypeOK, Sorted, father, Pos, Node
  <2>. QED BY <2>1, <2>2, FatherKeeps DEF QInv
<1>. QED BY <1>1, GuestQInv, WalkQInv, ExitsQInv, DrainQInv, StoreQInv, RoundQInv DEF Next, Father

\* For any processes and any number of rounds: every record that is read is
\* credited once, to a row or to an exit record, and the last one once more.
THEOREM RecordsCreditedOnce == Spec => []Conserved
<1>1. QInv => Conserved
  BY DEF QInv, Balanced, Mine, Conserved
<1>. QED BY <1>1, InitQInv, NextQInv, PTL DEF Spec

\* For any processes and any number of rounds: what is stored of a process is
\* its increment since the round before, its running total if it is seen first,
\* and what is not stored is the row that is there.
THEOREM RowsSayWhatChanged == Spec => []RowsAreRight
<1>1. QInv => RowsAreRight
  BY DEF QInv, RowsAreRight, Repeated, Repeats, UnstoredIsRepeat
<1>. QED BY <1>1, InitQInv, NextQInv, PTL DEF Spec

-----------------------------------------------------------------------------
(***************************************************************************)
(* Lists of modules.                                                       *)
(***************************************************************************)
\* No module is on a list twice.
Distinct(s) == \A i, j \in Pos(s) : s[i] = s[j] => i = j

\* ToSet of a sequence, by its positions.
LEMMA MembersAt ==
  ASSUME NEW R, NEW s \in Seq(R)
  PROVE  Modules!ToSet(s) = {s[i] : i \in Pos(s)} /\ Modules!ToSet(s) \subseteq R
BY DEF Modules!ToSet, Pos

\* A module that is taken off the list is no longer on it; one that is not there
\* is not taken off.
LEMMA TakenOff ==
  ASSUME NEW s \in Seq(Mod), Distinct(s), NEW m, NEW r, r = Modules!RemoveFirst(s, m)
  PROVE  /\ r \in Seq(Mod) /\ Distinct(r) /\ Modules!ToSet(r) = Modules!ToSet(s) \ {m}
         /\ m \in Modules!ToSet(s) => Len(r) = Len(s) - 1
         /\ m \notin Modules!ToSet(s) => r = s
<1>1. Modules!ToSet(s) = {s[i] : i \in Pos(s)}
  BY MembersAt
<1>2. Pos(s) = 1 .. Len(s) /\ Len(s) \in Nat
  BY DEF Pos
<1>3. CASE m \notin Modules!ToSet(s)
  <2>1. ~ \E i \in 1 .. Len(s) : s[i] = m
    BY <1>1, <1>2, <1>3
  <2>2. r = s
    BY <2>1 DEF Modules!RemoveFirst
  <2>. QED BY <1>3, <2>2
<1>4. CASE m \in Modules!ToSet(s)
  <2>1. PICK I : I = {k \in 1 .. Len(s) : s[k] = m}
    OBVIOUS
  <2>2. I # {} /\ I \subseteq Nat
    BY <1>1, <1>2, <1>4, <2>1
  <2>3. PICK i : i = Min(I)
    OBVIOUS
  <2>4. i \in Pos(s) /\ s[i] = m
    BY <1>2, <2>1, <2>2, <2>3, LeastIndex
  <2>5. r = RemoveAt(s, i)
    <3>1. \E k \in 1 .. Len(s) : s[k] = m
      BY <1>2, <2>4
    <3>2. Modules!SelectInSeq(s, LAMBDA v : v = m) = i
      BY <2>1, <2>2, <2>3 DEF Modules!SelectInSeq, Modules!Min, Min
    <3>. QED BY <3>1, <3>2 DEF Modules!RemoveFirst, Modules!RemoveAt, RemoveAt
  <2>6. r \in Seq(Mod) /\ Len(r) = Len(s) - 1
        /\ \A k \in 1 .. (Len(s) - 1) : r[k] = s[IF k < i THEN k ELSE k + 1]
    BY <2>4, <2>5, Removed
  <2>7. Pos(r) = 1 .. (Len(s) - 1) /\ i \in 1 .. Len(s)
    BY <1>2, <2>4, <2>6 DEF Pos
  <2>8. \A k \in Pos(r) : (IF k < i THEN k ELSE k + 1) \in Pos(s) \ {i}
    BY <1>2, <2>7
  <2>9. Distinct(r)
    <3>. SUFFICES ASSUME NEW k \in Pos(r), NEW l \in Pos(r), r[k] = r[l] PROVE k = l
      BY DEF Distinct
    <3>1. PICK kk : kk = IF k < i THEN k ELSE k + 1
      OBVIOUS
    <3>2. PICK ll : ll = IF l < i THEN l ELSE l + 1
      OBVIOUS
    <3>3. kk \in Pos(s) /\ ll \in Pos(s) /\ s[kk] = s[ll]
      BY <2>6, <2>7, <2>8, <3>1, <3>2
    <3>4. kk = ll
      BY <3>3 DEF Distinct
    <3>. QED BY <1>2, <2>7, <3>1, <3>2, <3>4
  <2>10. Modules!ToSet(r) = {r[k] : k \in Pos(r)}
    BY <2>6, MembersAt
  <2>11. Modules!ToSet(r) \subseteq Modules!ToSet(s) \ {m}
    <3>. SUFFICES ASSUME NEW k \in Pos(r) PROVE r[k] \in Modules!ToSet(s) \ {m}
      BY <2>10
    <3>1. PICK kk : kk = IF k < i THEN k ELSE k + 1
      OBVIOUS
    <3>2. kk \in Pos(s) /\ kk # i /\ r[k] = s[kk]
      BY <2>6, <2>7, <2>8, <3>1
    <3>. QED BY <1>1, <2>4, <3>2 DEF Distinct
  <2>12. Modules!ToSet(s) \ {m} \subseteq Modules!ToSet(r)
    <3>. SUFFICES ASSUME NEW k \in Pos(s), s[k] # m PROVE \E l \in Pos(r) : r[l] = s[k]
      BY <1>1, <2>10
    <3>1. k # i
      BY <2>4
    <3>2. CASE k < i
      <4>1. k \in Pos(r) /\ r[k] = s[k]
        BY <1>2, <2>6, <2>7, <3>2
      <4>. QED BY <4>1
    <3>3. CASE k > i
      <4>1. k - 1 \in Pos(r) /\ ~ (k - 1 < i) /\ (k - 1) + 1 = k
        BY <1>2, <2>7, <3>3
      <4>2. r[k - 1] = s[k]
        BY <2>6, <2>7, <4>1
      <4>. QED BY <4>1, <4>2
    <3>. QED BY <1>2, <2>7, <3>1, <3>2, <3>3
  <2>. QED BY <1>4, <2>6, <2>9, <2>11, <2>12
<1>. QED BY <1>3, <1>4

\* A list with a module more at its front.
LEMMA PutFirst ==
  ASSUME NEW s \in Seq(Mod), NEW m \in Mod, NEW r, r = <<m>> \o s
  PROVE  /\ r \in Seq(Mod) /\ Len(r) = Len(s) + 1 /\ r[1] = m
         /\ \A k \in 1 .. Len(s) : r[k + 1] = s[k]
<1>1. PICK a : a = <<m>>
  OBVIOUS
<1>2. a \in Seq(Mod) /\ Len(a) = 1 /\ a[1] = m
  BY <1>1
<1>3. r = a \o s
  BY <1>1
<1>4. a \o s \in Seq(Mod) /\ Len(a \o s) = Len(a) + Len(s)
      /\ \A k \in 1 .. (Len(a) + Len(s)) : (a \o s)[k] = IF k <= Len(a) THEN a[k] ELSE s[k - Len(a)]
  <2>1. a \in Seq(Mod)
    BY <1>2
  <2>. QED BY ONLY <2>1, s \in Seq(Mod)
<1>5. Len(s) \in Nat
  OBVIOUS
<1>6. r \in Seq(Mod) /\ Len(r) = Len(s) + 1
      /\ \A k \in 1 .. (1 + Len(s)) : r[k] = IF k <= 1 THEN a[k] ELSE s[k - 1]
  <2>1. PICK n : n = Len(s)
    OBVIOUS
  <2>2. PICK c : c = a \o s
    OBVIOUS
  <2>3. c \in Seq(Mod) /\ Len(c) = 1 + n
        /\ \A k \in 1 .. (1 + n) : c[k] = IF k <= 1 THEN a[k] ELSE s[k - 1]
    BY ONLY <1>2, <1>4, <2>1, <2>2
  <2>4. n \in Nat
    BY <1>5, <2>1
  <2>. QED BY ONLY <1>3, <2>1, <2>2, <2>3, <2>4
<1>7. r[1] = m
  BY ONLY <1>2, <1>5, <1>6
<1>8. ASSUME NEW k \in 1 .. Len(s) PROVE r[k + 1] = s[k]
  <2>1. k + 1 \in 1 .. (1 + Len(s)) /\ ~ (k + 1 <= 1) /\ (k + 1) - 1 = k
    BY ONLY <1>5, k \in 1 .. Len(s)
  <2>. QED BY ONLY <1>6, <2>1
<1>. QED BY <1>6, <1>7, <1>8

\* A module that is loaded is the first on the list.
LEMMA Loaded ==
  ASSUME NEW s \in Seq(Mod), Distinct(s), NEW m \in Mod, m \notin Modules!ToSet(s),
         NEW r \in Seq(Mod), Len(r) = Len(s) + 1, r[1] = m, \A k \in 1 .. Len(s) : r[k + 1] = s[k]
  PROVE  Distinct(r) /\ Modules!ToSet(r) = Modules!ToSet(s) \union {m}
<1>1. Modules!ToSet(s) = {s[i] : i \in Pos(s)}
  BY MembersAt
<1>2. Len(r) = Len(s) + 1 /\ Len(s) \in Nat /\ r[1] = m /\ \A k \in 1 .. Len(s) : r[k + 1] = s[k]
  OBVIOUS
<1>3. Pos(s) = 1 .. Len(s) /\ Pos(r) = 1 .. (Len(s) + 1)
  BY <1>2 DEF Pos
<1>4. \A k \in Pos(r) : k = 1 \/ (k - 1 \in Pos(s) /\ r[k] = s[k - 1])
  <2>. SUFFICES ASSUME NEW k \in Pos(r), k # 1 PROVE k - 1 \in Pos(s) /\ r[k] = s[k - 1]
    OBVIOUS
  <2>1. k - 1 \in Pos(s) /\ (k - 1) + 1 = k
    BY <1>2, <1>3
  <2>2. r[(k - 1) + 1] = s[k - 1]
    BY <1>2, <1>3, <2>1
  <2>. QED BY <2>1, <2>2
<1>5. \A k \in Pos(s) : k + 1 \in Pos(r) /\ r[k + 1] = s[k] /\ s[k] # m
  BY <1>1, <1>2, <1>3
<1>6. Distinct(r)
  <2>. SUFFICES ASSUME NEW k \in Pos(r), NEW l \in Pos(r), r[k] = r[l] PROVE k = l
    BY DEF Distinct
  <2>1. k \in Nat /\ l \in Nat
    BY <1>3
  <2>2. CASE k = 1
    BY <1>2, <1>4, <1>5, <2>2
  <2>3. CASE l = 1
    BY <1>2, <1>4, <1>5, <2>3
  <2>4. CASE k # 1 /\ l # 1
    <3>1. k - 1 \in Pos(s) /\ l - 1 \in Pos(s) /\ s[k - 1] = s[l - 1]
      BY <1>4, <2>4
    <3>2. k - 1 = l - 1
      BY <3>1 DEF Distinct
    <3>. QED BY <2>1, <3>2
  <2>. QED BY <2>2, <2>3, <2>4
<1>7. Modules!ToSet(r) = {r[k] : k \in Pos(r)} /\ 1 \in Pos(r)
  <2>1. Modules!ToSet(r) = {r[k] : k \in Pos(r)}
    BY MembersAt
  <2>2. 1 \in Pos(r)
    BY <1>2, <1>3
  <2>. QED BY <2>1, <2>2
<1>8. Modules!ToSet(r) \subseteq Modules!ToSet(s) \union {m}
  <2>. SUFFICES ASSUME NEW k \in Pos(r) PROVE r[k] \in Modules!ToSet(s) \union {m}
    BY <1>7
  <2>. QED BY <1>1, <1>2, <1>4
<1>9. Modules!ToSet(s) \union {m} \subseteq Modules!ToSet(r)
  <2>1. m \in Modules!ToSet(r)
    BY <1>2, <1>7
  <2>2. ASSUME NEW k \in Pos(s) PROVE s[k] \in Modules!ToSet(r)
    BY <1>5, <1>7
  <2>. QED BY <1>1, <2>1, <2>2
<1>. QED BY <1>6, <1>8, <1>9

-----------------------------------------------------------------------------
(***************************************************************************)
(* What the records in the pipe will add to module_change.                 *)
(***************************************************************************)
\* d is the sum of the changes of the records of s; f says how it grows.
Adds(s, d) ==
  \E f \in [0 .. Len(s) -> Int] :
    f[0] = 0 /\ f[Len(s)] = d /\ \A k \in 1 .. Len(s) : f[k] = f[k - 1] + Modules!Change(s[k])

\* A record changes the count by one or not at all.
LEMMA ChangeIsSmall == \A kind : Modules!Change(kind) \in {-1, 0, 1}
BY DEF Modules!Change

\* An empty pipe adds nothing.
LEMMA AddsNone == Adds(<<>>, 0)
<1>1. PICK f : f = [k \in 0 .. 0 |-> 0]
  OBVIOUS
<1>2. f \in [0 .. Len(<<>>) -> Int] /\ f[0] = 0 /\ 1 .. Len(<<>>) = {} /\ Len(<<>>) = 0
  BY <1>1
<1>. QED BY <1>2 DEF Adds

\* A record that is written adds its change.
LEMMA AddsAppend ==
  ASSUME NEW s \in Seq(Modules!Kind), NEW d \in Int, Adds(s, d), NEW kind \in Modules!Kind
  PROVE  Adds(Append(s, kind), d + Modules!Change(kind))
<1>1. PICK f \in [0 .. Len(s) -> Int] :
        f[0] = 0 /\ f[Len(s)] = d /\ \A k \in 1 .. Len(s) : f[k] = f[k - 1] + Modules!Change(s[k])
  BY DEF Adds
<1>2. PICK n : n = Len(s)
  OBVIOUS
<1>3. PICK t : t = Append(s, kind)
  OBVIOUS
<1>4. PICK e : e = d + Modules!Change(kind)
  OBVIOUS
<1>5. n \in Nat /\ Len(t) = n + 1 /\ t[n + 1] = kind /\ \A k \in 1 .. n : t[k] = s[k]
  BY <1>2, <1>3
<1>6. PICK g : g = [k \in 0 .. (n + 1) |-> IF k = n + 1 THEN e ELSE f[k]]
  OBVIOUS
<1>7. e \in Int
  BY <1>4, ChangeIsSmall
<1>8. g \in [0 .. Len(t) -> Int]
  <2>1. ASSUME NEW k \in 0 .. (n + 1) PROVE (IF k = n + 1 THEN e ELSE f[k]) \in Int
    <3>1. k = n + 1 \/ k \in 0 .. n
      BY <1>5
    <3>. QED BY <1>1, <1>2, <1>7, <3>1
  <2>. QED BY <1>5, <1>6, <2>1
<1>9. g[0] = 0 /\ g[Len(t)] = e
  BY <1>1, <1>2, <1>5, <1>6
<1>10. ASSUME NEW k \in 1 .. (n + 1) PROVE g[k] = g[k - 1] + Modules!Change(t[k])
  <2>1. k \in 0 .. (n + 1) /\ k - 1 \in 0 .. (n + 1) /\ k - 1 # n + 1 /\ g[k - 1] = f[k - 1]
    BY <1>5, <1>6
  <2>2. CASE k = n + 1
    <3>1. g[k] = e /\ k - 1 = n /\ t[k] = kind
      BY <1>5, <1>6, <2>1, <2>2
    <3>. QED BY <1>1, <1>2, <1>4, <2>1, <3>1
  <2>3. CASE k # n + 1
    <3>1. k \in 1 .. n /\ g[k] = f[k] /\ t[k] = s[k]
      BY <1>5, <1>6, <2>1, <2>3
    <3>. QED BY <1>1, <1>2, <2>1, <3>1
  <2>. QED BY <2>2, <2>3
<1>11. Adds(t, e)
  BY <1>5, <1>8, <1>9, <1>10 DEF Adds
<1>. QED BY <1>3, <1>4, <1>11

\* The record that is read takes its change along.
LEMMA AddsTail ==
  ASSUME NEW s \in Seq(Modules!Kind), s # <<>>, NEW d \in Int, Adds(s, d)
  PROVE  Adds(Tail(s), d - Modules!Change(Head(s)))
<1>1. PICK f \in [0 .. Len(s) -> Int] :
        f[0] = 0 /\ f[Len(s)] = d /\ \A k \in 1 .. Len(s) : f[k] = f[k - 1] + Modules!Change(s[k])
  BY DEF Adds
<1>2. PICK n : n = Len(s)
  OBVIOUS
<1>3. PICK t : t = Tail(s)
  OBVIOUS
<1>4. PICK c : c = Modules!Change(Head(s))
  OBVIOUS
<1>5. n \in Nat \ {0} /\ Len(t) = n - 1 /\ Head(s) = s[1] /\ \A k \in 1 .. (n - 1) : t[k] = s[k + 1]
  BY <1>2, <1>3
<1>6. c \in Int
  BY <1>4, ChangeIsSmall
<1>7. f[1] = c
  <2>1. 1 \in 1 .. n /\ 1 - 1 = 0
    BY <1>5
  <2>2. f[1] = f[1 - 1] + Modules!Change(s[1])
    BY <1>1, <1>2, <2>1
  <2>. QED BY <1>1, <1>4, <1>5, <1>6, <2>1, <2>2
<1>8. PICK g : g = [k \in 0 .. (n - 1) |-> f[k + 1] - c]
  OBVIOUS
<1>9. \A k \in 0 .. n : f[k] \in Int
  BY <1>1, <1>2
<1>10. g \in [0 .. Len(t) -> Int]
  <2>1. \A k \in 0 .. (n - 1) : k + 1 \in 0 .. n
    BY <1>5
  <2>. QED BY <1>5, <1>6, <1>8, <1>9, <2>1
<1>11. g[0] = 0 /\ g[Len(t)] = d - c
  <2>1. 0 \in 0 .. (n - 1) /\ n - 1 \in 0 .. (n - 1) /\ 0 + 1 = 1 /\ (n - 1) + 1 = n
    BY <1>5
  <2>2. g[0] = f[0 + 1] - c /\ g[n - 1] = f[(n - 1) + 1] - c
    BY <1>8, <2>1
  <2>. QED BY <1>1, <1>2, <1>5, <1>6, <1>7, <2>1, <2>2
<1>12. ASSUME NEW k \in 1 .. (n - 1) PROVE g[k] = g[k - 1] + Modules!Change(t[k])
  <2>1. k \in 0 .. (n - 1) /\ k - 1 \in 0 .. (n - 1) /\ k + 1 \in 1 .. n /\ (k - 1) + 1 = k /\ (k + 1) - 1 = k
        /\ k \in 0 .. n /\ k + 1 \in 0 .. n
    BY <1>5
  <2>2. g[k] = f[k + 1] - c /\ g[k - 1] = f[k] - c
    BY <1>8, <2>1
  <2>3. f[k + 1] = f[k] + Modules!Change(t[k])
    BY <1>1, <1>2, <1>5, <2>1
  <2>4. Modules!Change(t[k]) \in Int /\ f[k] \in Int
    BY <1>9, <2>1, ChangeIsSmall
  <2>. QED BY <1>6, <2>2, <2>3, <2>4
<1>13. Adds(t, d - c)
  BY <1>5, <1>10, <1>11, <1>12 DEF Adds
<1>. QED BY <1>3, <1>4, <1>13

\* Records that change nothing add nothing.
LEMMA AddsZero ==
  ASSUME NEW s \in Seq(Modules!Kind), NEW d, Adds(s, d), \A k \in 1 .. Len(s) : Modules!Change(s[k]) = 0
  PROVE  d = 0
<1>1. PICK f \in [0 .. Len(s) -> Int] :
        f[0] = 0 /\ f[Len(s)] = d /\ \A k \in 1 .. Len(s) : f[k] = f[k - 1] + Modules!Change(s[k])
  BY DEF Adds
<1>2. PICK T : T = {k \in 0 .. Len(s) : f[k] # 0}
  OBVIOUS
<1>3. ASSUME T # {} PROVE FALSE
  <2>1. PICK x \in T : \A y \in T : x <= y
    <3>1. T \subseteq Nat
      BY <1>2
    <3>. QED BY <1>3, <3>1, LeastElement
  <2>2. x \in 1 .. Len(s) /\ x - 1 \in 0 .. Len(s) /\ ~ (x <= x - 1)
    BY <1>1, <1>2, <2>1
  <2>3. f[x - 1] = 0
    BY <1>2, <2>1, <2>2
  <2>4. f[x] = 0
    BY <1>1, <2>2, <2>3
  <2>. QED BY <1>2, <2>1, <2>4
<1>4. Len(s) \in 0 .. Len(s)
  OBVIOUS
<1>. QED BY <1>1, <1>2, <1>3, <1>4

\* And they do add up to nothing.
LEMMA AddsOfZeros ==
  ASSUME NEW s \in Seq(Modules!Kind), \A k \in 1 .. Len(s) : Modules!Change(s[k]) = 0
  PROVE  Adds(s, 0)
<1>1. PICK n : n = Len(s)
  OBVIOUS
<1>2. n \in Nat
  BY <1>1
<1>3. PICK f : f = [k \in 0 .. n |-> 0]
  OBVIOUS
<1>4. f \in [0 .. n -> Int] /\ f[0] = 0 /\ f[n] = 0 /\ \A k \in 1 .. n : f[k] = 0 /\ f[k - 1] = 0
  BY <1>2, <1>3
<1>. QED BY <1>1, <1>4 DEF Adds

-----------------------------------------------------------------------------
(***************************************************************************)
(* What the father says of the guest's modules.                            *)
(***************************************************************************)
\* No list has a module twice.
Lists == Distinct(modules) /\ Distinct(modulelist)

\* A call under way has one module; one that loads it has not done so yet.
UnderWay ==
  op = Modules!NoOp \/
    \E kind \in {"init", "finit", "delete"}, m \in Mod :
      /\ op.kind = kind /\ op.mod = {m}
      /\ kind # "delete" => m \notin Modules!Running

\* What the call under way has been, or will be, counted for.
Due == IF op.recorded THEN Modules!Change(op.kind) ELSE 0

\* module_change counts records of this round, the last one twice at its end.
Twice == IF modpc \in {"detect", "sleep"} THEN 1 ELSE 0
Within ==
  /\ Len(modpipe) <= modcalls
  /\ modpc # "done" => modround < Rounds
  /\ -(modcalls - Len(modpipe)) - Twice <= module_change
  /\ module_change <= modcalls - Len(modpipe) + Twice

\* A list that has just been read needs no correction.
Since == IF modpc = "sleep" /\ ~compared.kept THEN 0 ELSE module_change

\* As long as the count is right, the list that is kept, the records counted,
\* those in the pipe, the call under way and the modules hidden since the list
\* was read (`before' were hidden when it was) give the length of the list now.
Account ==
  ~blamed =>
    \E before \in SUBSET hidden, d \in Int :
      /\ before \cap Modules!ToSet(modulelist) = {}
      /\ Adds(modpipe, d)
      /\ Len(modules) + Cardinality(hidden \ before)
           = Len(modulelist) - Since - d + Due

\* If none has been removed, what the list has lost has been hidden.
Kept == ~deleted => Modules!ToSet(modulelist) \subseteq Modules!ToSet(modules) \union hidden

\* The invariant of the module lists.
MInv ==
  /\ Modules!TypeOK /\ Lists /\ UnderWay /\ Within /\ Account /\ Kept
  /\ Modules!NoFalseAlarm /\ Modules!HiddenIsReported

\* There are finitely many modules, and some calls and rounds.
LEMMA ModulesBounded ==
  /\ IsFiniteSet(Mod) /\ MaxModCalls \in Nat /\ Rounds \in Nat \ {0}
  /\ \A S : S \subseteq Mod => IsFiniteSet(S) /\ Cardinality(S) \in Nat
<1>1. IsFiniteSet(Mod) /\ MaxModCalls \in Nat /\ Rounds \in Nat \ {0}
  BY ModulesAssumed DEF Modules!ModuleAssumption, Modules!IsFiniteSet, IsFiniteSet
<1>2. ASSUME NEW S, S \subseteq Mod PROVE IsFiniteSet(S) /\ Cardinality(S) \in Nat
  <2>1. IsFiniteSet(S)
    BY <1>1, <1>2, FS_Subset
  <2>. QED BY <2>1, FS_CardinalityType
<1>. QED BY <1>1, <1>2

\* No call under way changes nothing.
LEMMA NoChange ==
  Modules!NoOp.kind = "other" /\ ~Modules!NoOp.recorded /\ Modules!Change("other") = 0
BY DEF Modules!NoOp, Modules!Change

\* The call under way changes the count by one at most; not at all if the father
\* does not count it.
LEMMA DueIsSmall ==
  /\ Due \in {-1, 0, 1}
  /\ ~Modules!Counts => Due = 0
<1>1. Due \in {-1, 0, 1}
  BY ChangeIsSmall DEF Due
<1>2. ~Modules!Counts => Due = 0
  <2>1. Modules!Change("init") = 0
    BY DEF Modules!Change
  <2>. QED BY <2>1 DEF Due, Modules!Counts
<1>. QED BY <1>1, <1>2

\* The list has been read before any call is made.
LEMMA InitMInv == Modules!Init => MInv
<1>. SUFFICES ASSUME Modules!Init PROVE MInv
  OBVIOUS
<1>1. /\ hidden = {} /\ traps = "unset" /\ op = Modules!NoOp /\ modcalls = 0 /\ modpipe = <<>> /\ modl = {}
      /\ modgot \in Modules!Kind /\ module_change = 0 /\ modulelist = modules
      /\ reported = {} /\ modpc = "drain" /\ modround = 0 /\ deleted = FALSE /\ blamed = FALSE
      /\ compared = [hidden |-> {}, deleted |-> FALSE, blamed |-> FALSE, kept |-> FALSE]
  BY DEF Modules!Init
<1>2. modules \in Seq(Mod) /\ Distinct(modules)
  <2>1. CASE modules \in Modules!SetToSeqs(Mod)
    <3>1. PICK n : n = Cardinality(Mod)
      OBVIOUS
    <3>2. n \in Nat
      BY <3>1, ModulesBounded
    <3>3. modules \in [1 .. n -> Mod] /\ \A i, j \in 1 .. n : i # j => modules[i] # modules[j]
      BY <2>1, <3>1 DEF Modules!SetToSeqs, Modules!Cardinality, Cardinality
    <3>4. modules \in Seq(Mod) /\ Len(modules) = n
      BY ONLY <3>2, <3>3
    <3>. QED BY <3>3, <3>4 DEF Distinct, Pos
  <2>2. CASE modules = <<>>
    BY <2>2 DEF Distinct, Pos
  <2>3. CASE modules \in {<<m>> : m \in Mod}
    <3>1. PICK m \in Mod : modules = <<m>>
      BY <2>3
    <3>2. modules \in Seq(Mod) /\ Len(modules) = 1
      BY <3>1
    <3>. QED BY <3>2 DEF Distinct, Pos
  <2>. QED BY <2>1, <2>2, <2>3 DEF Modules!Init
<1>3. Modules!TypeOK
  <2>1. op \in [kind : Modules!Kind, mod : {{}} \union {{m} : m \in Mod}, recorded : BOOLEAN]
    BY <1>1 DEF Modules!NoOp, Modules!Kind
  <2>2. modcalls \in 0 .. MaxModCalls /\ module_change \in -MaxModCalls - 1 .. MaxModCalls + 1
        /\ modround \in 0 .. Rounds
    BY <1>1, ModulesBounded
  <2>3. compared \in [hidden : SUBSET Mod, deleted : BOOLEAN, blamed : BOOLEAN, kept : BOOLEAN]
    BY <1>1
  <2>4. modules \in Seq(Mod) /\ modulelist \in Seq(Mod) /\ modpipe \in Seq(Modules!Kind)
    BY <1>1, <1>2
  <2>5. /\ hidden \subseteq Mod /\ hidden \intersect Modules!ToSet(modules) = {} /\ modl \subseteq Mod
        /\ modgot \in Modules!Kind /\ reported \subseteq Mod /\ traps \in {"unset", "set", "removed"}
        /\ modpc \in {"drain", "detect", "sleep", "done"} /\ deleted \in BOOLEAN /\ blamed \in BOOLEAN
    BY <1>1
  <2>. QED BY <2>1, <2>2, <2>3, <2>4, <2>5 DEF Modules!TypeOK
<1>4. Lists /\ UnderWay
  BY <1>1, <1>2 DEF Lists, UnderWay
<1>5. Within
  BY <1>1, ModulesBounded DEF Within, Twice
<1>6. Account
  <2>1. PICK before : before = {}
    OBVIOUS
  <2>2. PICK d : d = 0
    OBVIOUS
  <2>3. before \in SUBSET hidden /\ before \cap Modules!ToSet(modulelist) = {} /\ d \in Int
    BY <2>1, <2>2
  <2>4. Cardinality(hidden \ before) = 0
    BY <1>1, FS_EmptySet
  <2>5. Adds(modpipe, d)
    BY <1>1, <2>2, AddsNone
  <2>6. Len(modules) + Cardinality(hidden \ before) = Len(modulelist) - Since - d + Due
    BY <1>1, <1>2, <2>2, <2>4, NoChange DEF Since, Due
  <2>. QED BY <2>3, <2>5, <2>6 DEF Account
<1>7. Kept /\ Modules!NoFalseAlarm /\ Modules!HiddenIsReported
  BY <1>1 DEF Kept, Modules!NoFalseAlarm, Modules!HiddenIsReported
<1>. QED BY <1>3, <1>4, <1>5, <1>6, <1>7 DEF MInv

\* What the guest does is no report.
LEMMA ReportsStay ==
  MInv /\ UNCHANGED <<reported, compared, modulelist, modpc>> =>
    Modules!NoFalseAlarm' /\ Modules!HiddenIsReported'
BY DEF MInv, Modules!NoFalseAlarm, Modules!HiddenIsReported, Modules!ToSet

\* A record is written when its call is entered, if it is at all.
LEMMA EnterMInv ==
  ASSUME MInv, NEW kind \in Modules!Kind, NEW m \in Mod, NEW rec \in BOOLEAN, Modules!Enter(kind, m, rec)
  PROVE  MInv'
<1>1. /\ op = Modules!NoOp /\ modcalls < MaxModCalls /\ modcalls' = modcalls + 1
      /\ modpipe' = (IF rec THEN Append(modpipe, kind) ELSE modpipe)
      /\ op' = (IF kind = "other" THEN Modules!NoOp ELSE [kind |-> kind, mod |-> {m}, recorded |-> rec])
      /\ (kind \in {"init", "finit"} => m \notin Modules!Running)
      /\ modules' = modules /\ hidden' = hidden /\ traps' = traps /\ modl' = modl /\ modgot' = modgot
      /\ module_change' = module_change /\ modulelist' = modulelist /\ reported' = reported
      /\ modpc' = modpc /\ modround' = modround
      /\ deleted' = deleted /\ blamed' = blamed /\ compared' = compared
  BY DEF Modules!Enter, Modules!father, Modules!history
<1>2. modpipe \in Seq(Modules!Kind) /\ modcalls \in 0 .. MaxModCalls /\ module_change \in Int
  BY ModulesBounded DEF MInv, Modules!TypeOK
<1>3. /\ modpipe' \in Seq(Modules!Kind) /\ Len(modpipe) \in Nat /\ Len(modpipe') \in Nat
      /\ Len(modpipe') <= Len(modpipe) + 1 /\ Len(modpipe) <= Len(modpipe')
  <2>1. CASE rec
    BY <1>1, <1>2, <2>1
  <2>2. CASE ~rec
    BY <1>1, <1>2, <2>2
  <2>. QED BY <2>1, <2>2
<1>4. op' \in [kind : Modules!Kind, mod : {{}} \union {{x} : x \in Mod}, recorded : BOOLEAN] /\ op'.kind = kind
      /\ (kind # "other" => op'.recorded = rec)
  BY <1>1 DEF Modules!NoOp, Modules!Kind
<1>5. Modules!TypeOK'
  <2>1. modcalls' \in 0 .. MaxModCalls
    BY <1>1, <1>2, ModulesBounded
  <2>. QED BY <1>1, <1>3, <1>4, <2>1 DEF MInv, Modules!TypeOK, Modules!ToSet
<1>6. Lists' /\ Kept'
  BY <1>1 DEF MInv, Lists, Kept, Modules!ToSet
<1>7. UnderWay'
  <2>1. Modules!Running' = Modules!Running
    BY <1>1 DEF Modules!Running, Modules!ToSet
  <2>2. CASE kind = "other"
    BY <1>1, <2>2 DEF UnderWay
  <2>3. CASE kind # "other"
    <3>1. kind \in {"init", "finit", "delete"}
      BY <2>3 DEF Modules!Kind
    <3>2. op'.kind = kind /\ op'.mod = {m} /\ (kind # "delete" => m \notin Modules!Running')
      BY <1>1, <2>1, <2>3, <3>1
    <3>. QED BY <3>1, <3>2 DEF UnderWay
  <2>. QED BY <2>2, <2>3
<1>8. Within'
  <2>1. Twice' = Twice /\ Twice \in Int
    BY <1>1 DEF Twice
  <2>2. /\ Len(modpipe) <= modcalls
        /\ -(modcalls - Len(modpipe)) - Twice <= module_change
        /\ module_change <= modcalls - Len(modpipe) + Twice
        /\ modpc' # "done" => modround' < Rounds
    BY <1>1 DEF MInv, Within
  <2>3. modcalls \in Int /\ modcalls' = modcalls + 1 /\ module_change' = module_change
    BY <1>1, <1>2
  <2>4. /\ Len(modpipe') <= modcalls'
        /\ -(modcalls' - Len(modpipe')) - Twice' <= module_change'
        /\ module_change' <= modcalls' - Len(modpipe') + Twice'
    BY ONLY <1>2, <1>3, <2>1, <2>2, <2>3
  <2>. QED BY <2>2, <2>4 DEF Within
<1>9. Account'
  <2>. SUFFICES ASSUME ~blamed' PROVE Account'
    BY DEF Account
  <2>1. PICK before \in SUBSET hidden, d \in Int :
          /\ before \cap Modules!ToSet(modulelist) = {}
          /\ Adds(modpipe, d)
          /\ Len(modules) + Cardinality(hidden \ before)
               = Len(modulelist) - Since - d + Due
    BY <1>1 DEF MInv, Account
  <2>2. PICK e : e = IF rec THEN d + Modules!Change(kind) ELSE d
    OBVIOUS
  <2>3. e \in Int /\ Modules!Change(kind) \in Int
    BY <2>2, ChangeIsSmall
  <2>4. Adds(modpipe', e)
    <3>1. CASE rec
      BY <1>1, <1>2, <2>1, <2>2, <3>1, AddsAppend
    <3>2. CASE ~rec
      BY <1>1, <2>1, <2>2, <3>2
    <3>. QED BY <3>1, <3>2
  <2>5. Due = 0 /\ Due' = IF rec THEN Modules!Change(kind) ELSE 0
    <3>1. CASE kind = "other"
      BY <1>1, <3>1, NoChange DEF Due
    <3>2. CASE kind # "other"
      BY <1>1, <1>4, <3>2, NoChange DEF Due
    <3>. QED BY <3>1, <3>2
  <2>6. Since' = Since /\ Since \in Int
    BY <1>1, <1>2 DEF Since
  <2>7. Len(modules) \in Int /\ Len(modulelist) \in Int /\ Cardinality(hidden \ before) \in Int
    BY ModulesBounded DEF MInv, Modules!TypeOK
  <2>8. Len(modules') + Cardinality(hidden' \ before)
          = Len(modulelist') - Since' - e + Due'
    BY <1>1, <2>1, <2>2, <2>3, <2>5, <2>6, <2>7
  <2>9. before \in SUBSET hidden' /\ before \cap Modules!ToSet(modulelist)' = {}
    BY <1>1, <2>1 DEF Modules!ToSet
  <2>. QED BY <2>3, <2>4, <2>8, <2>9 DEF Account
<1>10. Modules!NoFalseAlarm' /\ Modules!HiddenIsReported'
  BY <1>1, ReportsStay
<1>. QED BY <1>5, <1>6, <1>7, <1>8, <1>9, <1>10 DEF MInv

\* A call that succeeds has the effect that its record was counted for.
LEMMA SucceedMInv == MInv /\ Modules!Succeed => MInv'
<1>. SUFFICES ASSUME MInv, Modules!Succeed PROVE MInv'
  OBVIOUS
<1>1. PICK kind \in {"init", "finit", "delete"}, m \in Mod :
        op.kind = kind /\ op.mod = {m} /\ (kind # "delete" => m \notin Modules!Running)
  BY DEF Modules!Succeed, MInv, UnderWay
<1>2. op.kind = kind /\ op.mod = {m}
  BY <1>1
<1>3. /\ IF kind = "delete" THEN modules' = Modules!RemoveFirst(modules, m) /\ deleted' = TRUE
         ELSE modules' = <<m>> \o modules /\ deleted' = deleted
      /\ blamed' = (blamed \/ ~(Modules!Counts <=> modules' # modules))
      /\ op' = Modules!NoOp
      /\ traps' = traps /\ hidden' = hidden /\ modcalls' = modcalls /\ modpipe' = modpipe /\ modl' = modl /\ modgot' = modgot
      /\ module_change' = module_change /\ modulelist' = modulelist /\ reported' = reported
      /\ modpc' = modpc /\ modround' = modround /\ compared' = compared
  <2>1. PICK x \in op.mod :
          IF op.kind = "delete" THEN modules' = Modules!RemoveFirst(modules, x) /\ deleted' = TRUE
          ELSE modules' = <<x>> \o modules /\ deleted' = deleted
    BY DEF Modules!Succeed
  <2>2. x = m
    BY <1>2
  <2>. QED BY <1>2, <2>1, <2>2 DEF Modules!Succeed, Modules!father
<1>4. PICK T : T = Modules!ToSet(modules)
  OBVIOUS
<1>5. modules \in Seq(Mod) /\ Distinct(modules) /\ hidden \subseteq Mod /\ hidden \cap T = {}
      /\ blamed \in BOOLEAN /\ deleted \in BOOLEAN
  BY <1>4 DEF MInv, Modules!TypeOK, Lists
<1>6. /\ modules' \in Seq(Mod) /\ Distinct(modules') /\ hidden \cap Modules!ToSet(modules') = {}
      /\ kind # "delete" => T \subseteq Modules!ToSet(modules')
      /\ ~blamed' => Len(modules') = Len(modules) - Due
  <2>1. CASE kind = "delete"
    <3>1. PICK r : r = modules'
      OBVIOUS
    <3>2. r = Modules!RemoveFirst(modules, m)
      BY <1>3, <2>1, <3>1
    <3>3. /\ r \in Seq(Mod) /\ Distinct(r) /\ Modules!ToSet(r) = T \ {m}
          /\ m \in T => Len(r) = Len(modules) - 1
          /\ m \notin T => r = modules
      BY <1>4, <1>5, <3>2, TakenOff
    <3>4. Modules!Change("delete") = 1 /\ Len(modules) \in Nat /\ Modules!Counts \in BOOLEAN
      BY <1>5 DEF Modules!Change, Modules!Counts
    <3>5. CASE Modules!Counts
      <4>1. Due = 1
        BY <1>2, <2>1, <3>4, <3>5 DEF Due, Modules!Counts
      <4>. QED BY <1>3, <1>5, <2>1, <3>1, <3>3, <3>4, <3>5, <4>1
    <3>6. CASE ~Modules!Counts
      <4>1. Due = 0
        BY <3>6, DueIsSmall
      <4>2. ~blamed' => r = modules
        BY <1>3, <3>1, <3>6
      <4>. QED BY <1>3, <1>5, <2>1, <3>1, <3>3, <3>4, <4>1, <4>2
    <3>. QED BY <3>5, <3>6
  <2>2. CASE kind # "delete"
    <3>1. PICK r : r = modules'
      OBVIOUS
    <3>2. r = <<m>> \o modules
      BY <1>3, <2>2, <3>1
    <3>3. m \notin T /\ m \notin hidden
      BY <1>1, <1>4, <2>2 DEF Modules!Running
    <3>4. r \in Seq(Mod) /\ Len(r) = Len(modules) + 1 /\ r[1] = m
          /\ \A k \in 1 .. Len(modules) : r[k + 1] = modules[k]
      BY <1>5, <3>2, PutFirst
    <3>5. Distinct(r) /\ Modules!ToSet(r) = T \union {m}
      BY <1>4, <1>5, <3>3, <3>4, Loaded
    <3>7. Len(modules) \in Nat
      BY <1>5
    <3>6. ~blamed' => Due = -1
      <4>1. r # modules
        BY <3>4, <3>7
      <4>2. ~blamed' => Modules!Counts
        BY <1>3, <3>1, <4>1
      <4>3. Modules!Counts => op.recorded /\ kind = "finit"
        BY <1>2, <2>2 DEF Modules!Counts
      <4>4. Modules!Change("finit") = -1
        BY DEF Modules!Change
      <4>. QED BY <1>2, <4>2, <4>3, <4>4 DEF Due
    <3>. QED BY <1>5, <2>2, <3>1, <3>3, <3>4, <3>5, <3>6, <3>7
  <2>. QED BY <2>1, <2>2
<1>7. Modules!TypeOK'
  <2>1. op' \in [kind : Modules!Kind, mod : {{}} \union {{x} : x \in Mod}, recorded : BOOLEAN]
    BY <1>3 DEF Modules!NoOp, Modules!Kind
  <2>2. hidden' \cap Modules!ToSet(modules)' = {}
    BY <1>3, <1>6 DEF Modules!ToSet
  <2>3. deleted' \in BOOLEAN /\ blamed' \in BOOLEAN
    BY <1>3, <1>5
  <2>. QED BY <1>3, <1>6, <2>1, <2>2, <2>3 DEF MInv, Modules!TypeOK
<1>8. Lists' /\ UnderWay' /\ Within'
  BY <1>3, <1>6 DEF MInv, Lists, UnderWay, Within, Twice
<1>9. Kept'
  <2>. SUFFICES ASSUME ~deleted' PROVE Modules!ToSet(modulelist') \subseteq Modules!ToSet(modules') \union hidden
    BY <1>3 DEF Kept, Modules!ToSet
  <2>1. kind # "delete" /\ ~deleted
    BY <1>3
  <2>. QED BY <1>3, <1>4, <1>6, <2>1 DEF MInv, Kept
<1>10. Account'
  <2>. SUFFICES ASSUME ~blamed' PROVE Account'
    BY DEF Account
  <2>1. PICK before \in SUBSET hidden, d \in Int :
          /\ before \cap Modules!ToSet(modulelist) = {}
          /\ Adds(modpipe, d)
          /\ Len(modules) + Cardinality(hidden \ before)
               = Len(modulelist) - Since - d + Due
    BY <1>3 DEF MInv, Account
  <2>2. Since' = Since /\ Since \in Int
    BY <1>3, ModulesBounded DEF Since, MInv, Modules!TypeOK
  <2>3. Len(modules) \in Int /\ Len(modulelist) \in Int /\ Cardinality(hidden \ before) \in Int
        /\ Due \in Int
    BY ModulesBounded, DueIsSmall DEF MInv, Modules!TypeOK
  <2>4. Due' = 0
    BY <1>3, NoChange DEF Due
  <2>5. Len(modules') + Cardinality(hidden' \ before)
          = Len(modulelist') - Since' - d + Due'
    <3>1. Len(modules') = Len(modules) - Due
      BY <1>6
    <3>2. hidden' = hidden /\ modulelist' = modulelist
      BY <1>3
    <3>. QED BY ONLY <2>1, <2>2, <2>3, <2>4, <3>1, <3>2
  <2>6. before \in SUBSET hidden' /\ before \cap Modules!ToSet(modulelist)' = {} /\ Adds(modpipe', d)
    BY <1>3, <2>1 DEF Modules!ToSet
  <2>. QED BY <2>5, <2>6 DEF Account
<1>11. Modules!NoFalseAlarm' /\ Modules!HiddenIsReported'
  BY <1>3, ReportsStay
<1>. QED BY <1>7, <1>8, <1>9, <1>10, <1>11 DEF MInv

\* A call that fails is blamed if it was counted.
LEMMA FailMInv == MInv /\ Modules!Fail => MInv'
<1>. SUFFICES ASSUME MInv, Modules!Fail PROVE MInv'
  OBVIOUS
<1>1. /\ op' = Modules!NoOp /\ blamed' = (blamed \/ Modules!Counts) /\ traps' = traps
      /\ modules' = modules /\ hidden' = hidden /\ modcalls' = modcalls /\ modpipe' = modpipe
      /\ modl' = modl /\ modgot' = modgot
      /\ module_change' = module_change /\ modulelist' = modulelist /\ reported' = reported
      /\ modpc' = modpc /\ modround' = modround /\ deleted' = deleted /\ compared' = compared
  BY DEF Modules!Fail, Modules!father
<1>2. Modules!TypeOK'
  <2>1. op' \in [kind : Modules!Kind, mod : {{}} \union {{x} : x \in Mod}, recorded : BOOLEAN]
    BY <1>1 DEF Modules!NoOp, Modules!Kind
  <2>2. blamed' \in BOOLEAN
    BY <1>1 DEF MInv, Modules!TypeOK, Modules!Counts
  <2>. QED BY <1>1, <2>1, <2>2 DEF MInv, Modules!TypeOK, Modules!ToSet
<1>3. Lists' /\ UnderWay' /\ Within' /\ Kept'
  BY <1>1 DEF MInv, Lists, UnderWay, Within, Twice, Kept, Modules!ToSet
<1>4. Account'
  <2>. SUFFICES ASSUME ~blamed' PROVE Account'
    BY DEF Account
  <2>1. ~blamed /\ Due = 0
    BY <1>1, DueIsSmall
  <2>2. Due' = 0
    BY <1>1, NoChange DEF Due
  <2>. QED BY <1>1, <2>1, <2>2 DEF MInv, Account, Since, Modules!ToSet
<1>5. Modules!NoFalseAlarm' /\ Modules!HiddenIsReported'
  BY <1>1, ReportsStay
<1>. QED BY <1>2, <1>3, <1>4, <1>5 DEF MInv

\* A module that is hidden is missing from the list, and one more is hidden.
LEMMA HideMInv ==
  ASSUME MInv, NEW m \in Mod, Modules!Hide(m)
  PROVE  MInv'
<1>1. PICK r : r = Modules!RemoveFirst(modules, m)
  OBVIOUS
<1>2. PICK T : T = Modules!ToSet(modules)
  OBVIOUS
<1>3. /\ m \in T /\ hidden' = hidden \union {m} /\ modules' = r
      /\ op' = op /\ traps' = traps /\ modcalls' = modcalls /\ modpipe' = modpipe /\ modl' = modl /\ modgot' = modgot
      /\ module_change' = module_change /\ modulelist' = modulelist /\ reported' = reported
      /\ modpc' = modpc /\ modround' = modround
      /\ deleted' = deleted /\ blamed' = blamed /\ compared' = compared
  BY <1>1, <1>2 DEF Modules!Hide, Modules!father, Modules!history
<1>4. modules \in Seq(Mod) /\ Distinct(modules) /\ hidden \subseteq Mod /\ hidden \cap T = {}
  BY <1>2 DEF MInv, Modules!TypeOK, Lists
<1>5. r \in Seq(Mod) /\ Distinct(r) /\ Modules!ToSet(r) = T \ {m} /\ Len(r) = Len(modules) - 1
  BY <1>1, <1>2, <1>3, <1>4, TakenOff
<1>6. Modules!ToSet(modules)' = T \ {m}
  BY <1>3, <1>5 DEF Modules!ToSet
<1>7. Modules!TypeOK'
  BY <1>3, <1>4, <1>5, <1>6 DEF MInv, Modules!TypeOK
<1>8. Modules!Running' = Modules!Running
  BY <1>2, <1>3, <1>6 DEF Modules!Running
<1>9. Lists' /\ UnderWay' /\ Within'
  BY <1>3, <1>5, <1>8 DEF MInv, Lists, UnderWay, Within, Twice
<1>10. Kept'
  <2>1. Modules!ToSet(modulelist)' = Modules!ToSet(modulelist)
    BY <1>3 DEF Modules!ToSet
  <2>. QED BY <1>2, <1>3, <1>6, <2>1 DEF MInv, Kept
<1>11. Account'
  <2>. SUFFICES ASSUME ~blamed' PROVE Account'
    BY DEF Account
  <2>1. PICK before \in SUBSET hidden, d \in Int :
          /\ before \cap Modules!ToSet(modulelist) = {}
          /\ Adds(modpipe, d)
          /\ Len(modules) + Cardinality(hidden \ before)
               = Len(modulelist) - Since - d + Due
    BY <1>3 DEF MInv, Account
  <2>2. hidden' \ before = (hidden \ before) \union {m} /\ m \notin hidden \ before /\ hidden \ before \subseteq Mod
    BY <1>3, <1>4
  <2>3. Cardinality(hidden' \ before) = Cardinality(hidden \ before) + 1 /\ Cardinality(hidden \ before) \in Int
    <3>1. PICK H : H = hidden \ before
      OBVIOUS
    <3>2. IsFiniteSet(H) /\ Cardinality(H) \in Nat
      BY <2>2, <3>1, ModulesBounded
    <3>3. Cardinality(H \union {m}) = Cardinality(H) + 1
      BY <2>2, <3>1, <3>2, FS_AddElement
    <3>4. hidden' \ before = H \union {m}
      BY <2>2, <3>1
    <3>5. Cardinality(hidden' \ before) = Cardinality(H) + 1
      BY <3>3, <3>4
    <3>. QED BY <3>1, <3>2, <3>5
  <2>4. Since' = Since /\ Since \in Int
    BY <1>3, ModulesBounded DEF Since, MInv, Modules!TypeOK
  <2>5. Len(modules) \in Int /\ Len(modulelist) \in Int /\ Due \in Int
    BY DueIsSmall DEF MInv, Modules!TypeOK
  <2>6. Len(modules') + Cardinality(hidden' \ before)
          = Len(modulelist') - Since' - d + Due'
    BY <1>3, <1>5, <2>1, <2>3, <2>4, <2>5 DEF Due
  <2>7. before \in SUBSET hidden' /\ before \cap Modules!ToSet(modulelist)' = {} /\ Adds(modpipe', d)
    BY <1>3, <2>1 DEF Modules!ToSet
  <2>. QED BY <2>6, <2>7 DEF Account
<1>12. Modules!NoFalseAlarm' /\ Modules!HiddenIsReported'
  BY <1>3, ReportsStay
<1>. QED BY <1>7, <1>9, <1>10, <1>11, <1>12 DEF MInv

\* The record of an unlink counts nothing.
LEMMA NameMInv ==
  ASSUME MInv, NEW m \in Mod, Modules!get_module_name(m)
  PROVE  MInv'
<1>1. /\ modcalls < MaxModCalls /\ modcalls' = modcalls + 1 /\ modl' = {m} /\ modpipe' = Append(modpipe, "other")
      /\ modules' = modules /\ hidden' = hidden /\ op' = op /\ traps' = traps /\ modgot' = modgot
      /\ module_change' = module_change /\ modulelist' = modulelist /\ reported' = reported
      /\ modpc' = modpc /\ modround' = modround
      /\ deleted' = deleted /\ blamed' = blamed /\ compared' = compared
  BY DEF Modules!get_module_name, Modules!father, Modules!history
<1>2. modpipe \in Seq(Modules!Kind) /\ modcalls \in 0 .. MaxModCalls /\ module_change \in Int
  BY ModulesBounded DEF MInv, Modules!TypeOK
<1>3. "other" \in Modules!Kind
  BY DEF Modules!Kind
<1>4. modpipe' \in Seq(Modules!Kind) /\ Len(modpipe') = Len(modpipe) + 1 /\ Len(modpipe) \in Nat
  BY <1>1, <1>2, <1>3
<1>5. Modules!TypeOK'
  <2>1. modcalls' \in 0 .. MaxModCalls
    BY <1>1, <1>2, ModulesBounded
  <2>. QED BY <1>1, <1>4, <2>1 DEF MInv, Modules!TypeOK, Modules!ToSet
<1>6. Lists' /\ Kept' /\ UnderWay'
  BY <1>1 DEF MInv, Lists, Kept, UnderWay, Modules!Running, Modules!ToSet
<1>7. Within'
  <2>1. Twice' = Twice /\ Twice \in Int
    BY <1>1 DEF Twice
  <2>. QED BY <1>1, <1>2, <1>4, <2>1 DEF MInv, Within
<1>8. Account'
  <2>. SUFFICES ASSUME ~blamed' PROVE Account'
    BY DEF Account
  <2>1. PICK before \in SUBSET hidden, d \in Int :
          /\ before \cap Modules!ToSet(modulelist) = {}
          /\ Adds(modpipe, d)
          /\ Len(modules) + Cardinality(hidden \ before)
               = Len(modulelist) - Since - d + Due
    BY <1>1 DEF MInv, Account
  <2>2. Adds(modpipe', d + Modules!Change("other")) /\ d + Modules!Change("other") = d
    BY <1>1, <1>2, <1>3, <2>1, AddsAppend, NoChange
  <2>3. Since' = Since
    BY <1>1 DEF Since
  <2>. QED BY <1>1, <2>1, <2>2, <2>3 DEF Account, Due, Modules!ToSet
<1>9. Modules!NoFalseAlarm' /\ Modules!HiddenIsReported'
  BY <1>1, ReportsStay
<1>. QED BY <1>5, <1>6, <1>7, <1>8, <1>9 DEF MInv

\* A record leaves the pipe for module_change; the one that is counted again is
\* blamed if it counts.
LEMMA ModDrainMInv == MInv /\ Modules!Drain => MInv'
<1>. SUFFICES ASSUME MInv, Modules!Drain PROVE MInv'
  OBVIOUS
<1>1. /\ modpc = "drain" /\ module_change' = module_change + Modules!Change(modgot')
      /\ modules' = modules /\ hidden' = hidden /\ op' = op /\ traps' = traps /\ modcalls' = modcalls /\ modl' = modl
      /\ modulelist' = modulelist /\ reported' = reported /\ modround' = modround
      /\ deleted' = deleted /\ compared' = compared
  BY DEF Modules!Drain, Modules!guest
<1>2. modpipe \in Seq(Modules!Kind) /\ modcalls \in 0 .. MaxModCalls /\ module_change \in Int /\ Len(modpipe) \in Nat
  <2>1. modpipe \in Seq(Modules!Kind) /\ modcalls \in 0 .. MaxModCalls /\ module_change \in Int
    BY ModulesBounded DEF MInv, Modules!TypeOK
  <2>. QED BY <2>1
<1>3. Twice = 0 /\ Since = module_change
  BY <1>1 DEF Twice, Since
<1>4. PICK c : c = Modules!Change(modgot')
  OBVIOUS
<1>5. c \in {-1, 0, 1}
  BY <1>4, ChangeIsSmall
<1>6. reported' = reported /\ Modules!NoFalseAlarm'
  BY <1>1 DEF MInv, Modules!NoFalseAlarm
<1>7. modround < Rounds /\ Len(modpipe) <= modcalls
      /\ -(modcalls - Len(modpipe)) <= module_change /\ module_change <= modcalls - Len(modpipe)
  BY <1>1, <1>3, <1>2 DEF MInv, Within
<1>8. Lists' /\ UnderWay' /\ Kept'
  BY <1>1 DEF MInv, Lists, UnderWay, Modules!Running, Kept, Modules!ToSet
<1>9. CASE modpipe # <<>>
  <2>1. modgot' = Head(modpipe) /\ modpipe' = Tail(modpipe) /\ modpc' = modpc /\ blamed' = blamed
    BY <1>9 DEF Modules!Drain
  <2>2. modpipe' \in Seq(Modules!Kind) /\ Len(modpipe') = Len(modpipe) - 1 /\ modgot' \in Modules!Kind
        /\ Len(modpipe) # 0
    BY <1>2, <1>9, <2>1
  <2>3. Twice' = 0 /\ Since' = module_change'
    BY <1>1, <2>1 DEF Twice, Since
  <2>4. Within'
    <3>1. /\ Len(modpipe') <= modcalls
          /\ -(modcalls - Len(modpipe')) <= module_change' /\ module_change' <= modcalls - Len(modpipe')
      BY SMTT(20), <1>1, <1>2, <1>4, <1>5, <1>7, <2>2
    <3>. QED BY <1>1, <1>2, <1>7, <2>2, <2>3, <3>1 DEF Within
  <2>5. Modules!TypeOK'
    <3>1. module_change' \in -MaxModCalls - 1 .. MaxModCalls + 1
      <4>1. -MaxModCalls - 1 <= module_change' /\ module_change' <= MaxModCalls + 1 /\ module_change' \in Int
        BY SMTT(20), <1>1, <1>2, <1>4, <1>5, <1>7, <2>2, ModulesBounded
      <4>. QED BY <4>1, ModulesBounded
    <3>. QED BY <1>1, <2>1, <2>2, <3>1 DEF MInv, Modules!TypeOK, Modules!ToSet
  <2>6. Account'
    <3>. SUFFICES ASSUME ~blamed' PROVE Account'
      BY DEF Account
    <3>1. PICK before \in SUBSET hidden, d \in Int :
            /\ before \cap Modules!ToSet(modulelist) = {}
            /\ Adds(modpipe, d)
            /\ Len(modules) + Cardinality(hidden \ before)
                 = Len(modulelist) - Since - d + Due
      BY <2>1 DEF MInv, Account
    <3>2. PICK e : e = d - c
      OBVIOUS
    <3>3. e \in Int
      BY <1>5, <3>2
    <3>4. Adds(modpipe', e)
      BY <1>2, <1>4, <1>9, <2>1, <3>1, <3>2, AddsTail
    <3>5. Len(modulelist) \in Int /\ Due \in Int
      BY DueIsSmall DEF MInv, Modules!TypeOK
    <3>6. module_change' = module_change + c
      BY <1>1, <1>4
    <3>7. Len(modulelist) - module_change' - e = Len(modulelist) - module_change - d
      BY <1>2, <1>5, <3>2, <3>5, <3>6
    <3>8. Len(modules') + Cardinality(hidden' \ before)
            = Len(modulelist') - Since' - e + Due'
      BY <1>1, <1>3, <2>3, <3>1, <3>7 DEF Due
    <3>9. before \in SUBSET hidden' /\ before \cap Modules!ToSet(modulelist)' = {}
      BY <1>1, <3>1 DEF Modules!ToSet
    <3>. QED BY <3>3, <3>4, <3>8, <3>9 DEF Account
  <2>7. Modules!HiddenIsReported'
    BY <1>1, <2>1 DEF Modules!HiddenIsReported
  <2>. QED BY <1>6, <1>8, <2>4, <2>5, <2>6, <2>7 DEF MInv
<1>10. CASE modpipe = <<>>
  <2>1. /\ modpc' = "detect" /\ blamed' = (blamed \/ Modules!Change(modgot) # 0)
        /\ modgot' = modgot /\ modpipe' = modpipe
    BY <1>10 DEF Modules!Drain
  <2>2. Twice' = 1 /\ Since' = module_change'
    BY <2>1 DEF Twice, Since
  <2>3. Within'
    <3>1. /\ -(modcalls - Len(modpipe)) - 1 <= module_change' /\ module_change' <= modcalls - Len(modpipe) + 1
      BY <1>1, <1>2, <1>4, <1>5, <1>7
    <3>. QED BY <1>1, <1>7, <2>1, <2>2, <3>1 DEF Within
  <2>4. Modules!TypeOK'
    <3>1. module_change' \in -MaxModCalls - 1 .. MaxModCalls + 1
      <4>1. -MaxModCalls - 1 <= module_change' /\ module_change' <= MaxModCalls + 1 /\ module_change' \in Int
        BY SMTT(20), <1>1, <1>2, <1>4, <1>5, <1>7, ModulesBounded
      <4>. QED BY <4>1, ModulesBounded
    <3>2. blamed' \in BOOLEAN
      BY <2>1 DEF MInv, Modules!TypeOK
    <3>. QED BY <1>1, <2>1, <3>1, <3>2 DEF MInv, Modules!TypeOK, Modules!ToSet
  <2>5. Account'
    <3>. SUFFICES ASSUME ~blamed' PROVE Account'
      BY DEF Account
    <3>1. ~blamed /\ module_change' = module_change
      <4>1. ~blamed /\ Modules!Change(modgot') = 0
        BY <2>1
      <4>. QED BY <1>1, <1>2, <4>1
    <3>2. Since' = Since
      BY <1>3, <2>2, <3>1
    <3>. QED BY <1>1, <2>1, <3>1, <3>2 DEF MInv, Account, Due, Modules!ToSet
  <2>6. Modules!HiddenIsReported'
    BY <2>1 DEF Modules!HiddenIsReported
  <2>. QED BY <1>6, <1>8, <2>3, <2>4, <2>5, <2>6 DEF MInv
<1>. QED BY <1>9, <1>10

\* Of finitely many numbers fewer than all are below any one of them.
LEMMA FewerBelow ==
  ASSUME NEW S, IsFiniteSet(S), S \subseteq Nat, NEW j \in S, NEW B, B = {k \in S : k < j}
  PROVE  Cardinality(B) < Cardinality(S)
<1>1. B \subseteq S /\ j \notin B
  OBVIOUS
<1>2. Cardinality(B) <= Cardinality(S) /\ IsFiniteSet(B) /\ Cardinality(S) # Cardinality(B)
  BY <1>1, FS_Subset
<1>3. Cardinality(B) \in Nat /\ Cardinality(S) \in Nat
  BY <1>2, FS_CardinalityType
<1>. QED BY <1>2, <1>3

\* When the count is right, the difference is the number of modules hidden since
\* the list was read.
LEMMA HiddenSince ==
  ASSUME MInv, modpc = "detect", ~blamed, ~Modules!Late
  PROVE  \E before \in SUBSET hidden :
           /\ before \cap Modules!ToSet(modulelist) = {}
           /\ Cardinality(hidden \ before) = Len(modulelist) - module_change - Len(modules)
<1>1. PICK before \in SUBSET hidden, d \in Int :
        /\ before \cap Modules!ToSet(modulelist) = {}
        /\ Adds(modpipe, d)
        /\ Len(modules) + Cardinality(hidden \ before)
             = Len(modulelist) - Since - d + Due
  BY DEF MInv, Account
<1>2. ~Modules!Counts /\ \A i \in 1 .. Len(modpipe) : Modules!Change(modpipe[i]) = 0
  BY DEF Modules!Late
<1>3. Due = 0
  BY <1>2, DueIsSmall
<1>4. modpipe \in Seq(Modules!Kind)
  BY DEF MInv, Modules!TypeOK
<1>5. d = 0
  BY <1>1, <1>2, <1>4, AddsZero
<1>6. Since = module_change
  BY DEF Since
<1>7. Len(modules) \in Int /\ Len(modulelist) \in Int /\ module_change \in Int /\ hidden \ before \subseteq Mod
  BY ModulesBounded DEF MInv, Modules!TypeOK
<1>8. Cardinality(hidden \ before) \in Int
  BY <1>7, ModulesBounded
<1>9. Cardinality(hidden \ before) = Len(modulelist) - module_change - Len(modules)
  BY <1>1, <1>3, <1>5, <1>6, <1>7, <1>8
<1>. QED BY <1>1, <1>9

\* If no module has been removed either, no more have gone from the list than
\* have been hidden, and all that have are reported.
LEMMA AllReported ==
  ASSUME MInv, ~deleted, NEW before \in SUBSET hidden, before \cap Modules!ToSet(modulelist) = {},
         NEW n \in Int, Cardinality(hidden \ before) = n
  PROVE  hidden \cap Modules!ToSet(modulelist) \subseteq Modules!find_hide_module(n)
<1>1. PICK G : G = Modules!Gone
  OBVIOUS
<1>2. PICK H : H = hidden \ before
  OBVIOUS
<1>3. modulelist \in Seq(Mod) /\ Distinct(modulelist) /\ hidden \subseteq Mod
      /\ hidden \cap Modules!ToSet(modules) = {}
  BY DEF MInv, Modules!TypeOK, Lists
<1>4. Modules!ToSet(modulelist) = {modulelist[i] : i \in Pos(modulelist)} /\ Len(modulelist) \in Nat
  BY <1>3, MembersAt
<1>5. G = {i \in Pos(modulelist) : modulelist[i] \notin Modules!ToSet(modules)}
  BY <1>1 DEF Modules!Gone, Pos
<1>6. G \subseteq Nat /\ IsFiniteSet(G)
  <2>1. IsFiniteSet(1 .. Len(modulelist))
    BY <1>4, FS_Interval
  <2>2. G \subseteq 1 .. Len(modulelist)
    BY <1>5 DEF Pos
  <2>3. G \subseteq Nat
    BY <2>2
  <2>4. IsFiniteSet(G)
    BY <2>1, <2>2, FS_Subset
  <2>. QED BY <2>3, <2>4
<1>7. IsFiniteSet(H) /\ Cardinality(H) = n
  BY <1>2, <1>3, ModulesBounded
<1>8. \A i \in G : modulelist[i] \in H
  <2>1. \A i \in G : modulelist[i] \in Modules!ToSet(modulelist) /\ modulelist[i] \notin Modules!ToSet(modules)
    BY <1>4, <1>5
  <2>2. Modules!ToSet(modulelist) \subseteq Modules!ToSet(modules) \union hidden
    BY DEF MInv, Kept
  <2>3. \A x \in Modules!ToSet(modulelist) : x \notin before
    OBVIOUS
  <2>. QED BY <1>2, <2>1, <2>2, <2>3
<1>9. Cardinality(G) <= Cardinality(H)
  <2>1. PICK f : f = [i \in G |-> modulelist[i]]
    OBVIOUS
  <2>2. f \in [G -> H]
    BY <1>8, <2>1
  <2>3. \A i, j \in G : f[i] = f[j] => i = j
    BY <1>3, <1>5, <2>1 DEF Distinct
  <2>4. f \in Injection(G, H)
    BY <2>2, <2>3 DEF Injection, IsInjective
  <2>. QED BY <1>7, <2>4, FS_Injection
<1>10. Cardinality(G) \in Nat
  BY <1>6, FS_CardinalityType
<1>11. {modulelist[i] : i \in G} \subseteq Modules!find_hide_module(n)
  <2>1. CASE n > 0 /\ Cardinality(G) >= n
    <3>. SUFFICES ASSUME NEW j \in G PROVE modulelist[j] \in Modules!find_hide_module(n)
      OBVIOUS
    <3>1. PICK B : B = {k \in G : k < j}
      OBVIOUS
    <3>2. Cardinality(B) < Cardinality(G) /\ Cardinality(B) \in Nat
      <4>1. Cardinality(B) < Cardinality(G)
        BY <1>6, <3>1, FewerBelow
      <4>2. IsFiniteSet(B)
        BY <1>6, <3>1, FS_Subset
      <4>. QED BY <4>1, <4>2, FS_CardinalityType
    <3>3. Cardinality(B) < n
      BY <1>7, <1>9, <1>10, <3>2
    <3>4. Modules!find_hide_module(n)
            = {modulelist[i] : i \in {jj \in G : Modules!Cardinality({k \in G : k < jj}) < n}}
      <4>1. Modules!Cardinality(G) >= n
        BY <2>1 DEF Modules!Cardinality, Cardinality
      <4>. QED BY <1>1, <2>1, <4>1 DEF Modules!find_hide_module
    <3>5. Modules!Cardinality(B) < n
      BY <3>3 DEF Modules!Cardinality, Cardinality
    <3>. QED BY <3>1, <3>4, <3>5
  <2>2. CASE ~ (n > 0 /\ Cardinality(G) >= n)
    <3>1. ~ (n > 0 /\ Modules!Cardinality(G) >= n)
      BY <2>2 DEF Modules!Cardinality, Cardinality
    <3>. QED BY <1>1, <3>1 DEF Modules!find_hide_module
  <2>. QED BY <2>1, <2>2
<1>12. hidden \cap Modules!ToSet(modulelist) \subseteq {modulelist[i] : i \in G}
  BY <1>3, <1>4, <1>5
<1>. QED BY <1>11, <1>12

\* The comparison reports what has been hidden, and nothing if nothing has.
LEMMA DetectMInv == MInv /\ Modules!detect_hide_module => MInv'
<1>. SUFFICES ASSUME MInv, Modules!detect_hide_module PROVE MInv'
  OBVIOUS
<1>1. PICK n : n = Len(modulelist) - module_change - Len(modules)
  OBVIOUS
<1>2. /\ modpc = "detect" /\ modpc' = "sleep"
      /\ modules' = modules /\ hidden' = hidden /\ op' = op /\ traps' = traps /\ modcalls' = modcalls /\ modpipe' = modpipe
      /\ modl' = modl /\ modgot' = modgot /\ module_change' = module_change /\ modround' = modround
      /\ compared' = [hidden |-> hidden, deleted |-> deleted, blamed |-> blamed \/ Modules!Late, kept |-> n # 0]
      /\ blamed' = (Modules!Late \/ (n # 0 /\ blamed))
      /\ deleted' = (n # 0 /\ deleted)
      /\ IF n = 0 THEN modulelist' = modules /\ reported' = {}
         ELSE reported' = Modules!find_hide_module(n) /\ modulelist' = modulelist
  BY <1>1 DEF Modules!detect_hide_module, Modules!Compared, Modules!guest
<1>3. /\ modules \in Seq(Mod) /\ modulelist \in Seq(Mod) /\ hidden \subseteq Mod /\ modl \subseteq Mod
      /\ hidden \cap Modules!ToSet(modules) = {}
      /\ module_change \in Int /\ modround \in 0 .. Rounds /\ blamed \in BOOLEAN /\ deleted \in BOOLEAN
  BY ModulesBounded DEF MInv, Modules!TypeOK
<1>4. n \in Int
  BY <1>1, <1>3
<1>5. Modules!Late \in BOOLEAN
  BY DEF Modules!Late, Modules!Counts
<1>6. compared'.hidden = hidden /\ compared'.deleted = deleted
      /\ compared'.blamed = (blamed \/ Modules!Late) /\ compared'.kept = (n # 0)
  BY <1>2
<1>7. Modules!TypeOK'
  <2>1. compared' \in [hidden : SUBSET Mod, deleted : BOOLEAN, blamed : BOOLEAN, kept : BOOLEAN]
    BY <1>2, <1>3, <1>5
  <2>2. Modules!find_hide_module(n) \subseteq Mod
    <3>1. \A i \in 1 .. Len(modulelist) : modulelist[i] \in Mod
      BY <1>3
    <3>. QED BY <1>3, <3>1 DEF Modules!find_hide_module, Modules!Gone
  <2>3. modulelist' \in Seq(Mod) /\ reported' \subseteq Mod
    BY <1>2, <1>3, <2>2
  <2>4. blamed' \in BOOLEAN /\ deleted' \in BOOLEAN
    BY <1>2, <1>3, <1>5
  <2>. QED BY <1>2, <2>1, <2>3, <2>4 DEF MInv, Modules!TypeOK, Modules!ToSet
<1>8. Lists' /\ UnderWay'
  BY <1>2 DEF MInv, Lists, UnderWay, Modules!Running, Modules!ToSet
<1>9. Within'
  BY <1>2 DEF MInv, Within, Twice
<1>10. Kept'
  <2>1. CASE n = 0
    BY <1>2, <2>1 DEF Kept, Modules!ToSet
  <2>2. CASE n # 0
    BY <1>2, <2>2 DEF MInv, Kept, Modules!ToSet
  <2>. QED BY <2>1, <2>2
<1>11. Account'
  <2>. SUFFICES ASSUME ~blamed' PROVE Account'
    BY DEF Account
  <2>1. ~Modules!Late /\ (n # 0 => ~blamed)
    BY <1>2
  <2>2. CASE n = 0
    <3>1. ~Modules!Counts /\ \A i \in 1 .. Len(modpipe) : Modules!Change(modpipe[i]) = 0
      BY <2>1 DEF Modules!Late
    <3>2. PICK d : d = 0
      OBVIOUS
    <3>3. Adds(modpipe, d) /\ d \in Int
      BY <1>3, <3>1, <3>2, AddsOfZeros DEF MInv, Modules!TypeOK
    <3>4. Due' = 0
      BY <1>2, <3>1, DueIsSmall DEF Due
    <3>5. Since' = 0
      BY <1>2, <1>6, <2>2 DEF Since
    <3>6. PICK before : before = hidden
      OBVIOUS
    <3>7. hidden' \ before = {}
      BY <1>2, <3>6
    <3>8. Cardinality(hidden' \ before) = 0
      BY <3>7, FS_EmptySet
    <3>9. Len(modules') = Len(modulelist') /\ Len(modules') \in Int
      BY <1>2, <1>3, <2>2
    <3>10. Len(modules') + Cardinality(hidden' \ before)
             = Len(modulelist') - Since' - d + Due'
      BY <3>2, <3>4, <3>5, <3>8, <3>9
    <3>11. before \in SUBSET hidden' /\ before \cap Modules!ToSet(modulelist)' = {} /\ Adds(modpipe', d)
      BY <1>2, <1>3, <2>2, <3>3, <3>6 DEF Modules!ToSet
    <3>. QED BY <3>3, <3>10, <3>11 DEF Account
  <2>3. CASE n # 0
    <3>1. Since' = Since
      BY <1>2, <1>6, <2>3 DEF Since
    <3>2. ~blamed /\ modulelist' = modulelist
      BY <1>2, <2>1, <2>3
    <3>. QED BY <1>2, <3>1, <3>2 DEF MInv, Account, Due, Modules!ToSet
  <2>. QED BY <2>2, <2>3
<1>12. Modules!NoFalseAlarm'
  <2>. SUFFICES ASSUME reported' # {}, hidden = {}, ~ (blamed \/ Modules!Late) PROVE FALSE
    BY <1>6 DEF Modules!NoFalseAlarm
  <2>1. PICK before \in SUBSET hidden :
          Cardinality(hidden \ before) = Len(modulelist) - module_change - Len(modules)
    BY <1>2, HiddenSince
  <2>2. hidden \ before = {}
    OBVIOUS
  <2>3. n = 0
    BY <1>1, <2>1, <2>2, FS_EmptySet
  <2>. QED BY <1>2, <2>3
<1>13. Modules!HiddenIsReported'
  <2>. SUFFICES ASSUME ~ (blamed \/ Modules!Late), ~deleted
                PROVE  hidden \cap Modules!ToSet(modulelist') \subseteq reported'
    BY <1>6 DEF Modules!HiddenIsReported, Modules!ToSet
  <2>1. CASE n = 0
    BY <1>2, <1>3, <2>1
  <2>2. CASE n # 0
    <3>1. PICK before \in SUBSET hidden :
            /\ before \cap Modules!ToSet(modulelist) = {}
            /\ Cardinality(hidden \ before) = Len(modulelist) - module_change - Len(modules)
      BY <1>2, HiddenSince
    <3>2. hidden \cap Modules!ToSet(modulelist) \subseteq Modules!find_hide_module(n)
      BY <1>1, <1>4, <3>1, AllReported
    <3>. QED BY <1>2, <2>2, <3>2
  <2>. QED BY <2>1, <2>2
<1>. QED BY <1>7, <1>8, <1>9, <1>10, <1>11, <1>12, <1>13 DEF MInv

\* A round that was wrong is blamed for what it forgets.
LEMMA ModRoundMInv == MInv /\ Modules!NextRound => MInv'
<1>. SUFFICES ASSUME MInv, Modules!NextRound PROVE MInv'
  OBVIOUS
<1>1. /\ modpc = "sleep" /\ modpc' = (IF modround + 1 < Rounds THEN "drain" ELSE "done")
      /\ modround' = modround + 1 /\ module_change' = 0 /\ reported' = {}
      /\ blamed' = (blamed \/ (compared.kept /\ module_change # 0))
      /\ modules' = modules /\ hidden' = hidden /\ op' = op /\ traps' = traps /\ modcalls' = modcalls /\ modpipe' = modpipe
      /\ modl' = modl /\ modgot' = modgot /\ modulelist' = modulelist
      /\ deleted' = deleted /\ compared' = compared
  BY DEF Modules!NextRound, Modules!guest
<1>2. modround < Rounds /\ modround \in 0 .. Rounds /\ Len(modpipe) <= modcalls
      /\ Len(modpipe) \in Int /\ modcalls \in Int
  <2>1. modpipe \in Seq(Modules!Kind) /\ modcalls \in Int /\ modround \in 0 .. Rounds
    BY ModulesBounded DEF MInv, Modules!TypeOK
  <2>. QED BY <1>1, <2>1 DEF MInv, Within
<1>3. Modules!TypeOK'
  <2>1. modround' \in 0 .. Rounds /\ module_change' \in -MaxModCalls - 1 .. MaxModCalls + 1
    BY <1>1, <1>2, ModulesBounded
  <2>2. blamed' \in BOOLEAN
    BY <1>1 DEF MInv, Modules!TypeOK
  <2>. QED BY <1>1, <2>1, <2>2 DEF MInv, Modules!TypeOK, Modules!ToSet
<1>4. Lists' /\ UnderWay' /\ Kept'
  BY <1>1 DEF MInv, Lists, UnderWay, Modules!Running, Kept, Modules!ToSet
<1>5. Within'
  <2>1. Twice' = 0
    BY <1>1 DEF Twice
  <2>2. modpc' # "done" => modround' < Rounds
    BY <1>1
  <2>. QED BY <1>1, <1>2, <2>1, <2>2 DEF Within
<1>6. Account'
  <2>. SUFFICES ASSUME ~blamed' PROVE Account'
    BY DEF Account
  <2>1. ~blamed /\ Since = 0
    BY <1>1 DEF Since
  <2>2. Since' = 0
    BY <1>1 DEF Since
  <2>. QED BY <1>1, <2>1, <2>2 DEF MInv, Account, Due, Modules!ToSet
<1>7. Modules!NoFalseAlarm' /\ Modules!HiddenIsReported'
  BY <1>1 DEF Modules!NoFalseAlarm, Modules!HiddenIsReported
<1>. QED BY <1>3, <1>4, <1>5, <1>6, <1>7 DEF MInv

\* The traps are set, and taken off, while nobody counts.
LEMMA ChildMInv == MInv /\ Modules!Child => MInv'
<1>. SUFFICES ASSUME MInv, Modules!Child PROVE MInv'
  OBVIOUS
<1>1. /\ traps' \in {"unset", "set", "removed"}
      /\ modules' = modules /\ hidden' = hidden /\ op' = op /\ modcalls' = modcalls
      /\ modpipe' = modpipe /\ modl' = modl /\ modgot' = modgot /\ module_change' = module_change
      /\ modulelist' = modulelist /\ reported' = reported /\ modpc' = modpc /\ modround' = modround
      /\ deleted' = deleted /\ blamed' = blamed /\ compared' = compared
  BY DEF Modules!Child, Modules!Arm, Modules!Disarm, Modules!guest, Modules!father, Modules!history
<1>2. Modules!TypeOK'
  BY <1>1 DEF MInv, Modules!TypeOK, Modules!ToSet
<1>3. Lists' /\ UnderWay' /\ Kept' /\ Within'
  BY <1>1 DEF MInv, Lists, UnderWay, Kept, Within, Twice, Modules!Running, Modules!ToSet
<1>4. Account'
  BY <1>1 DEF MInv, Account, Due, Since, Modules!ToSet
<1>5. Modules!NoFalseAlarm' /\ Modules!HiddenIsReported'
  BY <1>1, ReportsStay DEF MInv
<1>. QED BY <1>2, <1>3, <1>4, <1>5 DEF MInv

\* Every step of the guest, of the child and of the father keeps the invariant.
LEMMA NextMInv == MInv /\ [Modules!Next]_(Modules!vars) => MInv'
<1>. SUFFICES ASSUME MInv, [Modules!Next]_(Modules!vars) PROVE MInv'
  OBVIOUS
<1>1. CASE UNCHANGED Modules!vars
  <2>1. /\ modules' = modules /\ hidden' = hidden /\ op' = op /\ traps' = traps /\ modcalls' = modcalls
        /\ modpipe' = modpipe /\ modl' = modl /\ modgot' = modgot /\ module_change' = module_change
        /\ modulelist' = modulelist /\ reported' = reported /\ modpc' = modpc /\ modround' = modround
        /\ deleted' = deleted /\ blamed' = blamed /\ compared' = compared
    BY <1>1 DEF Modules!vars, Modules!guest, Modules!father, Modules!history
  <2>2. Modules!TypeOK'
    BY <2>1 DEF MInv, Modules!TypeOK, Modules!ToSet
  <2>3. Lists' /\ UnderWay' /\ Kept'
    BY <2>1 DEF MInv, Lists, UnderWay, Kept, Modules!Running, Modules!ToSet
  <2>4. Within'
    BY <2>1 DEF MInv, Within, Twice
  <2>5. Account'
    BY <2>1 DEF MInv, Account, Due, Since, Modules!ToSet
  <2>6. Modules!NoFalseAlarm' /\ Modules!HiddenIsReported'
    BY <2>1, ReportsStay DEF MInv
  <2>. QED BY <2>2, <2>3, <2>4, <2>5, <2>6 DEF MInv
<1>. QED BY <1>1, EnterMInv, SucceedMInv, FailMInv, HideMInv, NameMInv, ChildMInv, ModDrainMInv, DetectMInv, ModRoundMInv
         DEF Modules!Next, Modules!Guest

\* For any modules and any number of rounds: a module is reported though none is
\* hidden only when one of the things the count gets wrong has happened.
THEOREM NoModuleIsBlamedFalsely == Modules!Spec => []ModuleNoFalseAlarm
<1>1. MInv => ModuleNoFalseAlarm
  BY DEF MInv, ModuleNoFalseAlarm
<1>. QED BY <1>1, InitMInv, NextMInv, PTL DEF Modules!Spec

\* For any modules and any number of rounds: in a round without any of them the
\* modules hidden since the list was read are reported.
THEOREM HiddenModulesAreReported == Modules!Spec => []ModuleHiddenIsReported
<1>1. MInv => ModuleHiddenIsReported
  BY DEF MInv, ModuleHiddenIsReported
<1>. QED BY <1>1, InitMInv, NextMInv, PTL DEF Modules!Spec

-----------------------------------------------------------------------------
(***************************************************************************)
(* What the guest's ps is compared with (GuestFeed).  First, the pids in   *)
(* their order.                                                            *)
(***************************************************************************)
\* How many elements of S are below p.
Rank(p, S) == Cardinality(Feed!Below(p, S))

\* Fewer are below a smaller element, and never all.
LEMMA RankGrows ==
  ASSUME NEW S, IsFiniteSet(S), S \subseteq Int
  PROVE  /\ Cardinality(S) \in Nat
         /\ \A p \in S : Rank(p, S) \in 0 .. Cardinality(S) - 1
         /\ \A p, q \in S : p < q => Rank(p, S) < Rank(q, S)
<1>1. Cardinality(S) \in Nat
  BY FS_CardinalityType
<1>2. ASSUME NEW T, T \subseteq S, NEW x \in S, x \notin T
      PROVE  IsFiniteSet(T) /\ Cardinality(T) \in Nat /\ Cardinality(T) < Cardinality(S)
  <2>1. IsFiniteSet(T) /\ Cardinality(T) <= Cardinality(S) /\ Cardinality(T) # Cardinality(S)
    BY <1>2, FS_Subset
  <2>2. Cardinality(T) \in Nat
    BY <2>1, FS_CardinalityType
  <2>. QED BY <1>1, <2>1, <2>2
<1>3. ASSUME NEW p \in S PROVE Rank(p, S) \in 0 .. Cardinality(S) - 1
  <2>1. PICK T : T = Feed!Below(p, S)
    OBVIOUS
  <2>2. T \subseteq S /\ p \notin T
    BY <2>1 DEF Feed!Below
  <2>3. Cardinality(T) \in Nat /\ Cardinality(T) < Cardinality(S)
    BY <1>2, <2>2
  <2>. QED BY <1>1, <2>1, <2>3 DEF Rank
<1>4. ASSUME NEW p \in S, NEW q \in S, p < q PROVE Rank(p, S) < Rank(q, S)
  <2>1. PICK T : T = Feed!Below(p, S)
    OBVIOUS
  <2>2. PICK U : U = Feed!Below(q, S)
    OBVIOUS
  <2>3. T \subseteq U /\ U \subseteq S /\ p \in U /\ p \notin T /\ q \notin U
    <3>1. p \in Int /\ q \in Int /\ \A x \in S : x \in Int
      OBVIOUS
    <3>2. T = {x \in S : x < p} /\ U = {x \in S : x < q}
      BY <2>1, <2>2 DEF Feed!Below
    <3>3. T \subseteq U
      <4>1. ASSUME NEW x \in T PROVE x \in U
        <5>1. x \in S /\ x \in Int /\ x < p
          BY <3>1, <3>2
        <5>2. x < q
          BY <1>4, <3>1, <5>1
        <5>. QED BY <3>2, <5>1, <5>2
      <4>. QED BY <4>1
    <3>. QED BY <1>4, <3>1, <3>2, <3>3
  <2>4. IsFiniteSet(U) /\ Cardinality(U) \in Nat
    BY <1>2, <2>3
  <2>5. IsFiniteSet(T) /\ Cardinality(T) <= Cardinality(U) /\ Cardinality(T) # Cardinality(U)
    BY <2>3, <2>4, FS_Subset
  <2>6. Cardinality(T) \in Nat
    BY <2>5, FS_CardinalityType
  <2>7. Cardinality(T) < Cardinality(U)
    BY <2>4, <2>5, <2>6
  <2>8. Rank(p, S) = Cardinality(T) /\ Rank(q, S) = Cardinality(U)
    BY <2>1, <2>2 DEF Rank
  <2>. QED BY <2>7, <2>8
<1>. QED BY <1>1, <1>3, <1>4

\* Ascending(S) has all elements of S, each once, in their order.
LEMMA InOrderOf ==
  ASSUME NEW S, IsFiniteSet(S), S \subseteq Int
  PROVE  \E s \in [1 .. Cardinality(S) -> S] :
           /\ Cardinality(S) \in Nat /\ s = Feed!Ascending(S)
           /\ \A i, j \in 1 .. Cardinality(S) : i < j => s[i] < s[j]
           /\ \A p \in S : \E i \in 1 .. Cardinality(S) : s[i] = p
<1>1. PICK n : n = Cardinality(S)
  OBVIOUS
<1>2. /\ n \in Nat
      /\ \A p \in S : Rank(p, S) \in 0 .. n - 1
      /\ \A p, q \in S : p < q => Rank(p, S) < Rank(q, S)
  BY <1>1, RankGrows
<1>3. \A p, q \in S : Rank(p, S) = Rank(q, S) => p = q
  BY <1>2
<1>4. PICK f : f = [p \in S |-> Rank(p, S)]
  OBVIOUS
<1>5. f \in Injection(S, 0 .. n - 1)
  BY <1>2, <1>3, <1>4 DEF Injection, IsInjective
<1>6. IsFiniteSet(0 .. n - 1) /\ Cardinality(0 .. n - 1) = n
  BY <1>2, FS_Interval
<1>7. f \in Surjection(S, 0 .. n - 1)
  BY <1>1, <1>5, <1>6, FS_Injection
<1>8. \A k \in 1 .. n : \E p \in S : Rank(p, S) = k - 1
  BY <1>2, <1>4, <1>7 DEF Surjection
<1>9. PICK s : s = [k \in 1 .. n |-> CHOOSE p \in S : Rank(p, S) = k - 1]
  OBVIOUS
<1>10. \A k \in 1 .. n : s[k] \in S /\ Rank(s[k], S) = k - 1
  BY <1>8, <1>9
<1>11. s = Feed!Ascending(S)
  BY <1>1, <1>9 DEF Feed!Ascending, Rank, Feed!Cardinality, Cardinality
<1>12. ASSUME NEW i \in 1 .. n, NEW j \in 1 .. n, i < j PROVE s[i] < s[j]
  <2>1. PICK x \in S : x = s[i] /\ Rank(x, S) = i - 1
    BY <1>10, Zenon
  <2>2. PICK y \in S : y = s[j] /\ Rank(y, S) = j - 1
    BY <1>10, Zenon
  <2>3. i \in Int /\ j \in Int /\ x \in Int /\ y \in Int
    BY <1>2
  <2>4. x # y
    BY <1>12, <2>1, <2>2, <2>3
  <2>5. ~ (y < x)
    BY <1>2, <1>12, <2>1, <2>2, <2>3
  <2>. QED BY <2>1, <2>2, <2>3, <2>4, <2>5
<1>13. ASSUME NEW p \in S PROVE \E i \in 1 .. n : s[i] = p
  <2>1. Rank(p, S) + 1 \in 1 .. n
    BY <1>2
  <2>2. PICK i \in 1 .. n : i = Rank(p, S) + 1
    BY <2>1
  <2>3. s[i] \in S /\ Rank(s[i], S) = Rank(p, S)
    BY <1>2, <1>10, <2>2
  <2>. QED BY <1>3, <2>3
<1>14. s \in [1 .. n -> S]
  BY <1>9, <1>10
<1>. QED BY <1>1, <1>2, <1>11, <1>12, <1>13, <1>14
\* The lines of a report or of the file.
FLine == [pid : Int, of : Int]

\* A line moves b to the first place of its pid from where b was, or to the end.
LEMMA UntilStops ==
  ASSUME psoutlist \in Seq(Int), NEW k \in 1 .. Len(psoutlist) + 1, NEW pid \in Int, pid # Feed!Clock
  PROVE  /\ Feed!Until(k, pid) \in k .. Len(psoutlist) + 1
         /\ Feed!Until(k, pid) <= Len(psoutlist) => psoutlist[Feed!Until(k, pid)] = pid
         /\ \A j \in k .. Len(psoutlist) : psoutlist[j] = pid => Feed!Until(k, pid) <= j
<1>1. PICK N : N = Len(psoutlist)
  OBVIOUS
<1>2. N \in Nat /\ k \in 1 .. N + 1
  BY <1>1
<1>3. CASE k > N
  <2>1. Feed!Until(k, pid) = k
    BY <1>1, <1>3 DEF Feed!Until
  <2>. QED BY <1>1, <1>2, <1>3, <2>1
<1>4. CASE ~ (k > N)
  <2>1. PICK T : T = {j \in k .. N : psoutlist[j] = pid} \union {N + 1}
    OBVIOUS
  <2>2. T \subseteq Nat /\ N + 1 \in T
    BY <1>2, <2>1
  <2>3. \E x \in T : \A y \in T : x <= y
    BY <2>2, LeastElement
  <2>4. Feed!Until(k, pid) = CHOOSE x \in T : \A y \in T : x <= y
    BY <1>1, <1>4, <2>1 DEF Feed!Until, Feed!Min
  <2>5. PICK e : e = Feed!Until(k, pid)
    OBVIOUS
  <2>6. e \in T /\ \A y \in T : e <= y
    BY <2>3, <2>4, <2>5
  <2>7. e \in k .. N + 1
    BY <1>2, <1>4, <2>1, <2>6
  <2>8. e <= N => psoutlist[e] = pid
    BY <1>2, <2>1, <2>6, <2>7
  <2>9. \A j \in k .. N : psoutlist[j] = pid => e <= j
    BY <2>1, <2>6
  <2>. QED BY <1>1, <2>5, <2>7, <2>8, <2>9
<1>. QED BY <1>3, <1>4

\* Where b is after each line is one sequence of places.
LEMMA PlacesAre ==
  ASSUME NEW f \in Seq(FLine), NEW g,
         g = [i \in 0 .. Len(f) |-> IF i = 0 THEN 1 ELSE Feed!Until(g[i - 1], f[i].pid) + 1]
  PROVE  Feed!Places(f) = g
<1>1. PICK b : b = Feed!Places(f)
  OBVIOUS
<1>2. Feed!Places(f) = CHOOSE p : p = [i \in 0 .. Len(f) |-> IF i = 0 THEN 1 ELSE Feed!Until(p[i - 1], f[i].pid) + 1]
  BY DEF Feed!Places
<1>3. b = [i \in 0 .. Len(f) |-> IF i = 0 THEN 1 ELSE Feed!Until(b[i - 1], f[i].pid) + 1]
  BY <1>1, <1>2
<1>4. PICK n : n = Len(f)
  OBVIOUS
<1>5. n \in Nat
  BY <1>4
<1>6. PICK T : T = {i \in 0 .. n : b[i] # g[i]}
  OBVIOUS
<1>7. T = {}
  <2>. SUFFICES ASSUME T # {} PROVE FALSE
    OBVIOUS
  <2>1. T \subseteq Nat
    BY <1>5, <1>6
  <2>2. PICK i \in T : \A j \in T : i <= j
    BY <2>1, LeastElement
  <2>3. i \in 0 .. n /\ b[i] # g[i]
    BY <1>6, <2>2
  <2>4. b[0] = 1 /\ g[0] = 1
    <3>1. \A x : x = [k \in 0 .. n |-> IF k = 0 THEN 1 ELSE Feed!Until(x[k - 1], f[k].pid) + 1] => x[0] = 1
      BY <1>5
    <3>. QED BY <1>3, <1>4, <3>1
  <2>5. i # 0
    BY <2>3, <2>4
  <2>8. i \in 0 .. n /\ i - 1 \in 0 .. n /\ i - 1 < i
    BY <1>5, <2>3, <2>5
  <2>6. b[i - 1] = g[i - 1]
    <3>1. i - 1 \notin T
      BY <1>5, <2>2, <2>8
    <3>. QED BY <1>6, <2>8, <3>1
  <2>7. b[i] = Feed!Until(b[i - 1], f[i].pid) + 1 /\ g[i] = Feed!Until(g[i - 1], f[i].pid) + 1
    <3>1. \A x : x = [k \in 0 .. n |-> IF k = 0 THEN 1 ELSE Feed!Until(x[k - 1], f[k].pid) + 1]
                   => x[i] = Feed!Until(x[i - 1], f[i].pid) + 1
      BY <2>5, <2>8
    <3>. QED BY <1>3, <1>4, <3>1
  <2>. QED BY <2>3, <2>6, <2>7
<1>8. \A i \in 0 .. n : b[i] = g[i]
  BY <1>6, <1>7
<1>9. b = [i \in 0 .. n |-> b[i]] /\ g = [i \in 0 .. n |-> g[i]]
  BY <1>3, <1>4
<1>10. [i \in 0 .. n |-> b[i]] = [i \in 0 .. n |-> g[i]]
  BY <1>8
<1>. QED BY <1>1, <1>9, <1>10

-----------------------------------------------------------------------------
(***************************************************************************)
(* Reports and the file, by what the guest is now: the processes its ps    *)
(* lists, the report before its last change, and how many reports there    *)
(* were.                                                                   *)
(***************************************************************************)
FViews ==
  {v \in [listed : SUBSET Proc, since : Int, now : Nat] : v.since <= v.now /\ v.now <= MaxReports}
FView == [listed |-> alive \ unlisted, since |-> changed, now |-> clock]

\* The line a report of number n has now at place k.
FAt(k, n, v) ==
  Feed!Line(Append(Append(Feed!Ascending(v.listed), Feed!PsPid(n)), Feed!Clock)[k], n)
FCount(v) == Cardinality(v.listed)

\* A line of a report made since the last change is where it would be now.
FPlaced(x, k, v) ==
  /\ x.of \in 0 .. v.now
  /\ x.of > v.since => k <= FCount(v) + 2 /\ x = FAt(k, x.of, v)

\* A report: all but its stamp is there.
FReport(s, v) ==
  /\ s \in Seq(FLine)
  /\ \A k \in 1 .. Len(s) : FPlaced(s[k], k, v) /\ s[k].of = s[1].of
  /\ s # <<>> /\ s[1].of > v.since => Len(s) >= FCount(v) + 1

\* The file: what was never written is in its first block.
FCells(f, v) ==
  /\ f \in Seq(FLine)
  /\ \A k \in 1 .. Len(f) : (f[k] = Feed!Hole /\ k <= Cut) \/ FPlaced(f[k], k, v)

\* With its first line comes the block.
FBlock(f, v) ==
  f # <<>> /\ f[1] # Feed!Hole /\ f[1].of > v.since =>
    \A k \in 1 .. Cut : k <= FCount(v) + 1 => k <= Len(f) /\ f[k] # Feed!Hole

FFalling(f) == \A i, j \in 1 .. Len(f) : i < j => f[i].of >= f[j].of

\* The guest stays as it is, or has just changed.
FLater(v, w) ==
  v.now <= w.now /\ (w.since >= v.now \/ (w.since = v.since /\ w.listed = v.listed))

\* The bounds of the model.
LEMMA FeedBounds ==
  /\ Proc \subseteq 1 .. 99 /\ IsFiniteSet(Proc) /\ Cut \in Nat /\ Cut > 0
  /\ Lag \in Nat /\ MaxReports \in Nat /\ MaxConns \in Nat /\ MaxConns > 0
<1>1. Proc \subseteq 1 .. 99
  BY FeedAssumed DEF Feed!FeedAssumption
<1>2. IsFiniteSet(1 .. 99)
  <2>1. \A a, b \in Int : IsFiniteSet(a .. b)
    BY FS_Interval
  <2>2. 1 \in Int /\ 99 \in Int
    OBVIOUS
  <2>. QED BY <2>1, <2>2, Zenon
<1>3. IsFiniteSet(Proc)
  BY <1>1, <1>2, FS_Subset
<1>4. {Lag, MaxReports, MaxChanges, MaxFaults} \subseteq Nat /\ Cut \in Nat \ {0} /\ MaxConns \in Nat \ {0}
  BY FeedAssumed DEF Feed!FeedAssumption
<1>5. Lag \in Nat /\ MaxReports \in Nat
  BY <1>4
<1>6. Cut \in Nat /\ Cut > 0 /\ MaxConns \in Nat /\ MaxConns > 0
  BY <1>4
<1>. QED BY <1>1, <1>3, <1>5, <1>6

\* What is listed has a number, and its lines are lines.
LEMMA LinesAt ==
  ASSUME NEW v \in FViews
  PROVE  /\ FCount(v) \in Nat
         /\ \A n \in Int : \A k \in 1 .. FCount(v) + 2 : FAt(k, n, v) \in FLine /\ FAt(k, n, v).of = n
<1>1. PICK S : S = v.listed
  OBVIOUS
<1>2. S \subseteq Proc /\ Proc \subseteq Int
  BY <1>1, FeedBounds DEF FViews
<1>3. IsFiniteSet(S) /\ S \subseteq Int
  BY <1>2, FeedBounds, FS_Subset
<1>4. PICK s \in [1 .. Cardinality(S) -> S] : Cardinality(S) \in Nat /\ s = Feed!Ascending(S)
  BY <1>3, InOrderOf
<1>5. s \in Seq(Int) /\ Len(s) = FCount(v) /\ FCount(v) \in Nat
  BY <1>1, <1>3, <1>4 DEF FCount
<1>6. ASSUME NEW n \in Int, NEW k \in 1 .. FCount(v) + 2
      PROVE  FAt(k, n, v) \in FLine /\ FAt(k, n, v).of = n
  <2>1. PICK t : t = Append(Append(s, Feed!PsPid(n)), Feed!Clock)
    OBVIOUS
  <2>2. t \in Seq(Int) /\ Len(t) = FCount(v) + 2
    BY <1>5, <2>1 DEF Feed!PsPid, Feed!Clock
  <2>3. t[k] \in Int
    BY <1>5, <2>2
  <2>4. FAt(k, n, v) = [pid |-> t[k], of |-> n]
    BY <1>1, <1>4, <2>1 DEF FAt, Feed!Line
  <2>. QED BY <2>3, <2>4 DEF FLine
<1>. QED BY <1>5, <1>6

\* What was placed stays so.
LEMMA StaysPlaced ==
  ASSUME NEW v \in FViews, NEW w \in FViews, FLater(v, w), NEW x \in FLine, NEW k \in Int, FPlaced(x, k, v)
  PROVE  FPlaced(x, k, w)
<1>1. x.of \in Int /\ v.now \in Int /\ w.now \in Int /\ v.since \in Int /\ w.since \in Int
  BY DEF FLine, FViews
<1>2. x.of \in 0 .. v.now /\ (x.of > v.since => k <= FCount(v) + 2 /\ x = FAt(k, x.of, v))
  BY DEF FPlaced
<1>3. x.of \in 0 .. w.now
  BY <1>1, <1>2 DEF FLater
<1>4. CASE w.since >= v.now
  BY <1>1, <1>2, <1>3, <1>4 DEF FPlaced
<1>5. CASE w.since = v.since /\ w.listed = v.listed
  <2>1. FCount(w) = FCount(v) /\ FAt(k, x.of, w) = FAt(k, x.of, v)
    BY <1>5 DEF FCount, FAt
  <2>. QED BY <1>1, <1>2, <1>3, <1>5, <2>1 DEF FPlaced
<1>. QED BY <1>4, <1>5 DEF FLater

\* A report stays what it was.
LEMMA StaysReport ==
  ASSUME NEW v \in FViews, NEW w \in FViews, FLater(v, w), NEW s, FReport(s, v)
  PROVE  FReport(s, w)
<1>1. s \in Seq(FLine)
  BY DEF FReport
<1>2. \A k \in 1 .. Len(s) : s[k] \in FLine /\ k \in Int
  BY <1>1
<1>3. ASSUME NEW k \in 1 .. Len(s) PROVE FPlaced(s[k], k, w) /\ s[k].of = s[1].of
  <2>1. FPlaced(s[k], k, v) /\ s[k].of = s[1].of
    BY DEF FReport
  <2>2. PICK x \in FLine : x = s[k]
    BY <1>2
  <2>3. FPlaced(x, k, w)
    BY <1>2, <2>1, <2>2, StaysPlaced
  <2>. QED BY <2>1, <2>2, <2>3
<1>4. ASSUME s # <<>>, s[1].of > w.since PROVE Len(s) >= FCount(w) + 1
  <2>1. 1 \in 1 .. Len(s)
    BY <1>1, <1>4
  <2>2. s[1].of \in 0 .. v.now
    BY <2>1 DEF FReport, FPlaced
  <2>3. v.now \in Int /\ v.since \in Int /\ w.since \in Int
    BY DEF FViews
  <2>4. w.since = v.since /\ w.listed = v.listed
    BY <1>4, <2>2, <2>3 DEF FLater
  <2>. QED BY <1>4, <2>4 DEF FReport, FCount
<1>. QED BY <1>1, <1>3, <1>4 DEF FReport

\* And so does the file.
LEMMA StaysFile ==
  ASSUME NEW v \in FViews, NEW w \in FViews, FLater(v, w), NEW f, FCells(f, v), FBlock(f, v)
  PROVE  FCells(f, w) /\ FBlock(f, w)
<1>1. f \in Seq(FLine)
  BY DEF FCells
<1>2. \A k \in 1 .. Len(f) : f[k] \in FLine /\ k \in Int
  BY <1>1
<1>3. ASSUME NEW k \in 1 .. Len(f) PROVE (f[k] = Feed!Hole /\ k <= Cut) \/ FPlaced(f[k], k, w)
  <2>1. (f[k] = Feed!Hole /\ k <= Cut) \/ FPlaced(f[k], k, v)
    BY DEF FCells
  <2>2. PICK x \in FLine : x = f[k]
    BY <1>2
  <2>3. FPlaced(x, k, v) => FPlaced(x, k, w)
    BY <1>2, StaysPlaced
  <2>. QED BY <2>1, <2>2, <2>3
<1>4. ASSUME f # <<>>, f[1] # Feed!Hole, f[1].of > w.since
      PROVE  \A k \in 1 .. Cut : k <= FCount(w) + 1 => k <= Len(f) /\ f[k] # Feed!Hole
  <2>1. 1 \in 1 .. Len(f)
    BY <1>1, <1>4
  <2>2. f[1].of \in 0 .. v.now
    BY <1>4, <2>1 DEF FCells, FPlaced
  <2>3. v.now \in Int /\ v.since \in Int /\ w.since \in Int
    BY DEF FViews
  <2>4. w.since = v.since /\ w.listed = v.listed
    BY <1>4, <2>2, <2>3 DEF FLater
  <2>. QED BY <1>4, <2>4 DEF FBlock, FCount
<1>. QED BY <1>1, <1>3, <1>4 DEF FCells, FBlock
\* The report of now, whole or without its stamp.
LEMMA ReportIs ==
  ASSUME NEW v \in FViews, v.listed = alive \ unlisted, v.now # 0
  PROVE  /\ FReport(Feed!Lines(v.now), v)
         /\ FReport(Append(Feed!Lines(v.now), Feed!Stamp(v.now)), v)
         /\ Feed!Lines(v.now) # <<>> /\ Feed!Lines(v.now)[1].of = v.now
         /\ Append(Feed!Lines(v.now), Feed!Stamp(v.now))[1].of = v.now
<1>1. PICK S : S = v.listed
  OBVIOUS
<1>2. PICK n : n = v.now
  OBVIOUS
<1>3. n \in Nat /\ v.since \in Int
  BY <1>2 DEF FViews
<1>4. S \subseteq Proc /\ Proc \subseteq Int
  BY <1>1, FeedBounds DEF FViews
<1>5. IsFiniteSet(S) /\ S \subseteq Int
  BY <1>4, FeedBounds, FS_Subset
<1>6. PICK s \in [1 .. Cardinality(S) -> S] : Cardinality(S) \in Nat /\ s = Feed!Ascending(S)
  BY <1>5, InOrderOf
<1>7. PICK m : m = FCount(v)
  OBVIOUS
<1>8. m \in Nat /\ s \in Seq(Int) /\ Len(s) = m
  <2>1. Cardinality(S) = m
    BY <1>1, <1>7 DEF FCount
  <2>2. s \in [1 .. m -> Int]
    BY <1>5, <1>6, <2>1
  <2>. QED BY <1>6, <2>1, <2>2
<1>9. PICK t : t = Append(s, Feed!PsPid(n))
  OBVIOUS
<1>10. t \in Seq(Int) /\ Len(t) = m + 1
  BY <1>3, <1>8, <1>9 DEF Feed!PsPid
<1>11. PICK l : l = [k \in 1 .. m + 1 |-> Feed!Line(t[k], n)]
  OBVIOUS
<1>12. Feed!Lines(n) = l
  BY <1>1, <1>6, <1>9, <1>10, <1>11 DEF Feed!Lines
<1>13. ASSUME NEW k \in 1 .. m + 1 PROVE FAt(k, n, v) = Feed!Line(t[k], n)
  <2>1. Append(t, Feed!Clock)[k] = t[k]
    BY <1>8, <1>10 DEF Feed!Clock
  <2>. QED BY <1>1, <1>6, <1>9, <2>1 DEF FAt
<1>14. FAt(m + 2, n, v) = Feed!Stamp(n)
  <2>1. Append(t, Feed!Clock)[m + 2] = Feed!Clock
    BY <1>8, <1>10 DEF Feed!Clock
  <2>. QED BY <1>1, <1>6, <1>9, <2>1 DEF FAt, Feed!Stamp
<1>15. \A k \in 1 .. m + 2 : FAt(k, n, v) \in FLine /\ FAt(k, n, v).of = n
  <2>1. \A i \in Int : \A k \in 1 .. FCount(v) + 2 : FAt(k, i, v) \in FLine /\ FAt(k, i, v).of = i
    BY LinesAt
  <2>2. n \in Int
    BY <1>3
  <2>. QED BY <1>7, <2>1, <2>2
<1>16. l = [k \in 1 .. m + 1 |-> FAt(k, n, v)]
  BY <1>11, <1>13
<1>17. l \in Seq(FLine) /\ Len(l) = m + 1 /\ \A k \in 1 .. m + 1 : l[k] = FAt(k, n, v)
  <2>1. \A k \in 1 .. m + 1 : FAt(k, n, v) \in FLine
    BY <1>8, <1>15
  <2>2. m + 1 \in Nat
    BY <1>8
  <2>. QED BY <1>16, <2>1, <2>2
<1>18. FReport(l, v) /\ l # <<>> /\ l[1].of = n
  BY <1>2, <1>3, <1>7, <1>8, <1>15, <1>17 DEF FReport, FPlaced
<1>19. PICK a : a = Append(l, Feed!Stamp(n))
  OBVIOUS
<1>20. a \in Seq(FLine) /\ Len(a) = m + 2 /\ \A k \in 1 .. m + 2 : a[k] = FAt(k, n, v)
  <2>1. Feed!Stamp(n) \in FLine
    BY <1>3, <1>8, <1>14, <1>15
  <2>2. a \in Seq(FLine) /\ Len(a) = m + 2 /\ a[m + 2] = Feed!Stamp(n) /\ \A k \in 1 .. m + 1 : a[k] = l[k]
    BY <1>8, <1>17, <1>19, <2>1
  <2>. QED BY <1>8, <1>14, <1>17, <2>2
<1>21. FReport(a, v) /\ a[1].of = n
  BY <1>2, <1>3, <1>7, <1>8, <1>15, <1>20 DEF FReport, FPlaced
<1>. QED BY <1>2, <1>12, <1>18, <1>19, <1>21

\* What a file object held back, over what is there.
LEMMA FlushedIs ==
  ASSUME NEW s \in Seq(FLine), NEW f \in Seq(FLine)
  PROVE  /\ Feed!Flushed(s, f) \in Seq(FLine)
         /\ Len(Feed!Flushed(s, f)) = IF Len(s) >= Len(f) THEN Len(s) ELSE Len(f)
         /\ \A k \in 1 .. Len(Feed!Flushed(s, f)) :
              Feed!Flushed(s, f)[k] =
                IF k <= Len(s) /\ (Len(s) > Cut => k > Cut) THEN s[k]
                ELSE IF k <= Len(f) THEN f[k] ELSE Feed!Hole
<1>1. PICK a \in Nat : a = Len(s)
  OBVIOUS
<1>2. PICK b \in Nat : b = Len(f)
  OBVIOUS
<1>3. PICK m : m = IF a >= b THEN a ELSE b
  OBVIOUS
<1>4. m \in Nat /\ m >= a /\ m >= b
  BY <1>3
<1>5. Feed!Max({Len(s), Len(f)}) = m
  <2>1. Feed!Max({a, b}) = CHOOSE x \in {a, b} : \A y \in {a, b} : x >= y
    BY DEF Feed!Max
  <2>2. m \in {a, b} /\ \A y \in {a, b} : m >= y
    BY <1>3
  <2>3. \A x \in {a, b} : (\A y \in {a, b} : x >= y) => x = m
    BY <1>3
  <2>. QED BY <1>1, <1>2, <2>1, <2>2, <2>3
<1>6. PICK r : r = Feed!Flushed(s, f)
  OBVIOUS
<1>7. r = [k \in 1 .. m |-> IF k \in Feed!HeldBack(s) THEN s[k] ELSE IF k \in DOMAIN f THEN f[k] ELSE Feed!Hole]
  BY <1>5, <1>6 DEF Feed!Flushed
<1>8. \A k \in 1 .. m : k \in Feed!HeldBack(s) <=> k <= a /\ (a > Cut => k > Cut)
  BY <1>1, <1>4 DEF Feed!HeldBack, Feed!Big
<1>9. \A k \in 1 .. m : k \in DOMAIN f <=> k <= b
  BY <1>2, <1>4
<1>10. \A k \in 1 .. m : r[k] = IF k <= a /\ (a > Cut => k > Cut) THEN s[k] ELSE IF k <= b THEN f[k] ELSE Feed!Hole
  BY <1>7, <1>8, <1>9
<1>11. Feed!Hole \in FLine
  BY FeedBounds DEF Feed!Hole, Feed!Line, Feed!Never, FLine
<1>12. ASSUME NEW k \in 1 .. m PROVE r[k] \in FLine
  <2>1. k <= a => s[k] \in FLine
    BY <1>1
  <2>2. k <= b => f[k] \in FLine
    BY <1>2
  <2>. QED BY <1>10, <1>11, <2>1, <2>2
<1>13. r \in Seq(FLine) /\ Len(r) = m
  BY <1>4, <1>7, <1>12
<1>. QED BY <1>1, <1>2, <1>3, <1>6, <1>10, <1>13

\* Whatever was held back, it leaves a file of lines in their places.
LEMMA FlushKeeps ==
  ASSUME NEW v \in FViews, NEW s, NEW f, FReport(s, v), FCells(f, v), FBlock(f, v)
  PROVE  FCells(Feed!Flushed(s, f), v) /\ FBlock(Feed!Flushed(s, f), v)
<1>1. s \in Seq(FLine) /\ f \in Seq(FLine)
  BY DEF FReport, FCells
<1>2. PICK a \in Nat : a = Len(s)
  BY <1>1
<1>3. PICK b \in Nat : b = Len(f)
  BY <1>1
<1>4. PICK r : r = Feed!Flushed(s, f)
  OBVIOUS
<1>5. PICK m : m = Len(r)
  OBVIOUS
<1>6. /\ r \in Seq(FLine) /\ m = IF a >= b THEN a ELSE b
      /\ \A k \in 1 .. m : r[k] = IF k <= a /\ (a > Cut => k > Cut) THEN s[k] ELSE IF k <= b THEN f[k] ELSE Feed!Hole
  BY <1>1, <1>2, <1>3, <1>4, <1>5, FlushedIs
<1>7. m \in Nat /\ m >= a /\ m >= b /\ Cut \in Nat /\ Cut > 0
  BY <1>6, FeedBounds
<1>8. ASSUME NEW k \in 1 .. m PROVE (r[k] = Feed!Hole /\ k <= Cut) \/ FPlaced(r[k], k, v)
  <2>1. CASE k <= a /\ (a > Cut => k > Cut)
    <3>1. FPlaced(s[k], k, v)
      BY <1>2, <2>1 DEF FReport
    <3>. QED BY <1>6, <2>1, <3>1
  <2>2. CASE ~ (k <= a /\ (a > Cut => k > Cut)) /\ k <= b
    <3>1. (f[k] = Feed!Hole /\ k <= Cut) \/ FPlaced(f[k], k, v)
      BY <1>3, <2>2 DEF FCells
    <3>. QED BY <1>6, <2>2, <3>1
  <2>3. CASE ~ (k <= a /\ (a > Cut => k > Cut)) /\ ~ (k <= b)
    <3>1. r[k] = Feed!Hole
      BY <1>6, <2>3
    <3>2. k <= Cut
      BY <1>6, <1>7, <2>3
    <3>. QED BY <3>1, <3>2
  <2>. QED BY <2>1, <2>2, <2>3
<1>9. FCells(r, v)
  BY <1>5, <1>6, <1>8 DEF FCells
<1>10. ASSUME r # <<>>, r[1] # Feed!Hole, r[1].of > v.since,
              NEW k \in 1 .. Cut, k <= FCount(v) + 1
       PROVE  k <= m /\ r[k] # Feed!Hole
  <2>1. m > 0 /\ 1 \in 1 .. m
    <3>1. r \in Seq(FLine) /\ Len(r) = m /\ r # <<>>
      BY <1>5, <1>6, <1>10
    <3>2. m # 0
      BY <3>1
    <3>. QED BY <1>7, <3>2
  <2>2. CASE a > Cut
    <3>1. r[1] = IF 1 <= b THEN f[1] ELSE Feed!Hole
      BY <1>6, <1>7, <2>1, <2>2
    <3>2. 1 <= b /\ r[1] = f[1]
      BY <1>10, <3>1
    <3>3. f # <<>>
      BY <1>1, <1>3, <3>2
    <3>4. k <= b /\ f[k] # Feed!Hole
      BY <1>3, <1>10, <3>2, <3>3 DEF FBlock
    <3>5. k \in 1 .. m
      BY <1>7, <3>4
    <3>6. r[k] = f[k]
      BY <1>6, <1>7, <2>2, <3>4, <3>5
    <3>. QED BY <1>7, <3>4, <3>5, <3>6
  <2>3. CASE ~ (a > Cut) /\ a > 0
    <3>1. r[1] = s[1] /\ s # <<>>
      BY <1>1, <1>2, <1>6, <1>7, <2>1, <2>3
    <3>2. a >= FCount(v) + 1
      BY <1>2, <1>10, <3>1 DEF FReport
    <3>3. k <= a /\ k \in 1 .. m
      BY <1>7, <1>10, <3>2, LinesAt
    <3>4. r[k] = s[k]
      BY <1>6, <1>7, <2>3, <3>3
    <3>5. FPlaced(s[k], k, v)
      BY <1>2, <3>3 DEF FReport
    <3>6. s[k] # Feed!Hole
      <4>1. s[k].of \in 0 .. v.now
        BY <3>5 DEF FPlaced
      <4>2. v.now \in Int /\ v.now <= MaxReports /\ MaxReports \in Int
        BY FeedBounds DEF FViews
      <4>3. Feed!Hole.of = MaxReports + 1
        BY DEF Feed!Hole, Feed!Line, Feed!Never
      <4>. QED BY <4>1, <4>2, <4>3
    <3>. QED BY <1>7, <3>3, <3>4, <3>6
  <2>4. CASE ~ (a > Cut) /\ ~ (a > 0)
    <3>1. a = 0 /\ m = b
      BY <1>6, <2>4
    <3>2. r[1] = f[1] /\ f # <<>>
      BY <1>1, <1>3, <1>6, <1>7, <2>1, <3>1
    <3>3. k <= b /\ f[k] # Feed!Hole
      BY <1>3, <1>10, <3>2 DEF FBlock
    <3>4. k \in 1 .. m
      BY <1>7, <3>3
    <3>5. r[k] = f[k]
      BY <1>6, <1>7, <3>1, <3>3, <3>4
    <3>. QED BY <1>7, <3>3, <3>4, <3>5
  <2>. QED BY <2>2, <2>3, <2>4
<1>11. FBlock(r, v)
  BY <1>5, <1>10 DEF FBlock
<1>. QED BY <1>4, <1>9, <1>11
\* A report is never made of holes, which come from no report.
LEMMA HolesAreNew ==
  ASSUME NEW v \in FViews, NEW x, NEW k, FPlaced(x, k, v)
  PROVE  x # Feed!Hole /\ Feed!Hole.of > v.now
<1>1. x.of \in 0 .. v.now
  BY DEF FPlaced
<1>2. v.now \in Int /\ v.now <= MaxReports /\ MaxReports \in Int
  BY FeedBounds DEF FViews
<1>3. Feed!Hole.of = MaxReports + 1
  BY DEF Feed!Hole, Feed!Line, Feed!Never
<1>. QED BY <1>1, <1>2, <1>3

\* Two sequences, one after the other.
LEMMA Joined ==
  ASSUME NEW S, NEW h \in Seq(S), NEW t \in Seq(S)
  PROVE  /\ h \o t \in Seq(S) /\ Len(h \o t) = Len(h) + Len(t)
         /\ \A k \in 1 .. Len(h) : (h \o t)[k] = h[k]
         /\ \A k \in 1 .. Len(t) : (h \o t)[Len(h) + k] = t[k]
OBVIOUS

\* The end of a sequence.
LEMMA FromTo ==
  ASSUME NEW S, NEW f \in Seq(S), NEW c \in Nat, c <= Len(f)
  PROVE  /\ SubSeq(f, c + 1, Len(f)) \in Seq(S) /\ Len(SubSeq(f, c + 1, Len(f))) = Len(f) - c
         /\ \A k \in 1 .. Len(f) - c : SubSeq(f, c + 1, Len(f))[k] = f[k + c]
OBVIOUS

\* The block of a report over the file.
FWritten(s, f) == SubSeq(s, 1, Cut) \o SubSeq(f, Cut + 1, Len(f))

\* Line by line.
LEMMA WrittenIs ==
  ASSUME NEW s \in Seq(FLine), NEW f \in Seq(FLine), Len(s) > Cut
  PROVE  /\ FWritten(s, f) \in Seq(FLine)
         /\ Len(FWritten(s, f)) = IF Len(f) > Cut THEN Len(f) ELSE Cut
         /\ \A k \in 1 .. Len(FWritten(s, f)) : FWritten(s, f)[k] = IF k <= Cut THEN s[k] ELSE f[k]
<1>1. Cut \in Nat /\ Cut > 0
  BY FeedBounds
<1>3. PICK b \in Nat : b = Len(f)
  OBVIOUS
<1>4. PICK h : h = SubSeq(s, 1, Cut)
  OBVIOUS
<1>5. h \in Seq(FLine) /\ Len(h) = Cut /\ \A k \in 1 .. Cut : h[k] = s[k]
  BY <1>1, <1>4
<1>6. PICK t : t = SubSeq(f, Cut + 1, b)
  OBVIOUS
<1>7. PICK m : m = IF b > Cut THEN b ELSE Cut
  OBVIOUS
<1>8. t \in Seq(FLine) /\ Len(t) = m - Cut /\ \A k \in 1 .. m - Cut : t[k] = f[k + Cut]
  <2>1. \A i \in Cut + 1 .. b : f[i] \in FLine
    BY <1>1, <1>3
  <2>2. CASE b > Cut
    <3>1. Cut <= Len(f) /\ t = SubSeq(f, Cut + 1, Len(f)) /\ m = Len(f)
      BY <1>1, <1>3, <1>6, <1>7, <2>2
    <3>. QED BY <1>1, <3>1, FromTo
  <2>3. CASE ~ (b > Cut)
    <3>1. t = <<>>
      BY <1>1, <1>3, <1>6, <2>3
    <3>. QED BY <1>1, <1>7, <2>3, <3>1
  <2>. QED BY <2>2, <2>3
<1>2. PICK r : r = FWritten(s, f)
  OBVIOUS
<1>9. r \in Seq(FLine) /\ Len(r) = m /\ m \in Nat /\ m >= Cut
  <2>1. r = h \o t
    BY <1>2, <1>3, <1>4, <1>6 DEF FWritten
  <2>2. r \in Seq(FLine) /\ Len(r) = Len(h) + Len(t)
    BY <1>5, <1>8, <2>1, Joined
  <2>3. m \in Nat /\ m >= Cut
    BY <1>1, <1>7
  <2>4. Cut + (m - Cut) = m
    BY <1>1, <2>3
  <2>. QED BY <1>5, <1>8, <2>2, <2>3, <2>4
<1>10. ASSUME NEW k \in 1 .. m
       PROVE  r[k] = IF k <= Cut THEN s[k] ELSE f[k]
  <2>1. r = h \o t
    BY <1>2, <1>3, <1>4, <1>6 DEF FWritten
  <2>2. CASE k <= Cut
    <3>1. r[k] = h[k]
      <4>1. k \in 1 .. Len(h)
        BY <1>1, <1>5, <1>9, <2>2
      <4>. QED BY <1>5, <1>8, <2>1, <4>1, Joined
    <3>. QED BY <1>1, <1>5, <2>2, <3>1
  <2>3. CASE ~ (k <= Cut)
    <3>1. k - Cut \in 1 .. m - Cut
      BY <1>1, <1>9, <2>3
    <3>2. r[k] = t[k - Cut]
      <4>1. k - Cut \in 1 .. Len(t) /\ Len(h) + (k - Cut) = k
        BY <1>1, <1>5, <1>8, <3>1
      <4>2. PICK j \in 1 .. Len(t) : j = k - Cut
        BY <4>1
      <4>3. (h \o t)[Len(h) + j] = t[j]
        BY <1>5, <1>8, Joined
      <4>. QED BY <2>1, <4>1, <4>2, <4>3
    <3>3. t[k - Cut] = f[(k - Cut) + Cut] /\ (k - Cut) + Cut = k
      BY <1>1, <1>8, <3>1
    <3>. QED BY <2>3, <3>2, <3>3
  <2>. QED BY <2>2, <2>3
<1>. QED BY <1>2, <1>3, <1>7, <1>9, <1>10

\* With the block of a report the file is one of lines in their places, no
\* younger line after an older one.
LEMMA WriteKeeps ==
  ASSUME NEW v \in FViews, NEW s, NEW f, FReport(s, v), FCells(f, v), Len(s) > Cut
  PROVE  /\ FCells(FWritten(s, f), v) /\ FBlock(FWritten(s, f), v)
         /\ s[1].of = v.now /\ FFalling(f) => FFalling(FWritten(s, f))
<1>1. s \in Seq(FLine) /\ f \in Seq(FLine) /\ Cut \in Nat /\ Cut > 0
  BY FeedBounds DEF FReport, FCells
<1>2. PICK a \in Nat : a = Len(s)
  BY <1>1
<1>3. PICK b \in Nat : b = Len(f)
  BY <1>1
<1>7. PICK m : m = IF b > Cut THEN b ELSE Cut
  OBVIOUS
<1>8. PICK r : r = FWritten(s, f)
  OBVIOUS
<1>9. r \in Seq(FLine) /\ Len(r) = m /\ m \in Nat /\ m >= Cut
  <2>1. r \in Seq(FLine) /\ Len(r) = IF Len(f) > Cut THEN Len(f) ELSE Cut
    BY <1>1, <1>8, WrittenIs
  <2>. QED BY <1>1, <1>3, <1>7, <2>1
<1>10. \A k \in 1 .. m : r[k] = IF k <= Cut THEN s[k] ELSE f[k]
  <2>1. \A k \in 1 .. Len(r) : r[k] = IF k <= Cut THEN s[k] ELSE f[k]
    BY <1>1, <1>8, WrittenIs
  <2>. QED BY <1>9, <2>1
<1>11. ASSUME NEW k \in 1 .. m
       PROVE  /\ k <= Cut => FPlaced(s[k], k, v) /\ s[k].of = s[1].of
              /\ ~ (k <= Cut) => k \in 1 .. b /\ FPlaced(f[k], k, v)
  <2>1. k <= Cut => k \in 1 .. a
    BY <1>1, <1>2
  <2>2. k <= Cut => FPlaced(s[k], k, v) /\ s[k].of = s[1].of
    BY <1>2, <2>1 DEF FReport
  <2>3. ~ (k <= Cut) => k \in 1 .. b
    BY <1>3, <1>7
  <2>4. ~ (k <= Cut) => FPlaced(f[k], k, v)
    BY <1>3, <2>3 DEF FCells
  <2>. QED BY <2>2, <2>3, <2>4
<1>12. FCells(r, v)
  <2>1. ASSUME NEW k \in 1 .. m PROVE FPlaced(r[k], k, v)
    BY <1>10, <1>11
  <2>. QED BY <1>9, <2>1 DEF FCells
<1>13. FBlock(r, v)
  <2>1. ASSUME NEW k \in 1 .. Cut PROVE k <= Len(r) /\ r[k] # Feed!Hole
    <3>1. k \in 1 .. m
      BY <1>1, <1>9
    <3>2. FPlaced(r[k], k, v)
      BY <1>10, <1>11, <3>1
    <3>. QED BY <1>9, <3>1, <3>2, HolesAreNew
  <2>. QED BY <2>1 DEF FBlock
<1>14. ASSUME s[1].of = v.now, FFalling(f), NEW i \in 1 .. m, NEW j \in 1 .. m, i < j
       PROVE  r[i].of >= r[j].of
  <2>1. v.now \in Int
    BY DEF FViews
  <2>2. CASE j <= Cut
    <3>1. i <= Cut
      BY <1>1, <1>14, <2>2
    <3>2. r[i] = s[i] /\ r[j] = s[j]
      BY <1>10, <2>2, <3>1
    <3>3. s[i].of = s[1].of /\ s[j].of = s[1].of
      BY <1>11, <2>2, <3>1
    <3>4. r[i].of = v.now /\ r[j].of = v.now
      BY <1>14, <3>2, <3>3
    <3>. QED BY <2>1, <3>4
  <2>3. CASE ~ (j <= Cut) /\ i <= Cut
    <3>1. r[i].of = v.now
      <4>1. r[i] = s[i]
        BY <1>10, <2>3
      <4>2. s[i].of = s[1].of
        BY <1>11, <2>3
      <4>. QED BY <1>14, <4>1, <4>2
    <3>2. FPlaced(r[j], j, v)
      BY <1>10, <1>11, <2>3
    <3>3. r[j].of \in 0 .. v.now
      BY <3>2 DEF FPlaced
    <3>. QED BY <2>1, <3>1, <3>3
  <2>4. CASE ~ (j <= Cut) /\ ~ (i <= Cut)
    <3>1. i \in 1 .. b /\ j \in 1 .. b
      BY <1>11, <2>4
    <3>2. f[i].of >= f[j].of
      BY <1>3, <1>14, <3>1 DEF FFalling
    <3>3. r[i] = f[i] /\ r[j] = f[j]
      BY <1>10, <2>4
    <3>. QED BY <3>2, <3>3
  <2>. QED BY <2>2, <2>3, <2>4
<1>. QED BY <1>8, <1>9, <1>12, <1>13, <1>14 DEF FFalling

\* A report over an empty file, holes before it or not.
LEMMA FlushFalls ==
  ASSUME NEW v \in FViews, NEW s, FReport(s, v)
  PROVE  FFalling(Feed!Flushed(s, <<>>))
<1>1. s \in Seq(FLine) /\ <<>> \in Seq(FLine) /\ Len(<<>>) = 0
  BY DEF FReport
<1>2. PICK a \in Nat : a = Len(s)
  BY <1>1
<1>3. PICK r : r = Feed!Flushed(s, <<>>)
  OBVIOUS
<1>4. PICK e : e = <<>> /\ e \in Seq(FLine) /\ Len(e) = 0
  BY <1>1
<1>5. /\ Len(r) = a
      /\ \A k \in 1 .. a : r[k] = IF a > Cut => k > Cut THEN s[k] ELSE Feed!Hole
  <2>1. r = Feed!Flushed(s, e)
    BY <1>3, <1>4
  <2>2. Len(r) = (IF a >= 0 THEN a ELSE 0)
    BY <1>1, <1>2, <1>4, <2>1, FlushedIs
  <2>3. Len(r) = a
    BY <2>2
  <2>4. \A k \in 1 .. a : r[k] = IF a > Cut => k > Cut THEN s[k] ELSE Feed!Hole
    <3>1. \A k \in 1 .. Len(r) :
            r[k] = IF k <= Len(s) /\ (Len(s) > Cut => k > Cut) THEN s[k]
                   ELSE IF k <= Len(e) THEN e[k] ELSE Feed!Hole
      <4>1. s \in Seq(FLine) /\ e \in Seq(FLine)
        BY <1>1, <1>4
      <4>2. \A k \in 1 .. Len(Feed!Flushed(s, e)) :
              Feed!Flushed(s, e)[k] =
                IF k <= Len(s) /\ (Len(s) > Cut => k > Cut) THEN s[k]
                ELSE IF k <= Len(e) THEN e[k] ELSE Feed!Hole
        BY <4>1, FlushedIs
      <4>. QED BY <2>1, <4>2, Zenon
    <3>2. ASSUME NEW k \in 1 .. a PROVE r[k] = IF a > Cut => k > Cut THEN s[k] ELSE Feed!Hole
      <4>1. k \in 1 .. Len(r) /\ k <= Len(s) /\ ~ (k <= Len(e))
        BY <1>2, <1>4, <2>3
      <4>. QED BY <1>2, <3>1, <4>1
    <3>. QED BY <3>2
  <2>. QED BY <2>3, <2>4
<1>6. ASSUME NEW i \in 1 .. a, NEW j \in 1 .. a, i < j PROVE r[i].of >= r[j].of
  <2>1. FPlaced(s[i], i, v) /\ FPlaced(s[j], j, v) /\ s[i].of = s[1].of /\ s[j].of = s[1].of
    BY <1>2 DEF FReport
  <2>2. s[j].of \in 0 .. v.now /\ v.now \in Int
    BY <2>1 DEF FPlaced, FViews
  <2>3. Feed!Hole.of > v.now /\ Feed!Hole.of \in Int
    BY <2>1, HolesAreNew, FeedBounds DEF Feed!Hole, Feed!Line, Feed!Never
  <2>4. r[i] = s[i] \/ r[i] = Feed!Hole
    BY <1>5
  <2>5. r[j] = s[j] \/ (r[j] = Feed!Hole /\ r[i] = Feed!Hole)
    BY <1>2, <1>5, <1>6, FeedBounds
  <2>. QED BY <2>1, <2>2, <2>3, <2>4, <2>5
<1>. QED BY <1>3, <1>5, <1>6 DEF FFalling
-----------------------------------------------------------------------------
(***************************************************************************)
(* The comparison.                                                         *)
(***************************************************************************)
\* Whose lines those of a report are.
LEMMA PidsAt ==
  ASSUME NEW v \in FViews, NEW n \in Int
  PROVE  /\ \A k \in 1 .. FCount(v) : FAt(k, n, v).pid = Feed!Ascending(v.listed)[k]
                                      /\ FAt(k, n, v).pid \in v.listed
         /\ FAt(FCount(v) + 1, n, v).pid = Feed!PsPid(n)
         /\ FAt(FCount(v) + 2, n, v).pid = Feed!Clock
<1>1. PICK S : S = v.listed
  OBVIOUS
<1>2. S \subseteq Proc /\ Proc \subseteq Int
  BY <1>1, FeedBounds DEF FViews
<1>3. IsFiniteSet(S) /\ S \subseteq Int
  BY <1>2, FeedBounds, FS_Subset
<1>4. PICK s \in [1 .. Cardinality(S) -> S] : Cardinality(S) \in Nat /\ s = Feed!Ascending(S)
  BY <1>3, InOrderOf
<1>5. PICK m : m = FCount(v)
  OBVIOUS
<1>6. Cardinality(S) = m
  BY <1>1, <1>5 DEF FCount
<1>7. s \in Seq(Int) /\ Len(s) = m /\ m \in Nat
  <2>1. s \in [1 .. m -> Int]
    BY <1>3, <1>4, <1>6
  <2>. QED BY <1>4, <1>6, <2>1
<1>8. PICK t : t = Append(s, Feed!PsPid(n))
  OBVIOUS
<1>9. t \in Seq(Int) /\ Len(t) = m + 1 /\ t[m + 1] = Feed!PsPid(n) /\ \A k \in 1 .. m : t[k] = s[k]
  BY <1>7, <1>8 DEF Feed!PsPid
<1>10. PICK u : u = Append(t, Feed!Clock)
  OBVIOUS
<1>11. u[m + 2] = Feed!Clock /\ \A k \in 1 .. m + 1 : u[k] = t[k]
  BY <1>7, <1>9, <1>10 DEF Feed!Clock
<1>12. \A k \in Int : FAt(k, n, v).pid = u[k]
  BY <1>1, <1>4, <1>8, <1>10 DEF FAt, Feed!Line
<1>13. ASSUME NEW k \in 1 .. m PROVE FAt(k, n, v).pid = s[k] /\ s[k] \in S
  BY <1>4, <1>6, <1>7, <1>9, <1>11, <1>12
<1>14. FAt(m + 1, n, v).pid = Feed!PsPid(n) /\ FAt(m + 2, n, v).pid = Feed!Clock
  BY <1>7, <1>9, <1>11, <1>12
<1>. QED BY <1>1, <1>4, <1>5, <1>13, <1>14

\* A file that is compared, with no line from before the last change, has the
\* lines of one report after another, as they are now.
LEMMA GoodFileIs ==
  ASSUME NEW v \in FViews, NEW f, FCells(f, v), FBlock(f, v), f # <<>>,
         Last(f).pid = Feed!Clock, f[1] # Feed!Hole, \A k \in 1 .. Len(f) : f[k].of > v.since
  PROVE  /\ Len(f) = FCount(v) + 2
         /\ \A k \in 1 .. Len(f) : f[k].of \in 0 .. v.now /\ f[k] = FAt(k, f[k].of, v)
<1>1. f \in Seq(FLine)
  BY DEF FCells
<1>2. PICK b \in Nat : b = Len(f)
  BY <1>1
<1>3. b > 0
  BY <1>1, <1>2
<1>4. PICK m \in Nat : m = FCount(v)
  BY LinesAt
<1>5. Cut \in Nat /\ Cut > 0
  BY FeedBounds
<1>6. \A k \in 1 .. Cut : k <= m + 1 => k <= b /\ f[k] # Feed!Hole
  <2>1. f[1].of > v.since
    BY <1>2, <1>3
  <2>. QED BY <1>2, <1>4, <2>1 DEF FBlock
<1>7. f[b].pid = Feed!Clock
  BY <1>1, <1>2, <1>3 DEF Last
<1>8. f[b] # Feed!Hole
  BY <1>7 DEF Feed!Hole, Feed!Line, Feed!Clock
<1>9. ASSUME NEW k \in 1 .. b, f[k] # Feed!Hole
      PROVE  f[k].of \in 0 .. v.now /\ k <= m + 2 /\ f[k] = FAt(k, f[k].of, v)
  <2>1. FPlaced(f[k], k, v)
    BY <1>2, <1>9 DEF FCells
  <2>2. f[k].of > v.since
    BY <1>2
  <2>. QED BY <1>4, <2>1, <2>2 DEF FPlaced
<1>10. b = m + 2
  <2>1. b \in 1 .. b
    BY <1>3
  <2>2. PICK n : n = f[b].of
    OBVIOUS
  <2>3. n \in 0 .. v.now /\ b <= m + 2 /\ f[b] = FAt(b, n, v)
    BY <1>8, <1>9, <2>1, <2>2
  <2>4. n \in Int /\ n >= 0
    BY <2>3 DEF FViews
  <2>5. Feed!Clock = -1
    BY DEF Feed!Clock
  <2>6. CASE b <= m
    <3>1. b \in 1 .. m
      BY <1>3, <2>6
    <3>2. FAt(b, n, v).pid \in v.listed
      BY <1>4, <2>4, <3>1, PidsAt
    <3>3. v.listed \subseteq 1 .. 99
      BY FeedBounds DEF FViews
    <3>4. FAt(b, n, v).pid \in 1 .. 99
      BY <3>2, <3>3
    <3>5. -1 \in 1 .. 99
      BY <1>7, <2>3, <2>5, <3>4
    <3>. QED BY <3>5
  <2>7. CASE b = m + 1
    <3>1. FAt(b, n, v).pid = Feed!PsPid(n)
      BY <1>4, <2>4, <2>7, PidsAt
    <3>. QED BY <1>7, <2>3, <2>4, <2>5, <3>1 DEF Feed!PsPid
  <2>. QED BY <2>3, <2>6, <2>7
<1>11. ASSUME NEW k \in 1 .. b PROVE f[k] # Feed!Hole
  <2>1. CASE k = b
    BY <1>8, <2>1
  <2>2. CASE k # b
    <3>1. k <= m + 1
      BY <1>10, <2>2
    <3>2. k <= Cut => f[k] # Feed!Hole
      BY <1>6, <3>1
    <3>3. ~ (k <= Cut) => FPlaced(f[k], k, v)
      BY <1>2 DEF FCells
    <3>. QED BY <3>2, <3>3, HolesAreNew
  <2>. QED BY <2>1, <2>2
<1>. QED BY <1>2, <1>4, <1>9, <1>10, <1>11

\* The lines f list U of the processes S that a walk met, of which there are m and a.
FCompares(f, U, S, m, a, y) ==
  /\ S \subseteq Proc /\ U \subseteq S /\ m = Cardinality(U) /\ a = Cardinality(S)
  /\ m \in Nat /\ a \in Nat /\ y \in Nat /\ f \in Seq(FLine) /\ Len(f) = m + 2
  /\ \A k \in 1 .. m : f[k].pid = Feed!Ascending(U)[k]
  /\ f[m + 1].pid = Feed!PsPid(y) /\ f[m + 2].pid = Feed!Clock
  /\ psoutlist \in Seq(Int) /\ Len(psoutlist) >= a
  /\ \A j \in 1 .. a : psoutlist[j] = Feed!Ascending(S)[j]
  /\ \A j \in a + 1 .. Len(psoutlist) : psoutlist[j] \in Feed!PsOrLsmod

\* Of two lists in the order of the pids, the merge misses in the one what the
\* other does not have.
LEMMA MissedAre ==
  ASSUME NEW f, NEW U, NEW S, NEW m, NEW a, NEW y, FCompares(f, U, S, m, a, y)
  PROVE  Feed!Missed(f) \ Feed!PsOrLsmod = S \ U
<1>0. m \in Nat /\ a \in Nat /\ y \in Nat /\ S \subseteq Proc /\ U \subseteq S /\ U \subseteq Proc /\ Proc \subseteq 1 .. 99
  BY FeedBounds DEF FCompares
<1>a. m = Cardinality(U) /\ a = Cardinality(S)
  BY DEF FCompares
<1>b. /\ f \in Seq(FLine) /\ Len(f) = m + 2 /\ \A k \in 1 .. m : f[k].pid = Feed!Ascending(U)[k]
      /\ f[m + 1].pid = Feed!PsPid(y) /\ f[m + 2].pid = Feed!Clock
  BY DEF FCompares
<1>c. /\ psoutlist \in Seq(Int) /\ Len(psoutlist) >= a
      /\ \A j \in 1 .. a : psoutlist[j] = Feed!Ascending(S)[j]
      /\ \A j \in a + 1 .. Len(psoutlist) : psoutlist[j] \in Feed!PsOrLsmod
  BY DEF FCompares
<1>1. S \subseteq Int /\ U \subseteq Int /\ IsFiniteSet(S) /\ IsFiniteSet(U)
  <2>1. IsFiniteSet(S) /\ IsFiniteSet(U)
    BY <1>0, FeedBounds, FS_Subset
  <2>. QED BY <1>0, <2>1
<1>2. PICK A \in [1 .. a -> S] :
        /\ A = Feed!Ascending(S)
        /\ \A i, j \in 1 .. a : i < j => A[i] < A[j]
        /\ \A p \in S : \E i \in 1 .. a : A[i] = p
  <2>1. PICK s \in [1 .. Cardinality(S) -> S] :
          /\ Cardinality(S) \in Nat /\ s = Feed!Ascending(S)
          /\ \A i, j \in 1 .. Cardinality(S) : i < j => s[i] < s[j]
          /\ \A p \in S : \E i \in 1 .. Cardinality(S) : s[i] = p
    BY <1>1, InOrderOf
  <2>. QED BY <1>a, <2>1
<1>3. PICK L \in [1 .. m -> U] :
        /\ L = Feed!Ascending(U)
        /\ \A i, j \in 1 .. m : i < j => L[i] < L[j]
        /\ \A p \in U : \E i \in 1 .. m : L[i] = p
  <2>1. PICK s \in [1 .. Cardinality(U) -> U] :
          /\ Cardinality(U) \in Nat /\ s = Feed!Ascending(U)
          /\ \A i, j \in 1 .. Cardinality(U) : i < j => s[i] < s[j]
          /\ \A p \in U : \E i \in 1 .. Cardinality(U) : s[i] = p
    BY <1>1, InOrderOf
  <2>. QED BY <1>a, <2>1
<1>4. PICK P : P = psoutlist
  OBVIOUS
<1>5. PICK N \in Nat : N = Len(P)
  BY <1>4, <1>c
<1>6. /\ N >= a /\ P \in Seq(Int)
      /\ \A j \in 1 .. a : P[j] = A[j]
      /\ \A j \in a + 1 .. N : P[j] \in Feed!PsOrLsmod
  BY <1>2, <1>4, <1>5, <1>c
<1>7. \A i, j \in 1 .. a : A[i] = A[j] => i = j
  <2>1. ASSUME NEW i \in 1 .. a, NEW j \in 1 .. a, A[i] = A[j] PROVE i = j
    <3>1. A[i] \in Int /\ A[j] \in Int /\ i \in Int /\ j \in Int
      <4>1. A[i] \in S /\ A[j] \in S
        BY <1>2
      <4>2. A[i] \in Int /\ A[j] \in Int
        BY <1>1, <4>1
      <4>. QED BY <1>0, <4>2
    <3>2. ~ (i < j) /\ ~ (j < i)
      BY <1>0, <1>2, <2>1, <3>1
    <3>. QED BY <1>0, <3>1, <3>2
  <2>. QED BY <1>0, <2>1
\* Where in the walk the lines are.
<1>8. PICK h : h = [k \in 1 .. m |-> CHOOSE j \in 1 .. a : A[j] = L[k]]
  OBVIOUS
<1>9. \A k \in 1 .. m : h[k] \in 1 .. a /\ A[h[k]] = L[k]
  <2>1. ASSUME NEW k \in 1 .. m PROVE \E j \in 1 .. a : A[j] = L[k]
    <3>1. L[k] \in S
      BY <1>0, <1>3
    <3>. QED BY <1>0, <1>2, <3>1
  <2>. QED BY <1>0, <1>8, <2>1
<1>10. ASSUME NEW i \in 1 .. m, NEW j \in 1 .. m, i < j PROVE h[i] < h[j]
  <2>1. h[i] \in 1 .. a /\ h[j] \in 1 .. a /\ A[h[i]] = L[i] /\ A[h[j]] = L[j]
    BY <1>0, <1>9
  <2>2. L[i] \in Int /\ L[j] \in Int /\ L[i] < L[j]
    BY <1>0, <1>1, <1>3, <1>10
  <2>3. h[i] # h[j]
    BY <1>0, <2>1, <2>2
  <2>4. ~ (h[j] < h[i])
    <3>1. h[j] < h[i] => A[h[j]] < A[h[i]]
      BY <1>0, <1>2, <2>1
    <3>. QED BY <1>0, <2>1, <2>2, <3>1
  <2>. QED BY <1>0, <2>1, <2>3, <2>4
\* An unlisted process is at the place of no line.
<1>11. ASSUME NEW j \in 1 .. a PROVE A[j] \in U <=> \E i \in 1 .. m : h[i] = j
  <2>1. ASSUME A[j] \in U PROVE \E i \in 1 .. m : h[i] = j
    <3>1. PICK i \in 1 .. m : L[i] = A[j]
      BY <1>0, <1>3, <2>1
    <3>2. h[i] = j
      BY <1>0, <1>7, <1>9, <3>1
    <3>. QED BY <1>0, <3>2
  <2>2. ASSUME NEW i \in 1 .. m, h[i] = j PROVE A[j] \in U
    BY <1>0, <1>3, <1>9, <2>2
  <2>. QED BY <1>0, <2>1, <2>2
<1>12. PICK e : e = Feed!Until(IF m = 0 THEN 1 ELSE h[m] + 1, Feed!PsPid(y))
  OBVIOUS
<1>13. PICK g : g = [k \in 0 .. m + 2 |->
                      IF k = 0 THEN 1
                      ELSE IF k <= m THEN h[k] + 1 ELSE IF k = m + 1 THEN e + 1 ELSE e + 2]
  OBVIOUS
<1>14. /\ g[0] = 1 /\ g[m + 1] = e + 1 /\ g[m + 2] = e + 2
       /\ \A k \in 1 .. m : g[k] = h[k] + 1
       /\ g[m] = IF m = 0 THEN 1 ELSE h[m] + 1
  BY <1>0, <1>13
<1>15. g[m] \in 1 .. a + 1
  <2>1. m # 0 => h[m] \in 1 .. a
    BY <1>0, <1>9
  <2>. QED BY <1>0, <1>14, <2>1
<1>16. e \in a + 1 .. N + 1 /\ e >= g[m]
  <2>1. g[m] \in 1 .. Len(psoutlist) + 1 /\ Feed!PsPid(y) \in Int /\ Feed!PsPid(y) # Feed!Clock
    BY <1>0, <1>4, <1>5, <1>6, <1>15 DEF Feed!PsPid, Feed!Clock
  <2>2. e = Feed!Until(g[m], Feed!PsPid(y))
    BY <1>0, <1>12, <1>14
  <2>3. e \in g[m] .. N + 1 /\ (e <= N => P[e] = Feed!PsPid(y))
    BY <1>4, <1>5, <1>c, <2>1, <2>2, UntilStops
  <2>4. ~ (e <= a)
    <3>. SUFFICES ASSUME e <= a PROVE FALSE
      OBVIOUS
    <3>1. e \in 1 .. a /\ e <= N
      BY <1>0, <1>6, <1>15, <2>3
    <3>2. P[e] = A[e] /\ P[e] = Feed!PsPid(y)
      BY <1>0, <1>6, <2>3, <3>1
    <3>3. A[e] \in 1 .. 99
      <4>1. A[e] \in S
        BY <1>2, <3>1
      <4>. QED BY <1>0, <4>1
    <3>. QED BY <1>0, <3>2, <3>3 DEF Feed!PsPid
  <2>. QED BY <1>0, <1>15, <2>3, <2>4
<1>17. ASSUME NEW k \in 1 .. m PROVE Feed!Until(g[k - 1], f[k].pid) = h[k]
  <2>1. h[k] \in 1 .. a /\ A[h[k]] = L[k] /\ f[k].pid = L[k]
    BY <1>3, <1>9, <1>b
  <2>2. g[k - 1] \in 1 .. h[k]
    <3>1. CASE k = 1
      BY <1>0, <1>14, <2>1, <3>1
    <3>2. CASE k # 1
      <4>1. k - 1 \in 1 .. m /\ k - 1 < k
        BY <1>0, <3>2
      <4>2. PICK i \in 1 .. m : i = k - 1
        BY <1>0, <4>1
      <4>3. h[i] < h[k] /\ h[i] \in 1 .. a /\ g[i] = h[i] + 1
        BY <1>0, <1>9, <1>10, <1>14, <4>1, <4>2
      <4>. QED BY <1>0, <2>1, <4>2, <4>3
    <3>. QED BY <1>0, <3>1, <3>2
  <2>3. L[k] \in 1 .. 99 /\ L[k] \in Int /\ L[k] # Feed!Clock
    <3>1. L[k] \in 1 .. 99
      <4>1. L[k] \in U
        BY <1>3
      <4>. QED BY <1>0, <4>1
    <3>2. PICK z : z = L[k]
      OBVIOUS
    <3>3. z \in 1 .. 99
      BY <3>1, <3>2
    <3>4. z \in Int /\ z # Feed!Clock
      BY <3>3 DEF Feed!Clock
    <3>. QED BY <3>1, <3>2, <3>4
  <2>4. PICK q : q = g[k - 1]
    OBVIOUS
  <2>5. PICK u : u = Feed!Until(q, L[k])
    OBVIOUS
  <2>6. q \in 1 .. Len(psoutlist) + 1
    BY <1>0, <1>4, <1>5, <1>6, <2>1, <2>2, <2>4
  <2>7. /\ u \in q .. N + 1 /\ (u <= N => P[u] = L[k])
        /\ \A j \in q .. N : P[j] = L[k] => u <= j
    BY <1>4, <1>5, <1>c, <2>3, <2>5, <2>6, UntilStops
  <2>8. u <= h[k]
    <3>1. PICK z : z = h[k]
      OBVIOUS
    <3>2. z \in 1 .. a /\ q \in 1 .. z /\ A[z] = L[k]
      BY <2>1, <2>2, <2>4, <3>1
    <3>3. z \in q .. N /\ P[z] = A[z]
      BY <1>0, <1>6, <3>2
    <3>4. u <= z
      BY <2>7, <3>2, <3>3
    <3>. QED BY <3>1, <3>4
  <2>9. u \in 1 .. a /\ u <= N
    BY <1>0, <1>6, <2>1, <2>2, <2>4, <2>7, <2>8
  <2>10. A[u] = A[h[k]]
    BY <1>0, <1>6, <2>1, <2>7, <2>9
  <2>11. u = h[k]
    BY <1>0, <1>7, <2>1, <2>9, <2>10
  <2>. QED BY <1>0, <2>1, <2>4, <2>5, <2>11
<1>18. ASSUME NEW k \in 1 .. m + 2 PROVE g[k] = Feed!Until(g[k - 1], f[k].pid) + 1
  <2>1. CASE k <= m
    <3>1. k \in 1 .. m
      BY <1>0, <2>1
    <3>. QED BY <1>0, <1>14, <1>17, <3>1
  <2>2. CASE k = m + 1
    <3>1. k - 1 = m
      BY <1>0, <2>2
    <3>2. f[k].pid = Feed!PsPid(y)
      BY <1>b, <2>2
    <3>3. Feed!Until(g[m], Feed!PsPid(y)) = e
      BY <1>12, <1>14
    <3>. QED BY <1>14, <2>2, <3>1, <3>2, <3>3
  <2>3. CASE k = m + 2
    <3>1. k - 1 = m + 1 /\ f[k].pid = Feed!Clock
      BY <1>0, <1>b, <2>3
    <3>2. Feed!Until(g[k - 1], f[k].pid) = g[k - 1]
      BY <1>0, <3>1 DEF Feed!Until
    <3>. QED BY <1>0, <1>14, <1>16, <2>3, <3>1, <3>2
  <2>. QED BY <1>0, <2>1, <2>2, <2>3
<1>19. Feed!Places(f) = g
  <2>1. g = [k \in 0 .. m + 2 |-> g[k]]
    BY <1>0, <1>13
  <2>2. [k \in 0 .. m + 2 |-> g[k]] = [k \in 0 .. m + 2 |-> IF k = 0 THEN 1 ELSE Feed!Until(g[k - 1], f[k].pid) + 1]
    BY <1>0, <1>14, <1>18
  <2>3. g = [k \in 0 .. Len(f) |-> IF k = 0 THEN 1 ELSE Feed!Until(g[k - 1], f[k].pid) + 1]
    BY <1>b, <2>1, <2>2
  <2>. QED BY <1>b, <2>3, PlacesAre
<1>20. Feed!Missed(f) = {P[j] : j \in UNION {g[n - 1] .. g[n] - 2 : n \in 1 .. m + 2}}
  BY <1>4, <1>19, <1>b DEF Feed!Missed
<1>21. ASSUME NEW x \in Feed!Missed(f), x \notin Feed!PsOrLsmod PROVE x \in S /\ x \notin U
  <2>0. PICK j : j \in UNION {g[n - 1] .. g[n] - 2 : n \in 1 .. m + 2} /\ x = P[j]
    BY <1>20, <1>21
  <2>1. x = P[j]
    BY <2>0
  <2>2. PICK n \in 1 .. m + 2 : j \in g[n - 1] .. g[n] - 2
    BY <2>0
  <2>3. ASSUME j \in 1 .. a, \A i \in 1 .. m : h[i] # j PROVE x \in S /\ x \notin U
    <3>1. x = A[j]
      BY <1>0, <1>6, <2>1, <2>3
    <3>2. A[j] \in S
      BY <1>0, <1>2, <2>3
    <3>3. A[j] \notin U
      BY <1>0, <1>11, <2>3
    <3>. QED BY <1>0, <3>1, <3>2, <3>3
  <2>4. CASE n = 1 /\ m > 0
    <3>1. 1 \in 1 .. m /\ n - 1 = 0
      BY <1>0, <2>4
    <3>2. g[n - 1] = 1 /\ g[n] = h[1] + 1 /\ h[1] \in 1 .. a
      BY <1>0, <1>9, <1>14, <2>4, <3>1
    <3>3. j \in 1 .. a /\ j < h[1]
      BY <1>0, <2>2, <3>2
    <3>4. ASSUME NEW i \in 1 .. m PROVE h[i] # j
      <4>1. i = 1 \/ h[1] < h[i]
        BY <1>0, <1>10, <3>1
      <4>. QED BY <1>0, <1>9, <3>2, <3>3, <4>1
    <3>. QED BY <1>0, <2>3, <3>3, <3>4
  <2>5. CASE n \in 2 .. m
    <3>1. PICK q \in 1 .. m : q = n - 1
      BY <1>0, <2>5
    <3>2. n \in 1 .. m
      BY <1>0, <2>5
    <3>3. g[q] = h[q] + 1 /\ g[n] = h[n] + 1 /\ h[q] \in 1 .. a /\ h[n] \in 1 .. a
      BY <1>0, <1>9, <1>14, <3>1, <3>2
    <3>4. j \in 1 .. a /\ h[q] < j /\ j < h[n]
      <4>1. j \in h[q] + 1 .. h[n] + 1 - 2
        BY <1>0, <2>2, <3>1, <3>3
      <4>. QED BY <1>0, <3>3, <4>1
    <3>5. ASSUME NEW i \in 1 .. m PROVE h[i] # j
      <4>1. h[i] \in 1 .. a
        BY <1>0, <1>9
      <4>2. CASE i = q \/ i = n
        BY <1>0, <3>3, <3>4, <4>2
      <4>3. CASE i < q
        <5>1. h[i] < h[q]
          BY <1>0, <1>10, <4>3
        <5>. QED BY <1>0, <3>3, <3>4, <4>1, <5>1
      <4>4. CASE i > n
        <5>1. h[n] < h[i]
          BY <1>0, <1>10, <3>2, <4>4
        <5>. QED BY <1>0, <3>3, <3>4, <4>1, <5>1
      <4>. QED BY <1>0, <3>1, <3>2, <4>2, <4>3, <4>4
    <3>. QED BY <1>0, <2>3, <3>4, <3>5
  <2>6. CASE n = m + 1
    <3>1. n - 1 = m
      BY <1>0, <2>6
    <3>2. g[n] - 2 = e - 1 /\ g[n] = e + 1
      BY <1>0, <1>14, <1>16, <2>6
    <3>3. j \in g[m] .. e - 1
      BY <1>0, <2>2, <3>1, <3>2
    <3>4. j \in 1 .. N
      BY <1>0, <1>15, <1>16, <3>3
    <3>5. j \in 1 .. a
      <4>1. j \notin a + 1 .. N
        BY <1>0, <1>6, <1>21, <2>1
      <4>. QED BY <1>0, <3>4, <4>1
    <3>6. ASSUME NEW i \in 1 .. m PROVE h[i] # j
      <4>1. m \in 1 .. m /\ m # 0 /\ h[i] \in 1 .. a /\ h[m] \in 1 .. a
        BY <1>0, <1>9
      <4>2. i = m \/ h[i] < h[m]
        BY <1>0, <1>10, <4>1
      <4>3. h[m] < j
        BY <1>0, <1>14, <3>3, <4>1
      <4>. QED BY <1>0, <4>1, <4>2, <4>3
    <3>. QED BY <1>0, <2>3, <3>5, <3>6
  <2>7. CASE n = m + 2
    <3>1. n - 1 = m + 1
      BY <1>0, <2>7
    <3>2. g[n - 1] = e + 1 /\ g[n] = e + 2
      BY <1>0, <1>14, <2>7, <3>1
    <3>3. PICK p, q : p = g[n - 1] /\ q = g[n]
      OBVIOUS
    <3>4. j \in p .. q - 2
      BY <2>2, <3>3
    <3>5. p = e + 1 /\ q = e + 2 /\ e \in Int
      BY <1>0, <1>16, <3>2, <3>3
    <3>. QED BY <3>4, <3>5
  <2>. QED BY <1>0, <2>4, <2>5, <2>6, <2>7
<1>22. ASSUME NEW x \in S, x \notin U PROVE x \in Feed!Missed(f) /\ x \notin Feed!PsOrLsmod
  <2>1. PICK j \in 1 .. a : A[j] = x
    BY <1>0, <1>2
  <2>2. x \in 1 .. 99
    BY <1>0, <1>22
  <2>3. x \notin Feed!PsOrLsmod
    <3>1. \A n \in Int : n >= 1 => Feed!PsPid(n) > 100
      BY DEF Feed!PsPid
    <3>. QED BY <1>0, <2>2, <3>1 DEF Feed!PsOrLsmod
  <2>4. P[j] = x /\ \A i \in 1 .. m : h[i] # j
    BY <1>0, <1>6, <1>11, <1>22, <2>1
  <2>5. ASSUME NEW n \in 1 .. m + 2, j \in g[n - 1] .. g[n] - 2 PROVE x \in Feed!Missed(f)
    BY <1>0, <1>20, <2>4, <2>5
  <2>6. PICK T : T = {k \in 1 .. m : h[k] > j}
    OBVIOUS
  <2>7. CASE T = {}
    <3>1. g[m] <= j
      <4>1. CASE m = 0
        BY <1>0, <1>14, <4>1
      <4>2. CASE m # 0
        <5>1. m \in 1 .. m /\ h[m] \in 1 .. a /\ g[m] = h[m] + 1
          BY <1>0, <1>9, <1>14, <4>2
        <5>2. ~ (h[m] > j) /\ h[m] # j
          BY <1>0, <2>4, <2>6, <2>7, <5>1
        <5>. QED BY <1>0, <5>1, <5>2
      <4>. QED BY <1>0, <4>1, <4>2
    <3>2. j <= e - 1
      BY <1>0, <1>16
    <3>3. PICK n \in 1 .. m + 2 : n = m + 1
      BY <1>0
    <3>4. g[n - 1] = g[m] /\ g[n] - 2 = e - 1
      BY <1>0, <1>14, <1>16, <3>3
    <3>5. j \in g[n - 1] .. g[n] - 2
      BY <1>0, <1>15, <1>16, <3>1, <3>2, <3>4
    <3>. QED BY <2>3, <2>5, <3>5
  <2>8. CASE T # {}
    <3>1. T \subseteq Nat
      BY <1>0, <2>6
    <3>2. PICK k \in T : \A i \in T : k <= i
      BY <1>0, <2>8, <3>1, LeastElement
    <3>3. k \in 1 .. m /\ h[k] > j /\ h[k] \in 1 .. a /\ g[k] = h[k] + 1
      BY <1>0, <1>9, <1>14, <2>6, <3>2
    <3>4. g[k - 1] \in 1 .. j
      <4>1. CASE k = 1
        BY <1>0, <1>14, <4>1
      <4>2. CASE k # 1
        <5>1. PICK q \in 1 .. m : q = k - 1
          BY <1>0, <3>3, <4>2
        <5>2. q \notin T
          BY <1>0, <3>2, <3>3, <5>1
        <5>3. h[q] \in 1 .. a /\ g[q] = h[q] + 1 /\ ~ (h[q] > j) /\ h[q] # j
          BY <1>0, <1>9, <1>14, <2>4, <2>6, <5>1, <5>2
        <5>. QED BY <1>0, <5>1, <5>3
      <4>. QED BY <1>0, <4>1, <4>2
    <3>5. PICK n \in 1 .. m + 2 : n = k
      BY <1>0, <3>3
    <3>6. j \in g[n - 1] .. g[n] - 2
      BY <1>0, <3>3, <3>4, <3>5
    <3>. QED BY <2>3, <2>5, <3>6
  <2>. QED BY <1>0, <2>3, <2>7, <2>8
<1>. QED BY <1>0, <1>21, <1>22

-----------------------------------------------------------------------------
(***************************************************************************)
(* What holds after every step.                                            *)
(***************************************************************************)
FGuest ==
  /\ alive \subseteq Proc /\ unlisted \subseteq Proc
  /\ changed \in Int /\ clock \in 0 .. MaxReports /\ changed <= clock /\ conn \in 1 .. MaxConns

\* Reports on their way, held back and in the file.
FDisk ==
  /\ FReport(chan, FView) /\ (chan # <<>> => chan[1].of = clock)
  /\ buf \in [1 .. MaxConns -> Seq(FLine)] /\ \A c \in 1 .. MaxConns : FReport(buf[c], FView)
  /\ FCells(file, FView) /\ FBlock(file, FView)
  /\ conn = 1 => FFalling(file) /\ (step = "open" => file = <<>>)

\* Nothing is wrong with nothing.
LEMMA NoLines ==
  ASSUME NEW v
  PROVE  FReport(<<>>, v) /\ FCells(<<>>, v) /\ FBlock(<<>>, v) /\ FFalling(<<>>)
<1>0. <<>> \in Seq(FLine) /\ Len(<<>>) = 0
  OBVIOUS
<1>1. PICK e : e = <<>> /\ e \in Seq(FLine) /\ Len(e) = 0
  BY <1>0
<1>2. \A k \in 1 .. Len(e) : FALSE
  BY <1>1
<1>3. FReport(e, v) /\ FCells(e, v) /\ FBlock(e, v) /\ FFalling(e)
  BY <1>1, <1>2 DEF FReport, FCells, FBlock, FFalling
<1>. QED BY <1>1, <1>3

\* The views before and after a step.
LEMMA FeedViews ==
  ASSUME FGuest, Feed!Next
  PROVE  FGuest' /\ FView \in FViews /\ FView' \in FViews /\ FLater(FView, FView')
<1>1. FView \in FViews
  BY FeedBounds DEF FGuest, FView, FViews
<1>2. FGuest'
  <2>1. MaxReports \in Nat /\ MaxConns \in Nat
    BY FeedBounds
  <2>2. ASSUME NEW p \in Proc, Feed!Change(p) PROVE FGuest'
    BY <2>1, <2>2 DEF FGuest, Feed!Change
  <2>3. CASE Feed!Report
    BY <2>1, <2>3 DEF FGuest, Feed!Report, Feed!guest
  <2>4. CASE Feed!Reconnect
    BY <2>1, <2>4 DEF FGuest, Feed!Reconnect, Feed!guest
  <2>5. CASE Feed!handle
    BY <2>5 DEF FGuest, Feed!handle, Feed!Discard, Feed!Recv, Feed!Rebind, Feed!writelines, Feed!HandlerEnds, Feed!guest
  <2>6. CASE Feed!Walk
    BY <2>6 DEF FGuest, Feed!Walk, Feed!guest
  <2>7. CASE Feed!getOutPsNum
    BY <2>7 DEF FGuest, Feed!getOutPsNum, Feed!guest
  <2>. QED BY <2>2, <2>3, <2>4, <2>5, <2>6, <2>7 DEF Feed!Next
<1>3. FView' \in FViews
  BY <1>2, FeedBounds DEF FGuest, FView, FViews
<1>4. (clock' >= clock /\ alive' = alive /\ unlisted' = unlisted /\ changed' = changed)
      \/ (clock' = clock /\ changed' = clock)
  <2>1. clock \in Int
    BY DEF FGuest
  <2>2. ASSUME NEW p \in Proc, Feed!Change(p) PROVE clock' = clock /\ changed' = clock
    BY <2>2 DEF Feed!Change
  <2>3. CASE Feed!Report
    BY <2>1, <2>3 DEF Feed!Report, Feed!guest
  <2>4. CASE Feed!Reconnect
    BY <2>1, <2>4 DEF Feed!Reconnect, Feed!guest
  <2>5. CASE Feed!handle
    BY <2>1, <2>5 DEF Feed!handle, Feed!Discard, Feed!Recv, Feed!Rebind, Feed!writelines, Feed!HandlerEnds, Feed!guest
  <2>6. CASE Feed!Walk
    BY <2>1, <2>6 DEF Feed!Walk, Feed!guest
  <2>7. CASE Feed!getOutPsNum
    BY <2>1, <2>7 DEF Feed!getOutPsNum, Feed!guest
  <2>. QED BY <2>2, <2>3, <2>4, <2>5, <2>6, <2>7 DEF Feed!Next
<1>5. FLater(FView, FView')
  BY <1>2, <1>4 DEF FLater, FView, FGuest
<1>. QED BY <1>1, <1>2, <1>3, <1>5

\* No step of the guest, of a handler or of the host puts a line out of its place.
LEMMA FeedDisk ==
  ASSUME FGuest, FDisk, Feed!Next
  PROVE  FDisk'
<1>1. PICK v \in FViews : v = FView
  BY FeedViews
<1>2. PICK w \in FViews : w = FView'
  BY FeedViews
<1>3. FLater(v, w)
  BY <1>1, <1>2, FeedViews
<1>4. FReport(chan, w) /\ (chan # <<>> => chan[1].of = clock)
  BY <1>1, <1>3, StaysReport DEF FDisk
<1>5. buf \in [1 .. MaxConns -> Seq(FLine)] /\ \A c \in 1 .. MaxConns : FReport(buf[c], w)
  <2>1. ASSUME NEW c \in 1 .. MaxConns PROVE FReport(buf[c], w)
    <3>1. FReport(buf[c], v)
      BY <1>1 DEF FDisk
    <3>. QED BY <1>3, <3>1, StaysReport
  <2>. QED BY <2>1 DEF FDisk
<1>6. FCells(file, w) /\ FBlock(file, w)
  BY <1>1, <1>3, StaysFile DEF FDisk
<1>7. conn = 1 => FFalling(file) /\ (step = "open" => file = <<>>)
  BY DEF FDisk
<1>8. conn \in 1 .. MaxConns /\ conn \in Int
  BY FeedBounds DEF FGuest
<1>9. SUFFICES
        /\ FReport(chan', w) /\ (chan' # <<>> => chan'[1].of = clock')
        /\ buf' \in [1 .. MaxConns -> Seq(FLine)] /\ \A c \in 1 .. MaxConns : FReport(buf'[c], w)
        /\ FCells(file', w) /\ FBlock(file', w)
        /\ conn' = 1 => FFalling(file') /\ (step' = "open" => file' = <<>>)
  BY <1>2 DEF FDisk
<1>10. ASSUME NEW p \in Proc, Feed!Change(p) PROVE UNCHANGED <<clock, chan, buf, file, conn, step>>
  BY <1>10 DEF Feed!Change, Feed!disk
<1>11. CASE UNCHANGED <<clock, chan, buf, file, conn, step>>
  BY <1>4, <1>5, <1>6, <1>7, <1>11
<1>12. CASE Feed!Report
  <2>1. /\ w.listed = alive \ unlisted /\ w.now = clock' /\ clock' # 0
        /\ UNCHANGED <<buf, file, conn, step>>
    BY <1>2, <1>12 DEF Feed!Report, FView, Feed!guest, Feed!disk, FGuest
  <2>2. PICK n : n = clock'
    OBVIOUS
  <2>3. FReport(chan', w) /\ chan' # <<>> => chan'[1].of = clock'
    <3>1. /\ FReport(Feed!Lines(n), w) /\ FReport(Append(Feed!Lines(n), Feed!Stamp(n)), w)
          /\ Feed!Lines(n)[1].of = n /\ Append(Feed!Lines(n), Feed!Stamp(n))[1].of = n
      BY <2>1, <2>2, ReportIs
    <3>2. chan' = Append(Feed!Lines(n), Feed!Stamp(n)) \/ chan' = Feed!Lines(n)
      BY <1>12, <2>2 DEF Feed!Report
    <3>. QED BY <2>2, <3>1, <3>2
  <2>4. FReport(chan', w)
    <3>1. /\ FReport(Feed!Lines(n), w) /\ FReport(Append(Feed!Lines(n), Feed!Stamp(n)), w)
      BY <2>1, <2>2, ReportIs
    <3>2. chan' = Append(Feed!Lines(n), Feed!Stamp(n)) \/ chan' = Feed!Lines(n)
      BY <1>12, <2>2 DEF Feed!Report
    <3>. QED BY <3>1, <3>2
  <2>. QED BY <1>5, <1>6, <1>7, <2>1, <2>3, <2>4
<1>13. CASE Feed!Reconnect
  <2>1. UNCHANGED <<buf, file>> /\ chan' = <<>> /\ conn' # 1
    BY <1>8, <1>13 DEF Feed!Reconnect
  <2>. QED BY <1>5, <1>6, <2>1, NoLines
<1>14. CASE Feed!Discard
  <2>1. UNCHANGED <<buf, file, conn>> /\ chan' = <<>> /\ step' = "recv"
    BY <1>14 DEF Feed!Discard
  <2>. QED BY <1>5, <1>6, <1>7, <2>1, NoLines
<1>15. CASE Feed!Recv
  <2>1. UNCHANGED <<buf, conn, clock>>
    BY <1>15 DEF Feed!Recv
  <2>2. CASE step' = "open" /\ file' = <<>> /\ UNCHANGED chan
    BY <1>4, <1>5, <2>1, <2>2, NoLines
  <2>3. CASE chan' = <<>> /\ UNCHANGED <<step, file>>
    BY <1>5, <1>6, <1>7, <2>1, <2>3, NoLines
  <2>. QED BY <1>15, <2>2, <2>3 DEF Feed!Recv
<1>16. CASE Feed!Rebind
  <2>1. UNCHANGED <<conn, clock, chan>> /\ step = "open" /\ step' = "write"
    BY <1>16 DEF Feed!Rebind
  <2>2. PICK s : s = buf[conn]
    OBVIOUS
  <2>3. FReport(s, w) /\ file' = Feed!Flushed(s, file) /\ buf' = [buf EXCEPT ![conn] = <<>>]
    BY <1>5, <1>8, <1>16, <2>2 DEF Feed!Rebind
  <2>4. FCells(file', w) /\ FBlock(file', w)
    BY <1>6, <2>3, FlushKeeps
  <2>5. conn = 1 => FFalling(file')
    BY <1>7, <2>1, <2>3, FlushFalls
  <2>6. buf' \in [1 .. MaxConns -> Seq(FLine)] /\ \A c \in 1 .. MaxConns : FReport(buf'[c], w)
    <3>1. <<>> \in Seq(FLine) /\ FReport(<<>>, w)
      BY NoLines
    <3>. QED BY <1>5, <1>8, <2>3, <3>1
  <2>. QED BY <1>4, <2>1, <2>4, <2>5, <2>6
<1>17. CASE Feed!writelines
  <2>1. UNCHANGED <<conn, clock>> /\ chan' = <<>> /\ step' = "recv" /\ buf' = [buf EXCEPT ![conn] = chan]
    BY <1>17 DEF Feed!writelines
  <2>2. buf' \in [1 .. MaxConns -> Seq(FLine)] /\ \A c \in 1 .. MaxConns : FReport(buf'[c], w)
    <3>1. chan \in Seq(FLine)
      BY <1>4 DEF FReport
    <3>. QED BY <1>4, <1>5, <1>8, <2>1, <3>1
  <2>3. FCells(file', w) /\ FBlock(file', w) /\ (conn = 1 => FFalling(file'))
    <3>1. CASE Len(chan) > Cut
      <4>1. file' = FWritten(chan, file)
        BY <1>17, <3>1 DEF Feed!writelines, Feed!Big, FWritten
      <4>2. FCells(file', w) /\ FBlock(file', w) /\ (chan[1].of = w.now /\ FFalling(file) => FFalling(file'))
        BY <1>4, <1>6, <3>1, <4>1, WriteKeeps
      <4>3. chan[1].of = w.now
        <5>1. chan # <<>>
          BY <1>4, <3>1, FeedBounds
        <5>. QED BY <1>2, <1>4, <2>1, <5>1 DEF FView
      <4>. QED BY <1>7, <4>2, <4>3
    <3>2. CASE ~ (Len(chan) > Cut)
      <4>1. file' = file
        BY <1>17, <3>2 DEF Feed!writelines, Feed!Big
      <4>. QED BY <1>6, <1>7, <4>1
    <3>. QED BY <3>1, <3>2
  <2>. QED BY <2>1, <2>2, <2>3, NoLines
<1>18. ASSUME NEW c \in 1 .. MaxConns, Feed!HandlerEnds(c)
       PROVE  /\ FReport(chan', w) /\ (chan' # <<>> => chan'[1].of = clock')
              /\ buf' \in [1 .. MaxConns -> Seq(FLine)] /\ \A d \in 1 .. MaxConns : FReport(buf'[d], w)
              /\ FCells(file', w) /\ FBlock(file', w)
              /\ conn' = 1 => FFalling(file') /\ (step' = "open" => file' = <<>>)
  <2>1. UNCHANGED <<conn, clock, chan>> /\ conn' # 1
    BY <1>8, <1>18 DEF Feed!HandlerEnds
  <2>2. PICK s : s = buf[c]
    OBVIOUS
  <2>3. FReport(s, w) /\ file' = Feed!Flushed(s, file) /\ buf' = [buf EXCEPT ![c] = <<>>]
    BY <1>5, <1>18, <2>2 DEF Feed!HandlerEnds
  <2>4. FCells(file', w) /\ FBlock(file', w)
    BY <1>6, <2>3, FlushKeeps
  <2>5. buf' \in [1 .. MaxConns -> Seq(FLine)] /\ \A d \in 1 .. MaxConns : FReport(buf'[d], w)
    <3>1. <<>> \in Seq(FLine) /\ FReport(<<>>, w)
      BY NoLines
    <3>. QED BY <1>5, <1>18, <2>3, <3>1
  <2>. QED BY <1>4, <2>1, <2>4, <2>5
<1>19. Feed!Walk \/ Feed!getOutPsNum => UNCHANGED <<clock, chan, buf, file, conn, step>>
  BY DEF Feed!Walk, Feed!getOutPsNum, Feed!disk
<1>. QED BY <1>10, <1>11, <1>12, <1>13, <1>14, <1>15, <1>16, <1>17, <1>18, <1>19 DEF Feed!Next, Feed!handle, Feed!Conn

\* A walk of the processes S at the time t, that may have met the next ps.
FWalk(P, S, t) == \E ps \in {<<>>, <<Feed!PsPid(t + 1)>>} : P = Feed!Ascending(S) \o ps \o <<0>>

\* Where exdamain is.
FWalked ==
  /\ psouttime \in 0 .. clock
  /\ psoutlist # <<>> /\ changed < psouttime => FWalk(psoutlist, alive, psouttime)
  /\ feedpc = "check" => psoutlist # <<>>

\* What the comparisons since the last bad file left.
FKnown ==
  /\ seen[1] \in 0 .. clock \union {Feed!Never} /\ seen[2] \in 0 .. clock \union {Feed!Never}
  /\ seen[1] # Feed!Never => seen[2] # Feed!Never
  /\ seen[2] # Feed!Never => psoutlist # <<>>
  /\ seen[2] # Feed!Never /\ changed + Lag < seen[2] => alive \intersect unlisted \subseteq hidelist

FWarned == Feed!NoFalseAlarm /\ Feed!HiddenIsWarned

\* The lesser of two numbers.
LEMMA LesserOf ==
  ASSUME NEW x \in Int, NEW z \in Int
  PROVE  Feed!Min({x, z}) = IF x <= z THEN x ELSE z
<1>1. PICK m : m = IF x <= z THEN x ELSE z
  OBVIOUS
<1>2. m \in {x, z} /\ \A y \in {x, z} : m <= y
  BY <1>1
<1>3. \A p \in {x, z} : (\A y \in {x, z} : p <= y) => p = m
  BY <1>1
<1>4. Feed!Min({x, z}) = CHOOSE p \in {x, z} : \A y \in {x, z} : p <= y
  BY DEF Feed!Min
<1>. QED BY <1>1, <1>2, <1>3, <1>4

\* No line is of an older report.
LEMMA OldestIs ==
  ASSUME NEW f \in Seq(FLine), f # <<>>, \A k \in 1 .. Len(f) : f[k].of \in Nat
  PROVE  /\ Feed!Oldest(f) \in Nat
         /\ \A k \in 1 .. Len(f) : Feed!Oldest(f) <= f[k].of
         /\ \E k \in 1 .. Len(f) : Feed!Oldest(f) = f[k].of
<1>1. PICK T : T = {f[k].of : k \in 1 .. Len(f)}
  OBVIOUS
<1>2. 1 \in 1 .. Len(f)
  OBVIOUS
<1>3. T \subseteq Nat /\ T # {}
  BY <1>1, <1>2
<1>4. Feed!Oldest(f) = Feed!Min(T)
  <2>1. DOMAIN f = 1 .. Len(f)
    OBVIOUS
  <2>. QED BY <1>1, <2>1 DEF Feed!Oldest
<1>5. Feed!Min(T) \in T /\ \A y \in T : Feed!Min(T) <= y
  BY <1>3, LeastElement DEF Feed!Min
<1>. QED BY <1>1, <1>3, <1>4, <1>5

\* What a walk meets.
LEMMA WalkIs ==
  ASSUME NEW S, S \subseteq Proc, NEW t, t \in 0 .. MaxReports, NEW P, FWalk(P, S, t)
  PROVE  /\ P \in Seq(Int) /\ Cardinality(S) \in Nat /\ Len(P) > Cardinality(S)
         /\ \A j \in 1 .. Cardinality(S) : P[j] = Feed!Ascending(S)[j] /\ P[j] \in S
         /\ \A j \in Cardinality(S) + 1 .. Len(P) : P[j] \in Feed!PsOrLsmod
<1>1. MaxReports \in Nat /\ Proc \subseteq Int
  BY FeedBounds
<1>2. IsFiniteSet(S) /\ S \subseteq Int
  BY <1>1, FeedBounds, FS_Subset
<1>3. PICK a : a = Cardinality(S)
  OBVIOUS
<1>4. PICK s : s = Feed!Ascending(S)
  OBVIOUS
<1>5. a \in Nat /\ s \in [1 .. a -> S]
  BY <1>2, <1>3, <1>4, InOrderOf
<1>6. s \in Seq(Int) /\ Len(s) = a /\ \A j \in 1 .. a : s[j] \in S
  <2>1. s \in [1 .. a -> Int]
    BY <1>2, <1>5
  <2>. QED BY <1>5, <2>1
<1>7. PICK p : p = Feed!PsPid(t + 1)
  OBVIOUS
<1>8. p \in Int /\ p \in Feed!PsOrLsmod /\ 0 \in Feed!PsOrLsmod
  <2>1. t + 1 \in 1 .. MaxReports + 1 /\ t + 1 \in Int
    BY <1>1
  <2>2. p \in Int
    BY <1>7, <2>1 DEF Feed!PsPid
  <2>. QED BY <1>7, <2>1, <2>2 DEF Feed!PsOrLsmod
<1>9. PICK q : P = s \o q /\ q \in {<<0>>, <<p, 0>>}
  <2>1. PICK ps \in {<<>>, <<p>>} : P = s \o ps \o <<0>>
    BY <1>4, <1>7 DEF FWalk
  <2>2. CASE ps = <<>>
    <3>1. s \o <<>> = s
      BY <1>6
    <3>. QED BY <2>1, <2>2, <3>1
  <2>3. CASE ps = <<p>>
    <3>1. (s \o <<p>>) \o <<0>> = s \o <<p, 0>>
      BY <1>6, <1>8
    <3>. QED BY <2>1, <2>3, <3>1
  <2>. QED BY <2>1, <2>2, <2>3
<1>10. q \in Seq(Int) /\ Len(q) \in {1, 2} /\ \A k \in 1 .. Len(q) : q[k] \in Feed!PsOrLsmod
  <2>1. CASE q = <<0>>
    <3>1. q \in Seq(Int) /\ Len(q) = 1 /\ q[1] = 0
      BY <2>1
    <3>. QED BY <1>8, <3>1
  <2>2. CASE q = <<p, 0>>
    <3>1. q \in Seq(Int) /\ Len(q) = 2 /\ q[1] = p /\ q[2] = 0
      BY <1>8, <2>2
    <3>2. \A k \in 1 .. 2 : k = 1 \/ k = 2
      OBVIOUS
    <3>. QED BY <1>8, <3>1, <3>2
  <2>. QED BY <1>9, <2>1, <2>2
<1>11. PICK b : b = Len(q)
  OBVIOUS
<1>12. b \in {1, 2} /\ Len(s) = a
  BY <1>6, <1>10, <1>11
<1>13. /\ P \in Seq(Int) /\ Len(P) = a + b
       /\ \A k \in 1 .. a : P[k] = s[k]
       /\ \A k \in 1 .. b : P[a + k] = q[k]
  <2>1. /\ s \o q \in Seq(Int) /\ Len(s \o q) = Len(s) + Len(q)
        /\ \A k \in 1 .. Len(s) : (s \o q)[k] = s[k]
        /\ \A k \in 1 .. Len(q) : (s \o q)[Len(s) + k] = q[k]
    <3>1. s \in Seq(Int) /\ q \in Seq(Int)
      BY <1>6, <1>10
    <3>. QED BY <3>1
  <2>. QED BY <1>9, <1>11, <1>12, <2>1
<1>14. ASSUME NEW j \in a + 1 .. a + b PROVE P[j] \in Feed!PsOrLsmod
  <2>1. PICK k \in 1 .. b : k = j - a
    BY <1>5, <1>12
  <2>2. a + k = j
    BY <1>5, <1>12, <2>1
  <2>. QED BY <1>10, <1>11, <1>13, <2>1, <2>2
<1>15. \A j \in 1 .. a : P[j] = s[j] /\ P[j] \in S
  BY <1>6, <1>13
<1>. QED BY <1>3, <1>4, <1>5, <1>12, <1>13, <1>14, <1>15

\* None of the processes looks like a ps.
LEMMA NoProcIsPs == \A x \in Proc : x \notin Feed!PsOrLsmod
<1>1. ASSUME NEW x \in Proc PROVE x \notin Feed!PsOrLsmod
  <2>1. x \in 1 .. 99
    BY FeedBounds
  <2>2. MaxReports \in Nat
    BY FeedBounds
  <2>3. \A n \in 1 .. MaxReports + 1 : Feed!PsPid(n) > 100
    BY <2>2 DEF Feed!PsPid
  <2>. QED BY <2>1, <2>2, <2>3 DEF Feed!PsOrLsmod
<1>. QED BY <1>1

\* When nothing changed since the walk and the oldest line, the comparison
\* misses what ps hides, and nothing else.
LEMMA ComparedIs ==
  ASSUME FGuest, FDisk, FWalked, feedpc = "check", file # <<>>, Feed!Good(file),
         changed < psouttime, \A k \in 1 .. Len(file) : file[k].of > changed
  PROVE  Feed!Missed(file) \ Feed!PsOrLsmod = alive \intersect unlisted
<1>1. PICK v : v = FView
  OBVIOUS
<1>2. v \in FViews /\ v.listed = alive \ unlisted /\ v.since = changed /\ v.now = clock
  BY <1>1, FeedBounds DEF FView, FViews, FGuest
<1>3. PICK f : f = file
  OBVIOUS
<1>4. /\ FCells(f, v) /\ FBlock(f, v) /\ f # <<>>
      /\ Last(f).pid = Feed!Clock /\ f[1] # Feed!Hole
      /\ \A k \in 1 .. Len(f) : f[k].of > v.since
  <2>1. FCells(f, v) /\ FBlock(f, v)
    BY <1>1, <1>3 DEF FDisk
  <2>2. Last(f).pid = Feed!Clock /\ f[1] # Feed!Hole
    BY <1>3 DEF Feed!Good, Feed!Last, Last
  <2>. QED BY <1>2, <1>3, <2>1, <2>2
<1>5. PICK m \in Nat : m = FCount(v)
  BY <1>2, LinesAt
<1>6. Len(f) = m + 2 /\ \A k \in 1 .. m + 2 : f[k].of \in 0 .. clock /\ f[k] = FAt(k, f[k].of, v)
  <2>1. Len(f) = FCount(v) + 2 /\ \A k \in 1 .. Len(f) : f[k].of \in 0 .. v.now /\ f[k] = FAt(k, f[k].of, v)
    BY <1>2, <1>4, GoodFileIs
  <2>. QED BY <1>2, <1>5, <2>1
<1>7. clock \in Nat /\ f \in Seq(FLine)
  BY <1>4, FeedBounds DEF FGuest, FCells
<1>8. ASSUME NEW k \in 1 .. m PROVE f[k].pid = Feed!Ascending(alive \ unlisted)[k]
  <2>1. PICK n \in Int : n = f[k].of
    BY <1>6, <1>7
  <2>2. f[k] = FAt(k, n, v)
    BY <1>6, <2>1
  <2>3. \A i \in 1 .. FCount(v) : FAt(i, n, v).pid = Feed!Ascending(v.listed)[i]
    BY <1>2, PidsAt
  <2>. QED BY <1>2, <1>5, <2>2, <2>3
<1>9. PICK y \in Nat : y = f[m + 1].of
  <2>1. m + 1 \in 1 .. m + 2
    OBVIOUS
  <2>. QED BY <1>6, <1>7, <2>1
<1>10. f[m + 1].pid = Feed!PsPid(y)
  <2>1. f[m + 1] = FAt(m + 1, y, v)
    BY <1>6, <1>9
  <2>. QED BY <1>2, <1>5, <2>1, PidsAt
<1>11. f[m + 2].pid = Feed!Clock
  <2>1. PICK n \in Int : n = f[m + 2].of
    BY <1>6, <1>7
  <2>2. f[m + 2] = FAt(m + 2, n, v)
    BY <1>6, <2>1
  <2>. QED BY <1>2, <1>5, <2>2, PidsAt
<1>12. PICK S, U : S = alive /\ U = alive \ unlisted
  OBVIOUS
<1>13. PICK a : a = Cardinality(S)
  OBVIOUS
<1>14. S \subseteq Proc /\ U \subseteq S
  BY <1>12 DEF FGuest
<1>15. /\ psoutlist \in Seq(Int) /\ a \in Nat /\ Len(psoutlist) >= a
       /\ \A j \in 1 .. a : psoutlist[j] = Feed!Ascending(S)[j]
       /\ \A j \in a + 1 .. Len(psoutlist) : psoutlist[j] \in Feed!PsOrLsmod
  <2>1. PICK P, t : P = psoutlist /\ t = psouttime
    OBVIOUS
  <2>2. FWalk(P, S, t) /\ t \in 0 .. MaxReports
    BY <1>12, <2>1, FeedBounds DEF FWalked, FGuest
  <2>. QED BY <1>13, <1>14, <2>1, <2>2, WalkIs
<1>16. m = Cardinality(U)
  BY <1>2, <1>5, <1>12 DEF FCount
<1>17. FCompares(f, U, S, m, a, y)
  BY <1>6, <1>7, <1>8, <1>10, <1>11, <1>12, <1>13, <1>14, <1>15, <1>16 DEF FCompares
<1>18. Feed!Missed(f) \ Feed!PsOrLsmod = S \ U
  BY <1>17, MissedAre
<1>. QED BY <1>3, <1>12, <1>18

\* Nor does a step spoil what exdamain knows.
LEMMA FeedCompare ==
  ASSUME FGuest, FDisk, FWalked, FKnown, FWarned, Feed!Next
  PROVE  FWalked' /\ FKnown' /\ FWarned'
<1>1. /\ clock \in Int /\ changed \in Int /\ changed <= clock /\ clock <= MaxReports /\ Feed!Never = MaxReports + 1
      /\ Lag \in Nat /\ MaxReports \in Nat /\ psouttime \in Int /\ psouttime <= clock /\ psouttime >= 0
      /\ seen[1] \in Int /\ seen[2] \in Int
  BY FeedBounds DEF FGuest, FWalked, FKnown, Feed!Never
<1>2. /\ clock' \in Int /\ changed' \in Int /\ clock <= clock' /\ clock' <= MaxReports
  <2>1. FGuest' /\ FLater(FView, FView')
    BY FeedViews
  <2>. QED BY <1>1, <2>1 DEF FGuest, FLater, FView
\* Which values are which.
<1>3. PICK x, y, z : x = seen[1] /\ y = seen[2] /\ z = psouttime
  OBVIOUS
<1>4. ASSUME UNCHANGED <<alive, unlisted, changed, psoutlist, psouttime, hidelist, seen, warned>>,
             conn' = 1 => conn = 1, feedpc' = feedpc
      PROVE  FWalked' /\ FKnown' /\ FWarned'
  <2>1. FWalked'
    BY <1>1, <1>2, <1>4 DEF FWalked
  <2>2. FKnown'
    BY <1>1, <1>2, <1>4 DEF FKnown, Feed!Never
  <2>3. FWarned'
    BY <1>4 DEF FWarned, Feed!NoFalseAlarm, Feed!HiddenIsWarned, Feed!Never
  <2>. QED BY <2>1, <2>2, <2>3
<1>5. ASSUME NEW p \in Proc, Feed!Change(p) PROVE FWalked' /\ FKnown' /\ FWarned'
  <2>1. /\ changed' = clock /\ clock' = clock /\ unlisted \subseteq unlisted'
        /\ UNCHANGED <<conn, feedpc, psoutlist, psouttime, hidelist, seen, warned>>
    BY <1>5 DEF Feed!Change, Feed!host
  <2>2. FWalked'
    BY <1>1, <2>1 DEF FWalked
  <2>3. FKnown'
    BY <1>1, <2>1 DEF FKnown, Feed!Never
  <2>4. Feed!NoFalseAlarm'
    <3>1. Feed!Min({seen[2], psouttime}) <= psouttime
      BY <1>1, LesserOf
    <3>2. Feed!Min({seen[2], psouttime}) \in Int
      BY <1>1, LesserOf
    <3>3. changed' >= Feed!Min({seen'[2], psouttime'}) /\ changed' + Lag >= psouttime'
      BY <1>1, <2>1, <3>1, <3>2
    <3>. QED BY <3>3 DEF Feed!NoFalseAlarm
  <2>5. Feed!HiddenIsWarned'
    <3>. SUFFICES ASSUME seen[1] # Feed!Never PROVE ~ (changed' + Lag < Feed!Min({seen'[1], seen'[2]}))
      BY <2>1 DEF Feed!HiddenIsWarned, Feed!Never
    <3>1. seen[1] <= clock
      BY DEF FKnown, FGuest
    <3>2. Feed!Min({seen[1], seen[2]}) <= seen[1] /\ Feed!Min({seen[1], seen[2]}) \in Int
      BY <1>1, LesserOf
    <3>. QED BY <1>1, <2>1, <3>1, <3>2
  <2>. QED BY <2>2, <2>3, <2>4, <2>5 DEF FWarned
<1>6. CASE Feed!Walk
  <2>1. /\ UNCHANGED <<clock, conn, alive, unlisted, changed, hidelist, seen, warned>>
        /\ feedpc' = "check" /\ psouttime' = clock /\ FWalk(psoutlist', alive, clock)
    BY <1>6 DEF Feed!Walk, FWalk, Feed!guest
  <2>2. psoutlist' # <<>>
    <3>1. PICK S, t, P : S = alive /\ t = clock /\ P = psoutlist'
      OBVIOUS
    <3>2. S \subseteq Proc /\ t \in 0 .. MaxReports /\ FWalk(P, S, t)
      BY <2>1, <3>1 DEF FGuest
    <3>3. P \in Seq(Int) /\ Cardinality(S) \in Nat /\ Len(P) > Cardinality(S)
      BY <3>2, WalkIs
    <3>4. Len(P) > 0
      BY <3>3
    <3>5. P # <<>>
      BY <3>3, <3>4
    <3>. QED BY <3>1, <3>5
  <2>3. FWalked'
    BY <1>1, <2>1, <2>2 DEF FWalked
  <2>4. FKnown'
    BY <2>1, <2>2 DEF FKnown, Feed!Never
  <2>5. FWarned'
    BY <2>1 DEF FWarned, Feed!NoFalseAlarm, Feed!HiddenIsWarned
  <2>. QED BY <2>3, <2>4, <2>5
<1>7. CASE Feed!getOutPsNum
  <2>1. UNCHANGED <<clock, conn, alive, unlisted, changed, psoutlist, psouttime>> /\ feedpc = "check"
    BY <1>7 DEF Feed!getOutPsNum, Feed!guest
  <2>2. psoutlist # <<>>
    BY <2>1 DEF FWalked
  <2>3. FWalked'
    <3>1. feedpc' # "check"
      BY <1>7 DEF Feed!getOutPsNum
    <3>. QED BY <2>1, <3>1 DEF FWalked
  <2>4. CASE file = <<>>
    <3>1. UNCHANGED <<hidelist, seen, warned>> /\ feedpc' = "again"
      BY <1>7, <2>4 DEF Feed!getOutPsNum
    <3>2. FKnown'
      BY <2>1, <3>1 DEF FKnown, Feed!Never
    <3>3. FWarned'
      BY <3>1 DEF FWarned, Feed!NoFalseAlarm, Feed!HiddenIsWarned
    <3>. QED BY <2>3, <3>2, <3>3
  <2>5. CASE file # <<>> /\ ~ Feed!Good(file)
    <3>1. hidelist' = {} /\ warned' = {} /\ seen' = <<Feed!Never, Feed!Never>>
      BY <1>7, <2>5 DEF Feed!getOutPsNum
    <3>2. FKnown'
      BY <3>1 DEF FKnown, Feed!Never
    <3>3. FWarned'
      BY <3>1 DEF FWarned, Feed!NoFalseAlarm, Feed!HiddenIsWarned, Feed!Never
    <3>. QED BY <2>3, <3>2, <3>3
  <2>6. CASE file # <<>> /\ Feed!Good(file)
    <3>1. PICK o : o = Feed!Oldest(file)
      OBVIOUS
    <3>2. PICK l : l = file[Len(file)].of
      OBVIOUS
    <3>3. /\ hidelist' = Feed!Missed(file) \ Feed!PsOrLsmod
          /\ warned' = hidelist' \intersect hidelist /\ seen' = <<seen[2], o>> /\ feedpc' = "walk"
      BY <1>7, <2>6, <3>1 DEF Feed!getOutPsNum
    <3>4. PICK v \in FViews : v = FView /\ v.now = clock
      BY FeedViews DEF FView
    <3>5. file \in Seq(FLine) /\ FCells(file, v)
      BY <3>4 DEF FDisk, FCells
    <3>6. \A k \in 1 .. Len(file) : file[k].of \in Nat
      <4>1. ASSUME NEW k \in 1 .. Len(file) PROVE file[k].of \in Nat
        <5>1. file[k] = Feed!Hole \/ FPlaced(file[k], k, v)
          BY <3>5 DEF FCells
        <5>2. Feed!Hole.of \in Nat
          BY <1>1 DEF Feed!Hole, Feed!Line
        <5>3. FPlaced(file[k], k, v) => file[k].of \in Nat
          BY <1>1, <3>4 DEF FPlaced
        <5>. QED BY <5>1, <5>2, <5>3
      <4>. QED BY <4>1
    <3>7. o \in Nat /\ \A k \in 1 .. Len(file) : o <= file[k].of
      BY <2>6, <3>1, <3>5, <3>6, OldestIs
    <3>8. PICK k \in 1 .. Len(file) : o = file[k].of
      BY <2>6, <3>1, <3>5, <3>6, OldestIs
    <3>9. 1 \in 1 .. Len(file) /\ Len(file) \in 1 .. Len(file)
      BY <2>6, <3>5
    <3>10. o <= clock
      <4>1. FPlaced(file[1], 1, v)
        BY <2>6, <3>5, <3>9 DEF FCells, Feed!Good
      <4>2. file[1].of <= clock /\ file[1].of \in Int
        BY <1>1, <3>4, <4>1 DEF FPlaced
      <4>. QED BY <1>1, <3>7, <3>9, <4>2
    <3>11. o <= l /\ l \in Nat /\ l - Lag <= psouttime /\ psouttime - Lag <= l
      <4>1. Feed!Magnitude(psouttime - l) <= Lag
        BY <2>6, <3>2 DEF Feed!Good, Feed!Last
      <4>2. l \in Nat /\ o <= l
        BY <3>2, <3>6, <3>7, <3>9
      <4>. QED BY <1>1, <4>1, <4>2 DEF Feed!Magnitude
    \* A comparison with nothing old.
    <3>12. ASSUME changed < o, changed < psouttime PROVE hidelist' = alive \intersect unlisted
      <4>1. \A i \in 1 .. Len(file) : file[i].of > changed
        BY <1>1, <3>6, <3>7, <3>12
      <4>. QED BY <2>1, <2>6, <3>3, <3>12, <4>1, ComparedIs
    <3>13. ASSUME changed + Lag < o PROVE hidelist' = alive \intersect unlisted
      BY <1>1, <3>7, <3>11, <3>12, <3>13
    <3>14. FKnown'
      <4>1. seen'[1] = seen[2] /\ seen'[2] = o
        BY <3>3
      <4>2. o \in 0 .. clock /\ o # Feed!Never
        BY <1>1, <3>7, <3>10
      <4>3. changed + Lag < o => alive \intersect unlisted \subseteq hidelist'
        BY <3>13
      <4>. QED BY <2>1, <2>2, <4>1, <4>2, <4>3 DEF FKnown, Feed!Never
    <3>15. Feed!NoFalseAlarm'
      <4>. SUFFICES ASSUME ~ (warned' \subseteq unlisted)
                    PROVE  changed >= Feed!Min({o, psouttime}) /\ (conn = 1 => changed + Lag >= psouttime)
        BY <2>1, <3>3 DEF Feed!NoFalseAlarm
      <4>1. ~ (changed < o /\ changed < psouttime)
        BY <3>3, <3>12
      <4>2. changed >= Feed!Min({o, psouttime})
        BY <1>1, <3>7, <4>1, LesserOf
      <4>3. ASSUME conn = 1, changed + Lag < psouttime PROVE FALSE
        <5>1. FFalling(file)
          BY <4>3 DEF FDisk
        <5>2. file[k].of >= l
          <6>1. k = Len(file) \/ k < Len(file)
            BY <3>5
          <6>. QED BY <3>2, <3>7, <3>8, <3>9, <3>11, <5>1, <6>1 DEF FFalling
        <5>3. o >= l
          BY <3>8, <5>2
        <5>. QED BY <1>1, <3>7, <3>11, <4>1, <4>3, <5>3
      <4>. QED BY <1>1, <4>2, <4>3
    <3>16. Feed!HiddenIsWarned'
      <4>. SUFFICES ASSUME y # Feed!Never, changed + Lag < Feed!Min({y, o})
                    PROVE  unlisted \intersect Feed!ToSet(psoutlist) \subseteq warned'
        BY <1>3, <2>1, <3>3 DEF Feed!HiddenIsWarned, Feed!Never
      <4>1. changed + Lag < y /\ changed + Lag < o
        <5>1. y \in Int /\ o \in Int
          BY <1>1, <1>3, <3>7
        <5>2. Feed!Min({y, o}) = IF y <= o THEN y ELSE o
          BY <5>1, LesserOf
        <5>. QED BY <1>1, <5>1, <5>2
      <4>2. alive \intersect unlisted \subseteq hidelist
        BY <1>3, <4>1 DEF FKnown
      <4>3. hidelist' = alive \intersect unlisted
        BY <3>13, <4>1
      <4>4. FWalk(psoutlist, alive, psouttime)
        BY <1>1, <2>2, <3>7, <3>11, <4>1 DEF FWalked
      <4>5. ASSUME NEW q \in unlisted, q \in Feed!ToSet(psoutlist) PROVE q \in alive
        <5>1. PICK S, t, P : S = alive /\ t = psouttime /\ P = psoutlist
          OBVIOUS
        <5>2. S \subseteq Proc /\ t \in 0 .. MaxReports /\ FWalk(P, S, t)
          BY <1>1, <4>4, <5>1 DEF FGuest
        <5>3. PICK a : a = Cardinality(S)
          OBVIOUS
        <5>4. /\ P \in Seq(Int) /\ a \in Nat
              /\ \A j \in 1 .. a : P[j] \in S
              /\ \A j \in a + 1 .. Len(P) : P[j] \in Feed!PsOrLsmod
          BY <5>2, <5>3, WalkIs
        <5>5. DOMAIN P = 1 .. Len(P)
          BY <5>4
        <5>6. PICK j \in 1 .. Len(P) : P[j] = q
          BY <4>5, <5>1, <5>5 DEF Feed!ToSet
        <5>7. q \notin Feed!PsOrLsmod
          BY <4>5, NoProcIsPs DEF FGuest
        <5>8. j \in 1 .. a
          BY <5>4, <5>6, <5>7
        <5>. QED BY <5>1, <5>4, <5>6, <5>8
      <4>. QED BY <3>3, <4>2, <4>3, <4>5
    <3>. QED BY <2>3, <3>14, <3>15, <3>16 DEF FWarned
  <2>. QED BY <2>4, <2>5, <2>6
<1>8. Feed!Report \/ Feed!Reconnect \/ Feed!handle =>
        /\ UNCHANGED <<alive, unlisted, changed, psoutlist, psouttime, hidelist, seen, warned, feedpc>>
        /\ conn' = 1 => conn = 1
  <2>1. Feed!Report => UNCHANGED <<alive, unlisted, changed, psoutlist, psouttime, hidelist, seen, warned, feedpc, conn>>
    BY DEF Feed!Report, Feed!guest, Feed!host
  <2>2. Feed!Reconnect => UNCHANGED <<alive, unlisted, changed, psoutlist, psouttime, hidelist, seen, warned, feedpc>> /\ conn' = conn + 1
    BY DEF Feed!Reconnect, Feed!guest, Feed!host
  <2>3. Feed!handle => UNCHANGED <<alive, unlisted, changed, psoutlist, psouttime, hidelist, seen, warned, feedpc, conn>>
    BY DEF Feed!handle, Feed!Discard, Feed!Recv, Feed!Rebind, Feed!writelines, Feed!HandlerEnds, Feed!guest, Feed!host
  <2>4. conn >= 1 /\ conn \in Int
    BY FeedBounds DEF FGuest
  <2>. QED BY <2>1, <2>2, <2>3, <2>4
<1>. QED BY <1>4, <1>5, <1>6, <1>7, <1>8 DEF Feed!Next

\* The inductive invariant.
FInv == FGuest /\ FDisk /\ FWalked /\ FKnown /\ FWarned

\* It holds at the start.
LEMMA InitFInv == Feed!Init => FInv
<1>. SUFFICES ASSUME Feed!Init PROVE FInv
  OBVIOUS
<1>1. MaxReports \in Nat /\ MaxConns \in Nat /\ MaxConns > 0 /\ Lag \in Nat
  BY FeedBounds
<1>2. FGuest
  <2>1. alive \subseteq Proc /\ unlisted = {} /\ changed = -Lag - 1 /\ clock = 0 /\ conn = 1
    BY DEF Feed!Init
  <2>. QED BY <1>1, <2>1 DEF FGuest
<1>3. FDisk
  <2>1. chan = <<>> /\ file = <<>> /\ step = "discard" /\ buf = [c \in 1 .. MaxConns |-> <<>>]
    BY DEF Feed!Init, Feed!Conn
  <2>2. <<>> \in Seq(FLine)
    OBVIOUS
  <2>. QED BY <2>1, <2>2, NoLines DEF FDisk
<1>4. psoutlist = <<>> /\ psouttime = 0 /\ feedpc = "walk" /\ seen = <<Feed!Never, Feed!Never>> /\ warned = {} /\ clock = 0
  BY DEF Feed!Init
<1>5. FWalked
  BY <1>4 DEF FWalked
<1>6. FKnown
  BY <1>4 DEF FKnown
<1>7. FWarned
  BY <1>4 DEF FWarned, Feed!NoFalseAlarm, Feed!HiddenIsWarned
<1>. QED BY <1>2, <1>3, <1>5, <1>6, <1>7 DEF FInv

\* And after every step.
LEMMA NextFInv == FInv /\ [Feed!Next]_(Feed!vars) => FInv'
<1>. SUFFICES ASSUME FInv, [Feed!Next]_(Feed!vars) PROVE FInv'
  OBVIOUS
<1>1. CASE Feed!Next
  BY <1>1, FeedViews, FeedDisk, FeedCompare DEF FInv
<1>2. CASE UNCHANGED Feed!vars
  <2>1. UNCHANGED <<alive, unlisted, changed, clock, conn, chan, buf, step, file, feedpc, psoutlist, psouttime,
                    hidelist, warned, seen>>
    BY <1>2 DEF Feed!vars, Feed!guest, Feed!disk, Feed!host
  <2>2. FGuest' /\ FDisk'
    BY <2>1 DEF FInv, FGuest, FDisk, FView
  <2>3. FWalked' /\ FKnown'
    BY <2>1 DEF FInv, FWalked, FKnown, Feed!Never
  <2>4. FWarned'
    BY <2>1 DEF FInv, FWarned, Feed!NoFalseAlarm, Feed!HiddenIsWarned, Feed!Never
  <2>. QED BY <2>2, <2>3, <2>4 DEF FInv
<1>. QED BY <1>1, <1>2

\* getOutPsNum warns of a process that ps does list only when some process
\* started, ended or was hidden since the walk or since the oldest line of the
\* file, and with one connection no longer ago than it allows a stamp to be.
THEOREM NoProcessIsWarnedOfFalsely == Feed!Spec => []FeedNoFalseAlarm
<1>1. FInv => FeedNoFalseAlarm
  BY DEF FInv, FWarned, FeedNoFalseAlarm
<1>. QED BY <1>1, InitFInv, NextFInv, PTL DEF Feed!Spec

\* A process that ps hides is warned of at the second good comparison in a row
\* when nothing else changed, whatever its pid, for any number of processes,
\* reports, lost connections and broken reports.
THEOREM HiddenProcessesAreWarnedOf == Feed!Spec => []FeedHiddenIsWarned
<1>1. FInv => FeedHiddenIsWarned
  BY DEF FInv, FWarned, FeedHiddenIsWarned
<1>. QED BY <1>1, InitFInv, NextFInv, PTL DEF Feed!Spec
=============================================================================
